-------------------------- MODULE ControlDb_proofs --------------------------
(***************************************************************************)
(* What TLC checks of ControlDb for three commands, proved for any set of  *)
(* commands and models: its types, that sendings and answers belong        *)
(* together, that only an overlap the user made loses a command, and that  *)
(* a patient user's last command wins.  WriterExplains names the command a *)
(* column shows; LooseMetLater makes it inductive.                         *)
(***************************************************************************)
EXTENDS ControlDb, TLAPS

Sound == TypeOK /\ SendingsExact /\ LooseMetLater /\ WriterExplains

LEMMA MaxTriesType == MaxTries = 2 /\ 1 \in 1..MaxTries
BY DEF MaxTries

LEMMA InitSound == Init => Sound
BY NoCmdAssumption, MaxTriesType
   DEF Init, Sound, TypeOK, SendingsExact, LooseMetLater, WriterExplains,
       Done, IssuedFor, Loose, Values, Columns, Cells

LEMMA NextTypeOK == TypeOK /\ SendingsExact /\ [Next]_vars => TypeOK'
<1> SUFFICES ASSUME TypeOK, SendingsExact, [Next]_vars PROVE TypeOK'
  OBVIOUS
<1> USE MaxTriesType DEF TypeOK
<1>1. ASSUME NEW c \in Cmds, NEW w \in Orders, Post(c, w) PROVE TypeOK'
  BY <1>1 DEF Post, Orders
<1>2. ASSUME NEW c \in Cmds, Timeout(c) PROVE TypeOK'
  BY <1>2 DEF Timeout, Unanswered
<1>3. ASSUME NEW c \in Cmds, Fail(c) PROVE TypeOK'
  BY <1>3 DEF Fail, Unanswered
<1>4. ASSUME NEW c \in Cmds, NEW body \in Bodies, Hear(c, body) PROVE TypeOK'
  BY <1>4 DEF Hear, Unanswered
<1>5. CASE AppKilled
  BY <1>5 DEF AppKilled
<1>6. ASSUME NEW s \in wire, Execute(s[1], s[2]) PROVE TypeOK'
  <2>1. s[1] \in Cmds /\ s[2] \in 1..MaxTries /\ phase[s[1]] # "idle"
    BY DEF SendingsExact
  <2> QED
    BY <1>6, <2>1 DEF Execute, Answered, Bodies, ExecutedBody, Orders
<1>7. ASSUME NEW s \in wire, DbDown(s[1], s[2]) PROVE TypeOK'
  BY <1>7 DEF DbDown, Answered, Bodies
<1>8. ASSUME NEW s \in wire, LoseRequest(s[1], s[2]) PROVE TypeOK'
  BY <1>8 DEF LoseRequest
<1>9. CASE UNCHANGED vars
  BY <1>9 DEF vars
<1> QED
  BY <1>1, <1>2, <1>3, <1>4, <1>5, <1>6, <1>7, <1>8, <1>9 DEF Next

LEMMA NextSendingsExact == Sound /\ [Next]_vars => SendingsExact'
<1> SUFFICES ASSUME Sound, [Next]_vars PROVE SendingsExact'
  OBVIOUS
<1> USE MaxTriesType DEF Sound, TypeOK, SendingsExact
<1>1. ASSUME NEW c \in Cmds, NEW w \in Orders, Post(c, w) PROVE SendingsExact'
  BY <1>1 DEF Post
<1>2. ASSUME NEW c \in Cmds, Timeout(c) PROVE SendingsExact'
  BY <1>2 DEF Timeout, Unanswered
<1>3. ASSUME NEW c \in Cmds, Fail(c) PROVE SendingsExact'
  BY <1>3 DEF Fail, Unanswered
<1>4. ASSUME NEW c \in Cmds, NEW body \in Bodies, Hear(c, body) PROVE SendingsExact'
  BY <1>4 DEF Hear, Unanswered
<1>5. CASE AppKilled
  BY <1>5 DEF AppKilled
<1>6. ASSUME NEW s \in wire, Execute(s[1], s[2]) PROVE SendingsExact'
  BY <1>6 DEF Execute, Answered
<1>7. ASSUME NEW s \in wire, DbDown(s[1], s[2]) PROVE SendingsExact'
  BY <1>7 DEF DbDown, Answered
<1>8. ASSUME NEW s \in wire, LoseRequest(s[1], s[2]) PROVE SendingsExact'
  BY <1>8 DEF LoseRequest
<1>9. CASE UNCHANGED vars
  BY <1>9 DEF vars
<1> QED
  BY <1>1, <1>2, <1>3, <1>4, <1>5, <1>6, <1>7, <1>8, <1>9 DEF Next

\* A step that issues no command and loosens none keeps the order of the
\* commands.
LEMMA OrderKept ==
    ASSUME Sound, UNCHANGED <<want, turn, clock, crossed>>,
           executed' \subseteq {c \in Cmds : phase'[c] # "idle"},
           \A c \in Cmds : phase'[c] = "idle" <=> phase[c] = "idle",
           \A c \in Cmds : Loose(c)' => Loose(c)
    PROVE  LooseMetLater'
BY DEF Sound, TypeOK, LooseMetLater, IssuedFor

LEMMA NextLooseMetLater == Sound /\ [Next]_vars => LooseMetLater'
<1> SUFFICES ASSUME Sound, [Next]_vars PROVE LooseMetLater'
  OBVIOUS
<1> USE MaxTriesType DEF Sound, TypeOK
<1>0. \A c \in executed : phase[c] # "idle"
  BY DEF LooseMetLater
<1>1. ASSUME NEW c \in Cmds, NEW w \in Orders, Post(c, w) PROVE LooseMetLater'
  <2> USE <1>1 DEF Post, LooseMetLater
  <2>1. \A d \in Cmds : turn'[d] = IF d = c THEN clock + 1 ELSE turn[d]
    OBVIOUS
  <2>2. ASSUME NEW d \in Cmds
        PROVE  IF phase'[d] = "idle" THEN turn'[d] = 0 ELSE turn'[d] \in 1..clock'
    <3>1. phase'[d] = "idle" <=> d # c /\ phase[d] = "idle"
      OBVIOUS
    <3>2. clock' = clock + 1 /\ clock \in Nat
      OBVIOUS
    <3> QED
      BY <2>1, <3>1, <3>2
  <2>3. \A d, e \in Cmds : phase'[d] # "idle" /\ turn'[d] = turn'[e] => d = e
    BY <2>1, <2>2
  <2>4. \A d \in Cmds : Loose(d) => phase[d] # "idle"
    BY DEF Loose, SendingsExact
  <2>5. \A pair \in crossed' : phase'[pair[1]] # "idle" /\ phase'[pair[2]] # "idle"
    BY <2>4
  <2>6. ASSUME NEW cell \in Cells, NEW e \in IssuedFor(cell)', NEW d \in IssuedFor(cell)',
               Loose(d)', turn'[d] < turn'[e]
        PROVE  <<d, e>> \in crossed'
    <3>1. d # c
      <4>1. turn'[e] \in 0..clock' /\ turn'[c] = clock'
        BY <2>1, <2>2 DEF IssuedFor
      <4> QED BY <2>6, <4>1
    <3>2. Loose(d) /\ d \in IssuedFor(cell)
      BY <2>6, <3>1 DEF IssuedFor, Loose
    <3>3. CASE e = c
      BY <3>2, <3>3 DEF IssuedFor
    <3>4. CASE e # c
      <4>1. e \in IssuedFor(cell) /\ turn[d] < turn[e]
        BY <2>1, <2>6, <3>1, <3>4 DEF IssuedFor
      <4> QED BY <3>2, <4>1
    <3> QED
      BY <3>3, <3>4
  <2> QED
    BY <2>2, <2>3, <2>5, <2>6
<1>2. ASSUME NEW c \in Cmds, Timeout(c) PROVE LooseMetLater'
  <2>1. \A d \in Cmds : Loose(d)' => Loose(d)
    BY <1>2 DEF Timeout, Loose
  <2> QED
    BY <1>0, <1>2, <2>1, OrderKept DEF Timeout
<1>3. ASSUME NEW c \in Cmds, Fail(c) PROVE LooseMetLater'
  <2>1. \A d \in Cmds : Loose(d)' => Loose(d)
    BY <1>3 DEF Fail, Loose
  <2> QED
    BY <1>0, <1>3, <2>1, OrderKept DEF Fail
<1>4. ASSUME NEW c \in Cmds, NEW body \in Bodies, Hear(c, body) PROVE LooseMetLater'
  <2>1. \A d \in Cmds : Loose(d)' => Loose(d)
    BY <1>4 DEF Hear, Loose
  <2> QED
    BY <1>0, <1>4, <2>1, OrderKept DEF Hear
<1>5. CASE AppKilled
  <2>1. \A d \in Cmds : Loose(d)' => Loose(d)
    BY <1>5 DEF AppKilled, Loose
  <2> QED
    BY <1>0, <1>5, <2>1, OrderKept DEF AppKilled
<1>6. ASSUME NEW s \in wire, Execute(s[1], s[2]) PROVE LooseMetLater'
  <2>1. \A d \in Cmds : Loose(d)' => Loose(d)
    BY <1>6 DEF Execute, Loose
  <2>2. s[1] \in Cmds /\ phase[s[1]] # "idle"
    BY DEF SendingsExact
  <2> QED
    BY <1>0, <1>6, <2>1, <2>2, OrderKept DEF Execute
<1>7. ASSUME NEW s \in wire, DbDown(s[1], s[2]) PROVE LooseMetLater'
  <2>1. \A d \in Cmds : Loose(d)' => Loose(d)
    BY <1>7 DEF DbDown, Loose
  <2> QED
    BY <1>0, <1>7, <2>1, OrderKept DEF DbDown
<1>8. ASSUME NEW s \in wire, LoseRequest(s[1], s[2]) PROVE LooseMetLater'
  <2>1. \A d \in Cmds : Loose(d)' => Loose(d)
    BY <1>8 DEF LoseRequest, Loose
  <2> QED
    BY <1>0, <1>8, <2>1, OrderKept DEF LoseRequest
<1>9. CASE UNCHANGED vars
  BY <1>0, <1>9, OrderKept DEF vars, Loose
<1> QED
  BY <1>1, <1>2, <1>3, <1>4, <1>5, <1>6, <1>7, <1>8, <1>9 DEF Next

\* A step that executes nothing and confirms nothing leaves the columns as they were.
LEMMA ColumnsKept ==
    ASSUME Sound, UNCHANGED <<want, info, turn, executed, writer, crossed>>,
           \A c \in Cmds : phase'[c] = "idle" <=> phase[c] = "idle"
    PROVE  WriterExplains'
BY DEF Sound, TypeOK, WriterExplains, Done, IssuedFor

LEMMA NextWriterExplains == Sound /\ [Next]_vars => WriterExplains'
<1> SUFFICES ASSUME Sound, [Next]_vars PROVE WriterExplains'
  OBVIOUS
<1> USE DEF Sound, TypeOK
<1>1. ASSUME NEW c \in Cmds, NEW w \in Orders, Post(c, w) PROVE WriterExplains'
  <2>1. c \notin executed /\ \A d \in executed : phase[d] # "idle"
    BY <1>1 DEF Post, LooseMetLater
  <2>2. ASSUME NEW cell \in Cells PROVE Done(cell)' = Done(cell) /\ c \notin Done(cell)
    BY <1>1, <2>1 DEF Post, Done, IssuedFor
  <2>3. \A d \in Cmds : d # c => want'[d] = want[d] /\ turn'[d] = turn[d]
    BY <1>1 DEF Post
  <2>4. crossed \subseteq crossed' /\ UNCHANGED <<info, writer>>
    BY <1>1 DEF Post
  <2>5. \A cell \in Cells : Done(cell) \subseteq Cmds
    BY DEF Done, IssuedFor
  <2> QED
    BY <2>2, <2>3, <2>4, <2>5 DEF WriterExplains
<1>2. ASSUME NEW c \in Cmds, Timeout(c) PROVE WriterExplains'
  BY <1>2, ColumnsKept DEF Timeout
<1>3. ASSUME NEW c \in Cmds, Fail(c) PROVE WriterExplains'
  BY <1>3, ColumnsKept DEF Fail
<1>4. ASSUME NEW c \in Cmds, NEW body \in Bodies, Hear(c, body) PROVE WriterExplains'
  BY <1>4, ColumnsKept DEF Hear
<1>5. CASE AppKilled
  BY <1>5, ColumnsKept DEF AppKilled
<1>6. ASSUME NEW s \in wire, Execute(s[1], s[2]) PROVE WriterExplains'
  <2> DEFINE c == s[1]
  <2>1. c \in Cmds /\ phase[c] # "idle" /\ Loose(c) /\ want[c].cell \in Cells
    <3>1. c \in Cmds /\ s[2] \in 1..MaxTries /\ s = <<c, s[2]>> /\ phase[c] # "idle"
      BY DEF SendingsExact
    <3>2. want[c] \in Orders
      BY <3>1
    <3> QED
      BY <3>1, <3>2 DEF Loose, Orders
  <2>2. /\ writer' = [writer EXCEPT ![want[c].cell] = c]
        /\ info' = [info EXCEPT ![want[c].cell] = want[c].value]
        /\ executed' = executed \cup {c}
        /\ UNCHANGED <<want, phase, turn, crossed>>
    BY <1>6 DEF Execute
  <2> HIDE DEF c
  <2> SUFFICES ASSUME NEW cell \in Cells
               PROVE  IF writer'[cell] = NoCmd THEN Done(cell)' = {} /\ info'[cell] = "OFF"
                      ELSE /\ writer'[cell] \in Done(cell)'
                           /\ info'[cell] = want'[writer'[cell]].value
                           /\ \A e \in Done(cell)' : turn'[writer'[cell]] < turn'[e]
                                                       => <<writer'[cell], e>> \in crossed'
    BY DEF WriterExplains
  <2>4. CASE cell = want[c].cell
    <3>1. writer'[cell] = c /\ info'[cell] = want[c].value /\ c # NoCmd
      BY <2>1, <2>2, <2>4, NoCmdAssumption
    <3>2. c \in Done(cell)'
      BY <2>1, <2>2, <2>4 DEF Done, IssuedFor
    <3>3. ASSUME NEW e \in Done(cell)', turn[c] < turn[e] PROVE <<c, e>> \in crossed
      <4>1. e \in IssuedFor(cell) /\ c \in IssuedFor(cell)
        BY <2>1, <2>2, <2>4 DEF Done, IssuedFor
      <4> QED
        BY <2>1, <3>3, <4>1 DEF LooseMetLater
    <3> QED
      BY <2>2, <3>1, <3>2, <3>3
  <2>5. CASE cell # want[c].cell
    <3>1. writer'[cell] = writer[cell] /\ info'[cell] = info[cell]
      BY <2>1, <2>2, <2>5
    <3>2. Done(cell)' = Done(cell)
      BY <2>2, <2>5 DEF Done, IssuedFor
    <3> QED
      BY <2>2, <3>1, <3>2 DEF WriterExplains
  <2> QED
    BY <2>4, <2>5
<1>7. ASSUME NEW s \in wire, DbDown(s[1], s[2]) PROVE WriterExplains'
  BY <1>7, ColumnsKept DEF DbDown
<1>8. ASSUME NEW s \in wire, LoseRequest(s[1], s[2]) PROVE WriterExplains'
  BY <1>8, ColumnsKept DEF LoseRequest
<1>9. CASE UNCHANGED vars
  BY <1>9, ColumnsKept DEF vars
<1> QED
  BY <1>1, <1>2, <1>3, <1>4, <1>5, <1>6, <1>7, <1>8, <1>9 DEF Next

----------------------------------------------------------------------------

\* All of it together, for every number of commands, plants and retries under
\* way: the POSTs of MonitorActivity keep the table as described whatever the
\* network and Volley do.
THEOREM ControlDbIsSound == Spec => []Sound
<1>1. Sound /\ [Next]_vars => Sound'
  BY NextTypeOK, NextSendingsExact, NextLooseMetLater, NextWriterExplains DEF Sound
<1> QED
  BY InitSound, <1>1, PTL DEF Spec

\* For any number of commands: a column that does not show what the latest
\* command executed for it asked shows one that could still run when the user
\* confirmed that later one.
THEOREM RowTheorem == Spec => []RowExplained
<1>1. Sound => RowExplained
  BY DEF Sound, WriterExplains, RowExplained
<1> QED
  BY ControlDbIsSound, <1>1, PTL

\* A patient user's last executed command stays in the column, whatever late or
\* repeated sending of an earlier one arrives.
THEOREM PatientTheorem == Spec => []PatientUserWins
<1>1. ASSUME Sound, NEW cell \in Cells \ CrossedCells, NEW c \in Done(cell)
      PROVE  writer[cell] # NoCmd /\ turn[c] <= turn[writer[cell]]
  <2>1. writer[cell] # NoCmd /\ writer[cell] \in Done(cell)
    BY <1>1 DEF Sound, WriterExplains
  <2>2. c \in Cmds /\ writer[cell] \in Cmds /\ want[c].cell = cell
    BY <2>1 DEF Done, IssuedFor
  <2>3. <<writer[cell], c>> \notin crossed
    <3>1. SUFFICES ASSUME <<writer[cell], c>> \in crossed PROVE FALSE
      OBVIOUS
    <3>2. want[<<writer[cell], c>>[2]].cell \in CrossedCells
      BY <3>1 DEF CrossedCells
    <3> QED
      BY <2>2, <3>2
  <2>4. turn[c] \in Nat /\ turn[writer[cell]] \in Nat
    BY <1>1, <2>2 DEF Sound, TypeOK
  <2> QED
    BY <1>1, <2>1, <2>3, <2>4 DEF Sound, WriterExplains
<1>2. Sound => PatientUserWins
  BY <1>1 DEF PatientUserWins
<1> QED
  BY ControlDbIsSound, <1>2, PTL
=============================================================================
