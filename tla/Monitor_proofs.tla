--------------------------- MODULE Monitor_proofs ---------------------------
(***************************************************************************)
(* What Monitor promises, proved for any number of plants, slots, visits,  *)
(* downloads, dialogs and commands.                                        *)
(*                                                                         *)
(* The invariant says, beside the types,                                   *)
(*   - that a visit has no more results to come than it started downloads  *)
(*     (Counted);                                                          *)
(*   - that the lists on their way are of plants the user owns, never      *)
(*     shorter than one before them, nor than what the spinner has (Lists);*)
(*   - that what the screen and the commands name is the user's (Owned);   *)
(*   - that a position of the spinner has a slot behind it (Backed);       *)
(*   - what the first list of a visit finds and leaves (FirstLoad);        *)
(*   - that a command is confirmed once, and only a confirmed one can be   *)
(*     lost (Once), beside the order itself (RunsAsConfirmed).             *)
(***************************************************************************)
EXTENDS Monitor, FiniteSetTheorems, SequenceTheorems, TLAPS

\* How many places of a sequence hold a member of a set.
Occurrences(s, S) == Cardinality({i \in 1..Len(s) : s[i] \in S})

----------------------------------------------------------------------------
(* The parts of the invariant. *)

Tasks   == {ListTask(v) : v \in 1..visit} \cup {HttpTask(c) : c \in Cmds}
Results == [visit : 1..visit, outcome : Seq(Plants) \cup {Failed}]

\* TypeOK but for the two places that need the rest of the invariant; a screen is
\* that of some visit.
Types ==
    /\ screen \in {"closed", "started", "stopped"}
    /\ visit \in 0..MaxVisits /\ loads \in 0..MaxLoads /\ shownLoads \in Nat
    /\ screen # "closed" => visit # 0
    /\ registered \subseteq Plants
    /\ executor \in Seq(Tasks)
    /\ results \in Seq(Results)
    /\ plantData \in [1..Slots -> Plants \cup {NoPlant}]
    /\ plantList \in Seq(Plants) /\ Len(plantList) <= Slots
    /\ count \in 0..Slots /\ sel \in Nat
    /\ changed \in BOOLEAN /\ due \in BOOLEAN /\ held \in BOOLEAN
    /\ panel \in Plants \cup {NoPlant} /\ modelNumber \in Plants \cup {NoPlant}
    /\ label \in [Pins -> Levels]
    /\ dialogs \in Seq(Asks) /\ Len(dialogs) <= MaxTaps
    /\ want \in [Cmds -> Orders \cup {NoOrder}]
    /\ issued \in Seq(Cmds) /\ ran \in Seq(Cmds) /\ lost \subseteq Cmds

\* The downloads of this visit that wait, run, are posted or are shown.
OfVisit == [visit : {visit}, outcome : Seq(Plants) \cup {Failed}]
Counted ==
    Occurrences(executor, {ListTask(visit)}) + Occurrences(results, OfVisit) + shownLoads <= loads

\* The user's plants only become more, so a list is no shorter than those the
\* server sent before it, which are the ones that came before it on this screen.
Lists ==
    /\ count <= Cardinality(registered)
    /\ \A k \in 1..Len(results) : results[k].outcome # Failed =>
          /\ results[k].outcome \in Seq(registered)
          /\ count <= Len(results[k].outcome)
          /\ Len(results[k].outcome) <= Cardinality(registered)
    /\ \A j, k \in 1..Len(results) :
          j < k /\ results[j].outcome # Failed /\ results[k].outcome # Failed
             => Len(results[j].outcome) <= Len(results[k].outcome)

Owned ==
    /\ modelNumber \in registered \cup {NoPlant}
    /\ panel \in registered \cup {NoPlant}
    /\ \A i \in 1..Slots : plantData[i] \in registered \cup {NoPlant}
    /\ \A c \in Cmds : want[c] # NoOrder => want[c].plant \in registered

\* No list ever shortens the spinner, and a list fills every slot it counts.
Backed ==
    /\ sel <= count
    /\ due => sel # 0
    /\ \A i \in 1..count : plantData[i] # NoPlant

FirstLoad ==
    /\ shownLoads = 0 => count = 0 /\ ~changed
    /\ shownLoads <= 1 /\ changed => sel = 0
    /\ shownLoads <= 1 /\ ~changed /\ ~due /\ sel # 0
          => modelNumber = plantData[sel] /\ panel = plantData[sel]

Once ==
    /\ \A i, j \in 1..Len(issued) : issued[i] = issued[j] => i = j
    /\ \A i \in 1..Len(issued) : want[issued[i]] # NoOrder
    /\ lost \subseteq {issued[i] : i \in 1..Len(issued)}

Inv ==
    Types /\ Counted /\ Lists /\ Owned /\ Backed /\ FirstLoad /\ Once /\ RunsAsConfirmed


----------------------------------------------------------------------------
(* Facts about finite sets and sequences. *)

LEMMA Bounded ==
    ASSUME NEW n \in Nat, NEW S \in SUBSET (1..n)
    PROVE  IsFiniteSet(S) /\ Cardinality(S) \in Nat
  <1>1. IsFiniteSet(1..n)
    BY FS_Interval
  <1>2. IsFiniteSet(S)
    BY <1>1, FS_Subset
  <1> QED
    BY <1>2, FS_CardinalityType

\* The plants of a user can be counted.
LEMMA Owning ==
    ASSUME registered \subseteq Plants
    PROVE  IsFiniteSet(registered) /\ Cardinality(registered) \in Nat
  BY MonitorAssumption, Bounded DEF Plants

LEMMA OccurrencesType ==
    ASSUME NEW T, NEW s \in Seq(T), NEW S
    PROVE  Occurrences(s, S) \in Nat
  <1>1. Len(s) \in Nat /\ {i \in 1..Len(s) : s[i] \in S} \in SUBSET (1..Len(s))
    OBVIOUS
  <1> QED
    BY <1>1, Bounded DEF Occurrences

LEMMA OccurrencesNone ==
    ASSUME NEW T, NEW s \in Seq(T), NEW S, \A i \in 1..Len(s) : s[i] \notin S
    PROVE  Occurrences(s, S) = 0
  <1>1. {i \in 1..Len(s) : s[i] \in S} = {}
    OBVIOUS
  <1> QED
    BY <1>1, FS_EmptySet DEF Occurrences

LEMMA OccurrencesEmpty ==
    ASSUME NEW S
    PROVE  Occurrences(<<>>, S) = 0
  <1>1. {i \in 1..Len(<<>>) : <<>>[i] \in S} = {}
    OBVIOUS
  <1> QED
    BY <1>1, FS_EmptySet DEF Occurrences

LEMMA OccurrencesAppend ==
    ASSUME NEW T, NEW s \in Seq(T), NEW x \in T, NEW S
    PROVE  Occurrences(Append(s, x), S) = Occurrences(s, S) + (IF x \in S THEN 1 ELSE 0)
  <1> DEFINE I == {i \in 1..Len(s) : s[i] \in S}
             J == {i \in 1..Len(Append(s, x)) : Append(s, x)[i] \in S}
  <1>1. IsFiniteSet(I) /\ Cardinality(I) \in Nat
    <2>1. Len(s) \in Nat /\ I \in SUBSET (1..Len(s))
      OBVIOUS
    <2> QED
      BY <2>1, Bounded
  <1>2. Len(s) + 1 \notin I
    OBVIOUS
  <1>3. CASE x \in S
    <2>1. J = I \cup {Len(s) + 1}
      BY <1>3
    <2>2. Cardinality(I \cup {Len(s) + 1}) = Cardinality(I) + 1
      BY <1>1, <1>2, FS_AddElement
    <2> QED
      BY <1>3, <2>1, <2>2 DEF Occurrences
  <1>4. CASE x \notin S
    <2>1. J = I
      BY <1>4
    <2>2. Occurrences(Append(s, x), S) = Occurrences(s, S) /\ Occurrences(s, S) \in Nat
      BY <1>1, <2>1 DEF Occurrences
    <2> QED
      BY <1>4, <2>2
  <1> QED
    BY <1>3, <1>4

LEMMA OccurrencesTail ==
    ASSUME NEW T, NEW s \in Seq(T), s # <<>>, NEW S
    PROVE  Occurrences(s, S) = Occurrences(Tail(s), S) + (IF Head(s) \in S THEN 1 ELSE 0)
  <1> DEFINE I == {i \in 1..Len(s) : s[i] \in S}
             J == {i \in 1..Len(Tail(s)) : Tail(s)[i] \in S}
             K == I \ {1}
             f == [i \in J |-> i + 1]
  <1>0. /\ Len(s) \in Nat \ {0} /\ Len(Tail(s)) = Len(s) - 1
        /\ \A i \in 1..Len(Tail(s)) : Tail(s)[i] = s[i + 1]
    OBVIOUS
  <1>1. IsFiniteSet(J) /\ Cardinality(J) \in Nat
    <2>1. Len(Tail(s)) \in Nat /\ J \in SUBSET (1..Len(Tail(s)))
      BY <1>0
    <2> QED
      BY <2>1, Bounded
  <1>2. f \in Bijection(J, K)
    <2>1. f \in [J -> K]
      BY <1>0
    <2>2. \A a, b \in J : a # b => f[a] # f[b]
      OBVIOUS
    <2>3. \A k \in K : \E a \in J : f[a] = k
      <3> SUFFICES ASSUME NEW k \in K
                   PROVE  k - 1 \in J /\ f[k - 1] = k
        OBVIOUS
      <3>1. k - 1 \in J
        BY <1>0
      <3> QED
        BY <3>1
    <2> QED
      BY <2>1, <2>2, <2>3 DEF Bijection, Injection, Surjection, IsInjective
  <1>3. IsFiniteSet(K) /\ Cardinality(K) = Cardinality(J)
    BY <1>1, <1>2, FS_Bijection DEF ExistsBijection
  <1>4. CASE Head(s) \in S
    <2>1. I = K \cup {1}
      BY <1>0, <1>4
    <2>2. Cardinality(K \cup {1}) = Cardinality(K) + 1
      <3>1. 1 \notin K
        OBVIOUS
      <3> QED
        BY <1>3, <3>1, FS_AddElement
    <2> QED
      BY <1>3, <1>4, <2>1, <2>2 DEF Occurrences
  <1>5. CASE Head(s) \notin S
    <2>1. I = K
      BY <1>0, <1>5
    <2>2. Occurrences(s, S) = Occurrences(Tail(s), S) /\ Occurrences(s, S) \in Nat
      BY <1>1, <1>3, <2>1 DEF Occurrences
    <2> QED
      BY <1>5, <2>2
  <1> QED
    BY <1>4, <1>5

----------------------------------------------------------------------------
(* Facts about the model's operators. *)

\* The executor holds downloads of the visits so far and requests of confirmed commands.
LEMMA TaskKinds ==
    ASSUME NEW t \in Tasks
    PROVE  /\ IsHttp(t) => t.cmd \in Cmds /\ t = HttpTask(t.cmd)
           /\ ~IsHttp(t) => t.visit \in 1..visit /\ t = ListTask(t.visit) /\ t.cmd = NoCmd
  BY DEF Tasks, IsHttp, ListTask, HttpTask

\* What the server lists: the user's plants, all of them, or nothing.
LEMMA Listed ==
    ASSUME registered \subseteq Plants,
           NEW outcome \in Listings(registered) \cup {Failed}
    PROVE  /\ outcome \in Seq(Plants) \cup {Failed}
           /\ outcome # Failed => /\ outcome \in Seq(registered)
                                  /\ Len(outcome) = Cardinality(registered)
  <1>1. Cardinality(registered) \in Nat
    BY Owning
  <1>2. ASSUME outcome \in Listings(registered)
        PROVE  outcome \in Seq(registered) /\ Len(outcome) = Cardinality(registered)
    <2>1. outcome \in [1..Cardinality(registered) -> registered]
      BY <1>2 DEF Listings
    <2> QED
      BY <1>1, <2>1
  <1>3. Seq(registered) \subseteq Seq(Plants)
    OBVIOUS
  <1> QED
    BY <1>2, <1>3

LEMMA Front ==
    ASSUME NEW S, NEW s \in Seq(S), NEW n \in Nat, n <= Len(s)
    PROVE  SubSeq(s, 1, n) \in Seq(S) /\ Len(SubSeq(s, 1, n)) = n
  OBVIOUS

\* What the loop over the rows leaves in the slots, the items and modelNumber.
LEMMA Filled ==
    ASSUME NEW S, NEW list \in Seq(S), Fill(list)
    PROVE  \E n \in Nat :
              /\ n = (IF Len(list) < Slots THEN Len(list) ELSE Slots)
              /\ n <= Slots /\ n <= Len(list)
              /\ plantData' = [i \in 1..Slots |-> IF i <= n THEN list[i] ELSE plantData[i]]
              /\ \A i \in 1..n : list[i] \in S
              /\ plantList' \in Seq(S) /\ Len(plantList') = n
              /\ modelNumber' = IF n = 0 THEN modelNumber ELSE list[n]
  <1> DEFINE n == IF Len(list) < Slots THEN Len(list) ELSE Slots
  <1>1. n \in Nat /\ n <= Slots /\ n <= Len(list) /\ Len(list) \in Nat
    BY MonitorAssumption
  <1>2. \A i \in 1..n : list[i] \in S
    BY <1>1
  <1>3. /\ plantData' = [i \in 1..Slots |-> IF i <= n THEN list[i] ELSE plantData[i]]
        /\ plantList' = SubSeq(list, 1, n)
        /\ modelNumber' = IF n = 0 THEN modelNumber ELSE list[n]
    BY DEF Fill
  <1>4. SubSeq(list, 1, n) \in Seq(S) /\ Len(SubSeq(list, 1, n)) = n
    BY <1>1, Front
  <1> QED
    BY <1>1, <1>2, <1>3, <1>4

\* A posted result is of some visit and holds a list or null.
LEMMA Posted ==
    ASSUME Types, results # <<>>
    PROVE  /\ Head(results) \in Results
           /\ Head(results).visit \in 1..visit
           /\ Head(results).outcome \in Seq(Plants) \cup {Failed}
           /\ Tail(results) \in Seq(Results)
           /\ Len(results) \in Nat \ {0} /\ Len(Tail(results)) = Len(results) - 1
           /\ \A k \in 1..Len(Tail(results)) : Tail(results)[k] = results[k + 1]
           /\ Head(results) = results[1]
  <1>1. results \in Seq(Results)
    BY DEF Types
  <1>2. /\ Head(results) \in Results
        /\ Tail(results) \in Seq(Results)
        /\ Len(results) \in Nat \ {0} /\ Len(Tail(results)) = Len(results) - 1
        /\ \A k \in 1..Len(Tail(results)) : Tail(results)[k] = results[k + 1]
        /\ Head(results) = results[1]
    BY <1>1
  <1> QED
    BY <1>2 DEF Results

\* The topmost dialog, and what is left when it closes.
LEMMA Closing ==
    ASSUME Types, dialogs # <<>>
    PROVE  /\ Top \in Asks
           /\ SubSeq(dialogs, 1, Len(dialogs) - 1) \in Seq(Asks)
           /\ Len(SubSeq(dialogs, 1, Len(dialogs) - 1)) <= MaxTaps
  <1>1. dialogs \in Seq(Asks) /\ Len(dialogs) <= MaxTaps
    BY DEF Types
  <1>2. Len(dialogs) \in Nat \ {0}
    BY <1>1
  <1>3. Len(dialogs) - 1 \in Nat /\ Len(dialogs) \in 1..Len(dialogs)
    BY <1>2
  <1>4. Top \in Asks
    BY <1>1, <1>3 DEF Top
  <1>5. Len(dialogs) - 1 <= Len(dialogs)
    BY <1>2
  <1>6. /\ SubSeq(dialogs, 1, Len(dialogs) - 1) \in Seq(Asks)
        /\ Len(SubSeq(dialogs, 1, Len(dialogs) - 1)) = Len(dialogs) - 1
    BY <1>1, <1>3, <1>5, Front
  <1> QED
    BY <1>1, <1>2, <1>4, <1>6, MonitorAssumption

----------------------------------------------------------------------------
(* The types. *)

LEMMA TypesInit == Init => Types
  <1> SUFFICES ASSUME Init PROVE Types
    OBVIOUS
  <1>1. /\ plantData \in [1..Slots -> Plants \cup {NoPlant}]
        /\ label \in [Pins -> Levels]
        /\ want \in [Cmds -> Orders \cup {NoOrder}]
    BY DEF Init, NoSlots, AllLow, Levels
  <1>2. executor \in Seq(Tasks) /\ results \in Seq(Results)
    BY DEF Init
  <1>3. /\ plantList \in Seq(Plants) /\ Len(plantList) <= Slots
        /\ dialogs \in Seq(Asks) /\ Len(dialogs) <= MaxTaps
        /\ issued \in Seq(Cmds) /\ ran \in Seq(Cmds)
    BY MonitorAssumption DEF Init
  <1>4. visit \in 0..MaxVisits /\ loads \in 0..MaxLoads /\ shownLoads \in Nat
        /\ count \in 0..Slots /\ sel \in Nat
    BY MonitorAssumption DEF Init
  <1>5. /\ screen = "closed" /\ registered \subseteq Plants /\ lost \subseteq Cmds
        /\ changed \in BOOLEAN /\ due \in BOOLEAN /\ held \in BOOLEAN
        /\ panel \in Plants \cup {NoPlant} /\ modelNumber \in Plants \cup {NoPlant}
    BY DEF Init
  <1> QED
    BY <1>1, <1>2, <1>3, <1>4, <1>5 DEF Types

LEMMA TypesStep == Types /\ Backed /\ [Next]_vars => Types'
  <1> SUFFICES ASSUME Types, Backed, [Next]_vars
               PROVE  Types'
    OBVIOUS
  <1>1. CASE Open
    <2>1. /\ visit \in Nat /\ visit' = visit + 1 /\ visit' # 0
          /\ visit' \in 0..MaxVisits /\ visit' \in 1..visit'
      BY <1>1, MonitorAssumption DEF Open, Types
    <2>2. Tasks \subseteq Tasks' /\ Results \subseteq Results' /\ ListTask(visit') \in Tasks'
      BY <2>1 DEF Tasks, Results
    <2>3. executor \in Seq(Tasks') /\ results \in Seq(Results')
      BY <2>2 DEF Types
    <2>4. executor' \in Seq(Tasks') /\ results' \in Seq(Results')
      BY <1>1, <2>2, <2>3 DEF Open
    <2>5. plantData' \in [1..Slots -> Plants \cup {NoPlant}] /\ label' \in [Pins -> Levels]
      BY <1>1 DEF Open, NoSlots, AllLow, Levels
    <2>6. /\ plantList' \in Seq(Plants) /\ Len(plantList') <= Slots
          /\ dialogs' \in Seq(Asks) /\ Len(dialogs') <= MaxTaps
      BY <1>1, MonitorAssumption DEF Open
    <2>7. /\ screen' = "started" /\ loads' = 1 /\ shownLoads' = 0 /\ count' = 0 /\ sel' = 0
          /\ changed' = FALSE /\ due' = FALSE /\ held' = FALSE
          /\ panel' = NoPlant /\ modelNumber' = NoPlant
          /\ UNCHANGED <<registered, want, issued, ran, lost>>
      BY <1>1 DEF Open, orderVars
    <2>8. loads' \in 0..MaxLoads /\ count' \in 0..Slots
      BY <2>7, MonitorAssumption
    <2> QED
      BY <2>1, <2>4, <2>5, <2>6, <2>7, <2>8 DEF Types
  <1>2. CASE Stop
    <2>1. dialogs' \in Seq(Asks) /\ Len(dialogs') <= MaxTaps
      <3>1. CASE held /\ dialogs # <<>>
        BY <1>2, <3>1, Closing DEF Stop
      <3>2. CASE ~held
        BY <1>2, <3>2 DEF Stop, Types
      <3>3. CASE dialogs = <<>>
        <4>1. SubSeq(dialogs, 1, Len(dialogs) - 1) = <<>>
          BY <3>3
        <4> QED
          BY <1>2, <3>3, <4>1, MonitorAssumption DEF Stop
      <3> QED
        BY <3>1, <3>2, <3>3
    <2> QED
      BY <1>2, <2>1 DEF Stop, Types, Tasks, Results, spinnerVars, orderVars
  <1>3. CASE Restart
    <2>1. visit \in 1..visit
      BY <1>3 DEF Restart, Types
    <2>2. ListTask(visit) \in Tasks
      BY <2>1 DEF Tasks
    <2>3. executor' \in Seq(Tasks)
      BY <1>3, <2>2 DEF Restart, Types
    <2>4. loads' \in 0..MaxLoads
      BY <1>3, MonitorAssumption DEF Restart, Types
    <2>5. Tasks' = Tasks /\ Results' = Results /\ visit # 0 /\ visit' = visit
      BY <1>3 DEF Restart, Types, Tasks, Results
    <2> QED
      BY <1>3, <2>3, <2>4, <2>5 DEF Restart, Types, spinnerVars, panelVars, orderVars
  <1>4. CASE Leave
    <2>1. dialogs' \in Seq(Asks) /\ Len(dialogs') <= MaxTaps
      BY <1>4, MonitorAssumption DEF Leave
    <2> QED
      BY <1>4, <2>1 DEF Leave, Types, Tasks, Results, spinnerVars, orderVars
  <1>5. CASE Die
    <2>1. \A i \in 1..Len(executor) : IsHttp(executor[i]) => executor[i].cmd \in Cmds
      <3> SUFFICES ASSUME NEW i \in 1..Len(executor), IsHttp(executor[i])
                   PROVE  executor[i].cmd \in Cmds
        OBVIOUS
      <3>1. executor[i] \in Tasks
        BY DEF Types
      <3> QED
        BY <3>1, TaskKinds
    <2>2. lost' \subseteq Cmds
      BY <1>5, <2>1 DEF Die, Types
    <2>3. executor' \in Seq(Tasks) /\ results' \in Seq(Results) /\ dialogs' \in Seq(Asks)
          /\ Len(dialogs') <= MaxTaps
      BY <1>5, MonitorAssumption DEF Die
    <2> QED
      BY <1>5, <2>2, <2>3 DEF Die, Types, Tasks, Results, spinnerVars
  <1>6. CASE \E p \in Plants : Register(p)
    BY <1>6 DEF Register, Types, Tasks, Results, spinnerVars, panelVars, orderVars
  <1>7. CASE \E outcome \in Listings(registered) \cup {Failed} : Download(outcome)
    <2> PICK outcome \in Listings(registered) \cup {Failed} : Download(outcome)
      BY <1>7
    <2>1. outcome \in Seq(Plants) \cup {Failed}
      BY Listed DEF Types
    <2>2. executor \in Seq(Tasks) /\ executor # <<>> /\ ~IsHttp(Head(executor))
      BY DEF Types, Download
    <2>3. Head(executor) \in Tasks /\ Tail(executor) \in Seq(Tasks)
      BY <2>2
    <2>4. Head(executor).visit \in 1..visit
      BY <2>2, <2>3, TaskKinds
    <2>5. results' \in Seq(Results)
      <3>1. [visit |-> Head(executor).visit, outcome |-> outcome] \in Results
        BY <2>1, <2>4 DEF Results
      <3> QED
        BY <3>1 DEF Download, Types
    <2> QED
      BY <2>3, <2>5
         DEF Download, Types, Tasks, Results, spinnerVars, panelVars, orderVars
  <1>8. CASE DropResult
    <2>1. results' \in Seq(Results)
      BY <1>8, Posted DEF DropResult
    <2> QED
      BY <1>8, <2>1 DEF DropResult, Types, Tasks, Results, spinnerVars, panelVars, orderVars
  <1>9. CASE ApplyResult
    <2> DEFINE list == Head(results).outcome
    <2>1. results' \in Seq(Results) /\ list \in Seq(Plants) \cup {Failed}
      BY <1>9, Posted DEF ApplyResult
    <2>2. shownLoads' \in Nat /\ screen' = screen /\ visit' = visit /\ loads' = loads
          /\ registered' = registered /\ executor' = executor /\ sel' = sel /\ due' = due
          /\ panel' = panel /\ UNCHANGED <<panelVars, orderVars>>
      BY <1>9 DEF ApplyResult, Types
    <2>3. /\ plantData' \in [1..Slots -> Plants \cup {NoPlant}]
          /\ plantList' \in Seq(Plants) /\ Len(plantList') <= Slots
          /\ modelNumber' \in Plants \cup {NoPlant}
          /\ count' \in 0..Slots /\ changed' \in BOOLEAN
      <3>1. CASE list = Failed
        BY <1>9, <3>1, MonitorAssumption DEF ApplyResult, Types
      <3>2. CASE list # Failed
        <4>1. list \in Seq(Plants) /\ Fill(list)
          BY <1>9, <2>1, <3>2 DEF ApplyResult
        <4>2. PICK n \in Nat :
              /\ n = (IF Len(list) < Slots THEN Len(list) ELSE Slots)
              /\ n <= Slots /\ n <= Len(list)
              /\ plantData' = [i \in 1..Slots |-> IF i <= n THEN list[i] ELSE plantData[i]]
              /\ \A i \in 1..n : list[i] \in Plants
              /\ plantList' \in Seq(Plants) /\ Len(plantList') = n
              /\ modelNumber' = IF n = 0 THEN modelNumber ELSE list[n]
          <5> HIDE DEF list
          <5> QED
            BY <4>1, Filled
        <4>3. count' \in 0..Slots /\ changed' \in BOOLEAN
          <5>1. CASE Len(list) <= Slots
            <6>1. Len(list) \in Nat /\ Slots \in Nat
              BY <4>1, MonitorAssumption
            <6>2. count' = Len(list) /\ changed' = TRUE
              BY <1>9, <3>2, <5>1 DEF ApplyResult
            <6> QED
              BY <5>1, <6>1, <6>2
          <5>2. CASE ~(Len(list) <= Slots)
            BY <1>9, <3>2, <5>2 DEF ApplyResult, Types
          <5> QED
            BY <5>1, <5>2
        <4>4. modelNumber' \in Plants \cup {NoPlant}
          BY <4>2 DEF Types
        <4>5. plantData' \in [1..Slots -> Plants \cup {NoPlant}]
          <5>1. plantData \in [1..Slots -> Plants \cup {NoPlant}]
            BY DEF Types
          <5> HIDE DEF list
          <5>2. \A i \in 1..Slots :
                   (IF i <= n THEN list[i] ELSE plantData[i]) \in Plants \cup {NoPlant}
            BY <4>2, <5>1
          <5> QED
            BY <4>2, <5>2
        <4> QED
          BY <4>2, <4>3, <4>4, <4>5
      <3> QED
        BY <3>1, <3>2
    <2> QED
      BY <2>1, <2>2, <2>3 DEF Types, Tasks, Results, panelVars, orderVars
  <1>10. CASE Layout
    <2>1. sel' \in Nat
      BY <1>10 DEF Layout, Types
    <2>2. due' \in BOOLEAN
      <3>1. due' = (due \/ (sel' # sel /\ sel' # 0))
        BY <1>10 DEF Layout
      <3> QED
        BY <3>1
    <2>3. changed' \in BOOLEAN
      BY <1>10 DEF Layout
    <2> QED
      BY <1>10, <2>1, <2>2, <2>3 DEF Layout, Types, Tasks, Results, panelVars, orderVars
  <1>11. CASE ItemSelected
    <2>1. plantData[sel] \in Plants \cup {NoPlant}
      <3>1. sel \in 1..Slots
        <4>1. sel \in Nat /\ count \in 0..Slots /\ sel <= count /\ sel # 0
          BY <1>11 DEF ItemSelected, Types, Backed
        <4> QED
          BY <4>1, MonitorAssumption
      <3> QED
        BY <3>1 DEF Types
    <2> QED
      BY <1>11, <2>1 DEF ItemSelected, Types, Tasks, Results, panelVars, orderVars
  <1>12. CASE \E i \in 1..Slots : Pick(i)
    BY <1>12 DEF Pick, Types, Tasks, Results, panelVars, orderVars
  <1>13. CASE \E p \in Pins : Press(p)
    <2> PICK p \in Pins : Press(p)
      BY <1>13
    <2>1. [pin |-> p, level |-> Opposite(label[p])] \in Asks
      BY DEF Asks, Opposite, Levels
    <2>2. dialogs' \in Seq(Asks) /\ Len(dialogs') <= MaxTaps
      BY <2>1, MonitorAssumption DEF Press, Types
    <2> QED
      BY <2>2 DEF Press, Types, Tasks, Results, spinnerVars, orderVars
  <1>14. CASE Cancel
    <2>1. dialogs' \in Seq(Asks) /\ Len(dialogs') <= MaxTaps
      BY <1>14, Closing DEF Cancel, CloseTop
    <2> QED
      BY <1>14, <2>1 DEF Cancel, CloseTop, Types, Tasks, Results, spinnerVars, orderVars
  <1>15. CASE \E c \in Cmds : Confirm(c)
    <2> PICK c \in Cmds : Confirm(c)
      BY <1>15
    <2>1. Top \in Asks /\ dialogs' \in Seq(Asks) /\ Len(dialogs') <= MaxTaps
      BY Closing DEF Confirm, CloseTop
    <2>2. [plant |-> modelNumber, pin |-> Top.pin, level |-> Top.level] \in Orders
      BY <2>1 DEF Confirm, Types, Orders, Asks
    <2>3. want' \in [Cmds -> Orders \cup {NoOrder}]
      BY <2>2 DEF Confirm, Types
    <2>4. label' \in [Pins -> Levels]
      BY <2>1 DEF Confirm, Types, Asks
    <2>5. executor' \in Seq(Tasks)
      BY DEF Confirm, Types, Tasks
    <2>6. issued' \in Seq(Cmds)
      BY DEF Confirm, Types
    <2> QED
      BY <2>1, <2>3, <2>4, <2>5, <2>6
         DEF Confirm, CloseTop, Types, Tasks, Results, spinnerVars
  <1>16. CASE \E c \in Cmds : EndHttp(c)
    <2> PICK c \in Cmds : EndHttp(c)
      BY <1>16
    <2>1. executor' \in Seq(Tasks) /\ ran' \in Seq(Cmds)
      BY DEF EndHttp, Types
    <2> QED
      BY <2>1 DEF EndHttp, Types, Tasks, Results, spinnerVars, panelVars
  <1>17. CASE UNCHANGED vars
    BY <1>17 DEF vars, Types, Tasks, Results, spinnerVars, panelVars, orderVars
  <1> QED
    BY <1>1, <1>2, <1>3, <1>4, <1>5, <1>6, <1>7, <1>8, <1>9, <1>10, <1>11, <1>12, <1>13,
       <1>14, <1>15, <1>16, <1>17 DEF Next, Killed, ConfirmBlind

----------------------------------------------------------------------------
(* What is still to come for this visit. *)

LEMMA CountedInit == Init => Counted
  <1> SUFFICES ASSUME Init PROVE Counted
    OBVIOUS
  <1>1. executor = <<>> /\ results = <<>>
    BY DEF Init
  <1>2. /\ Occurrences(executor, {ListTask(visit)}) = 0
        /\ Occurrences(results, OfVisit) = 0
    BY <1>1, OccurrencesEmpty
  <1> QED
    BY <1>2 DEF Init, Counted

\* A request to the board is no download.
LEMMA NoDownload == \A c, v : HttpTask(c) # ListTask(v)
  <1> SUFFICES ASSUME NEW c, NEW v PROVE HttpTask(c) # ListTask(v)
    OBVIOUS
  <1>1. HttpTask(c).kind = "http" /\ ListTask(v).kind = "list"
    BY DEF HttpTask, ListTask
  <1> QED
    BY <1>1

LEMMA CountedStep == Types /\ Counted /\ [Next]_vars => Counted'
  <1> SUFFICES ASSUME Types, Counted, [Next]_vars
               PROVE  Counted'
    OBVIOUS
  <1> DEFINE Waiting == Occurrences(executor, {ListTask(visit)})
             Pending == Occurrences(results, OfVisit)
  <1>0. /\ executor \in Seq(Tasks) /\ results \in Seq(Results)
        /\ visit \in Nat /\ loads \in Nat /\ shownLoads \in Nat
        /\ Waiting \in Nat /\ Pending \in Nat
        /\ Waiting + Pending + shownLoads <= loads
    BY MonitorAssumption, OccurrencesType DEF Types, Counted
  <1>1. CASE Open
    <2>1. visit' = visit + 1 /\ executor' = Append(executor, ListTask(visit'))
          /\ results' = results /\ loads' = 1 /\ shownLoads' = 0
      BY <1>1 DEF Open
    <2>2. Tasks \subseteq Tasks' /\ ListTask(visit') \in Tasks'
      <3>1. 1..visit \subseteq 1..visit' /\ visit' \in 1..visit'
        BY <1>0, <2>1
      <3> QED
        BY <3>1 DEF Tasks
    <2>3. executor \in Seq(Tasks')
      BY <1>0, <2>2
    <2>4. \A i \in 1..Len(executor) : executor[i] \notin {ListTask(visit')}
      <3> SUFFICES ASSUME NEW i \in 1..Len(executor), executor[i] = ListTask(visit')
                   PROVE  FALSE
        OBVIOUS
      <3>1. executor[i] \in Tasks
        BY <1>0
      <3>2. ~IsHttp(executor[i]) /\ executor[i].visit = visit'
        BY DEF IsHttp, ListTask
      <3>3. executor[i].visit \in 1..visit
        BY <3>1, <3>2, TaskKinds
      <3> QED
        BY <1>0, <2>1, <3>2, <3>3
    <2>5. Occurrences(executor, {ListTask(visit')}) = 0
      BY <2>3, <2>4, OccurrencesNone
    <2>6. Occurrences(executor', {ListTask(visit')}) = 1
      <3>1. Occurrences(Append(executor, ListTask(visit')), {ListTask(visit')})
               = Occurrences(executor, {ListTask(visit')}) + 1
        BY <2>2, <2>3, OccurrencesAppend
      <3> QED
        BY <2>1, <2>5, <3>1
    <2>7. Occurrences(results, OfVisit') = 0
      <3>1. \A i \in 1..Len(results) : results[i] \notin OfVisit'
        <4> SUFFICES ASSUME NEW i \in 1..Len(results), results[i] \in OfVisit'
                     PROVE  FALSE
          OBVIOUS
        <4>1. results[i] \in Results
          BY <1>0
        <4>2. results[i].visit \in 1..visit /\ results[i].visit = visit'
          BY <4>1 DEF Results, OfVisit
        <4> QED
          BY <1>0, <2>1, <4>2
      <3> QED
        BY <1>0, <3>1, OccurrencesNone
    <2> QED
      BY <2>1, <2>6, <2>7 DEF Counted
  <1>2. CASE Restart
    <2>1. visit \in 1..visit
      BY <1>2 DEF Restart, Types
    <2>2. ListTask(visit) \in Tasks
      BY <2>1 DEF Tasks
    <2>3. Occurrences(Append(executor, ListTask(visit)), {ListTask(visit)}) = Waiting + 1
      BY <1>0, <2>2, OccurrencesAppend
    <2>4. executor' = Append(executor, ListTask(visit)) /\ loads' = loads + 1
          /\ UNCHANGED <<visit, shownLoads, results>>
      BY <1>2 DEF Restart
    <2>5. Occurrences(executor', {ListTask(visit')}) = Waiting + 1
          /\ Occurrences(results', OfVisit') = Pending
      BY <2>3, <2>4 DEF OfVisit
    <2> QED
      BY <1>0, <2>4, <2>5 DEF Counted
  <1>3. CASE Die
    <2>1. executor' = <<>> /\ results' = <<>> /\ UNCHANGED <<visit, loads, shownLoads>>
      BY <1>3 DEF Die
    <2>2. Occurrences(executor', {ListTask(visit')}) = 0 /\ Occurrences(results', OfVisit') = 0
      BY <2>1, OccurrencesEmpty
    <2> QED
      BY <1>0, <2>1, <2>2 DEF Counted
  <1>4. CASE \E outcome \in Listings(registered) \cup {Failed} : Download(outcome)
    <2> PICK outcome \in Listings(registered) \cup {Failed} : Download(outcome)
      BY <1>4
    <2> DEFINE r == [visit |-> Head(executor).visit, outcome |-> outcome]
    <2>1. /\ executor # <<>> /\ ~IsHttp(Head(executor)) /\ executor' = Tail(executor)
          /\ results' = Append(results, r)
          /\ UNCHANGED <<visit, loads, shownLoads>>
      BY DEF Download
    <2>2. Head(executor) \in Tasks
      BY <1>0, <2>1
    <2>3. Head(executor).visit \in 1..visit /\ Head(executor) = ListTask(Head(executor).visit)
      BY <2>1, <2>2, TaskKinds
    <2>4. outcome \in Seq(Plants) \cup {Failed}
      BY Listed DEF Types
    <2>5. r \in Results /\ (r \in OfVisit <=> Head(executor).visit = visit)
      BY <2>3, <2>4 DEF Results, OfVisit
    <2>6. Head(executor) \in {ListTask(visit)} <=> Head(executor).visit = visit
      BY <2>3 DEF ListTask
    <2>7. Waiting = Occurrences(Tail(executor), {ListTask(visit)})
                       + (IF Head(executor).visit = visit THEN 1 ELSE 0)
      BY <1>0, <2>1, <2>6, OccurrencesTail
    <2>8. Occurrences(Append(results, r), OfVisit)
             = Pending + (IF Head(executor).visit = visit THEN 1 ELSE 0)
      <3> HIDE DEF r
      <3> QED
        BY <1>0, <2>5, OccurrencesAppend
    <2>9. Occurrences(Tail(executor), {ListTask(visit)}) \in Nat
      <3>1. Tail(executor) \in Seq(Tasks)
        BY <1>0, <2>1
      <3> QED
        BY <3>1, OccurrencesType
    <2>10. OfVisit' = OfVisit
      BY <2>1 DEF OfVisit
    <2>11. /\ Occurrences(executor', {ListTask(visit')}) = Occurrences(Tail(executor), {ListTask(visit)})
           /\ Occurrences(results', OfVisit') = Occurrences(Append(results, r), OfVisit)
      BY <2>1, <2>10
    <2> HIDE DEF Waiting, Pending, r
    <2>12. Occurrences(executor', {ListTask(visit')}) + Occurrences(results', OfVisit')
              = Waiting + Pending
      <3>1. CASE Head(executor).visit = visit
        BY <1>0, <2>7, <2>8, <2>9, <2>11, <3>1
      <3>2. CASE Head(executor).visit # visit
        BY <1>0, <2>7, <2>8, <2>9, <2>11, <3>2
      <3> QED
        BY <3>1, <3>2
    <2> QED
      BY <1>0, <2>1, <2>12 DEF Counted
  <1>5. CASE DropResult \/ ApplyResult
    <2>1. results # <<>> /\ results' = Tail(results) /\ UNCHANGED <<visit, loads, executor>>
      BY <1>5 DEF DropResult, ApplyResult
    <2>2. Head(results) \in Results
      BY <1>0, <2>1
    <2>3. Head(results) \in OfVisit <=> Head(results).visit = visit
      BY <2>2 DEF Results, OfVisit
    <2>4. Pending = Occurrences(Tail(results), OfVisit)
                       + (IF Head(results).visit = visit THEN 1 ELSE 0)
      BY <1>0, <2>1, <2>3, OccurrencesTail
    <2>5. Occurrences(Tail(results), OfVisit) \in Nat
      <3>1. Tail(results) \in Seq(Results)
        BY <1>0, <2>1
      <3> QED
        BY <3>1, OccurrencesType
    <2>6. shownLoads' = shownLoads \/ (Head(results).visit = visit /\ shownLoads' = shownLoads + 1)
      BY <1>5 DEF DropResult, ApplyResult
    <2>7. /\ Occurrences(executor', {ListTask(visit')}) = Waiting
          /\ Occurrences(results', OfVisit') = Occurrences(Tail(results), OfVisit)
      BY <2>1 DEF OfVisit
    <2> HIDE DEF Waiting, Pending
    <2>8. Occurrences(results', OfVisit') + shownLoads' <= Pending + shownLoads
          /\ Occurrences(results', OfVisit') \in Nat /\ shownLoads' \in Nat
      <3>1. CASE shownLoads' = shownLoads
        BY <1>0, <2>4, <2>5, <2>7, <3>1
      <3>2. CASE Head(results).visit = visit /\ shownLoads' = shownLoads + 1
        BY <1>0, <2>4, <2>5, <2>7, <3>2
      <3> QED
        BY <2>6, <3>1, <3>2
    <2> QED
      BY <1>0, <2>1, <2>7, <2>8 DEF Counted
  <1>6. CASE \E c \in Cmds : Confirm(c)
    <2> PICK c \in Cmds : Confirm(c)
      BY <1>6
    <2>1. HttpTask(c) \in Tasks /\ HttpTask(c) \notin {ListTask(visit)}
      BY NoDownload DEF Tasks
    <2>2. Occurrences(Append(executor, HttpTask(c)), {ListTask(visit)}) = Waiting
      BY <1>0, <2>1, OccurrencesAppend
    <2>3. executor' = Append(executor, HttpTask(c)) /\ UNCHANGED <<visit, loads, shownLoads, results>>
      BY DEF Confirm
    <2> QED
      BY <1>0, <2>2, <2>3 DEF Counted, OfVisit
  <1>7. CASE \E c \in Cmds : EndHttp(c)
    <2> PICK c \in Cmds : EndHttp(c)
      BY <1>7
    <2>1. executor # <<>> /\ Head(executor) = HttpTask(c) /\ executor' = Tail(executor)
          /\ UNCHANGED <<visit, loads, shownLoads, results>>
      BY DEF EndHttp
    <2>2. Head(executor) \notin {ListTask(visit)}
      BY <2>1, NoDownload
    <2>3. Waiting = Occurrences(Tail(executor), {ListTask(visit)})
      <3>1. Waiting = Occurrences(Tail(executor), {ListTask(visit)}) + 0
        BY <1>0, <2>1, <2>2, OccurrencesTail
      <3>2. Occurrences(Tail(executor), {ListTask(visit)}) \in Nat
        <4>1. Tail(executor) \in Seq(Tasks)
          BY <1>0, <2>1
        <4> QED
          BY <4>1, OccurrencesType
      <3> HIDE DEF Waiting
      <3> QED
        BY <3>1, <3>2
    <2> QED
      BY <1>0, <2>1, <2>3 DEF Counted, OfVisit
  <1>8. ASSUME UNCHANGED <<visit, loads, shownLoads, executor, results>>
        PROVE  Counted'
    BY <1>8 DEF Counted, OfVisit
  <1>9. CASE \/ Stop \/ Leave \/ Layout \/ ItemSelected \/ Cancel \/ UNCHANGED vars
             \/ \E p \in Plants : Register(p)
             \/ \E i \in 1..Slots : Pick(i)
             \/ \E p \in Pins : Press(p)
    BY <1>8, <1>9 DEF Stop, Leave, Layout, ItemSelected, Cancel, vars, Register, Pick, Press
  <1> QED
    BY <1>1, <1>2, <1>3, <1>4, <1>5, <1>6, <1>7, <1>9 DEF Next, Killed, ConfirmBlind

----------------------------------------------------------------------------
(* The lists on their way. *)

LEMMA ListsInit == Init => Lists
  <1> SUFFICES ASSUME Init PROVE Lists
    OBVIOUS
  <1>1. registered = {} /\ count = 0 /\ results = <<>>
    BY DEF Init
  <1>2. Cardinality(registered) = 0
    BY <1>1, FS_EmptySet
  <1> QED
    BY <1>1, <1>2 DEF Lists

LEMMA ListsStep == Types /\ Lists /\ [Next]_vars => Lists'
  <1> SUFFICES ASSUME Types, Lists, [Next]_vars
               PROVE  Lists'
    OBVIOUS
  <1>0. /\ results \in Seq(Results) /\ registered \subseteq Plants
        /\ count \in Nat /\ Cardinality(registered) \in Nat
        /\ \A k \in 1..Len(results) :
              results[k].outcome # Failed => Len(results[k].outcome) \in Nat
    <2>1. \A k \in 1..Len(results) : results[k].outcome \in Seq(Plants) \cup {Failed}
      <3>1. \A k \in 1..Len(results) : results[k] \in Results
        BY DEF Types
      <3> QED
        BY <3>1 DEF Results
    <2> QED
      BY <2>1, MonitorAssumption, Owning DEF Types
  <1>1. CASE Open
    BY <1>0, <1>1 DEF Open, Lists
  <1>2. CASE Die
    BY <1>2 DEF Die, Lists, spinnerVars
  <1>3. CASE \E p \in Plants : Register(p)
    <2>1. registered' \subseteq Plants /\ registered \subseteq registered'
          /\ results' = results /\ count' = count
      BY <1>3 DEF Register, Types, spinnerVars
    <2>2. IsFiniteSet(registered') /\ Cardinality(registered') \in Nat
      BY <2>1, MonitorAssumption, Bounded DEF Plants
    <2>3. Cardinality(registered) <= Cardinality(registered')
      BY <2>1, <2>2, FS_Subset
    <2>4. Seq(registered) \subseteq Seq(registered')
      BY <2>1
    <2> QED
      BY <1>0, <2>1, <2>2, <2>3, <2>4 DEF Lists
  <1>4. CASE \E outcome \in Listings(registered) \cup {Failed} : Download(outcome)
    <2> PICK outcome \in Listings(registered) \cup {Failed} : Download(outcome)
      BY <1>4
    <2> DEFINE r == [visit |-> Head(executor).visit, outcome |-> outcome]
               n == Len(results)
    <2>1. results' = Append(results, r) /\ registered' = registered /\ count' = count
      BY DEF Download, spinnerVars
    <2>2. r.outcome # Failed => /\ r.outcome \in Seq(registered)
                                /\ Len(r.outcome) = Cardinality(registered)
      BY <1>0, Listed
    <2>3. /\ n \in Nat /\ Len(results') = n + 1 /\ results'[n + 1] = r
          /\ \A k \in 1..n : results'[k] = results[k]
      <3> HIDE DEF r
      <3> QED
        BY <1>0, <2>1
    <2> HIDE DEF r, n
    <2>4. \A k \in 1..n : results[k].outcome # Failed =>
             /\ results[k].outcome \in Seq(registered)
             /\ count <= Len(results[k].outcome)
             /\ Len(results[k].outcome) <= Cardinality(registered)
      BY DEF Lists, n
    <2>5. \A k \in 1..Len(results') : results'[k].outcome # Failed =>
             /\ results'[k].outcome \in Seq(registered)
             /\ count <= Len(results'[k].outcome)
             /\ Len(results'[k].outcome) <= Cardinality(registered)
      <3> TAKE k \in 1..Len(results')
      <3>1. CASE k \in 1..n
        BY <2>3, <2>4, <3>1
      <3>2. CASE k = n + 1
        BY <1>0, <2>2, <2>3, <3>2 DEF Lists
      <3> QED
        BY <2>3, <3>1, <3>2
    <2>6. \A j, k \in 1..Len(results') :
             j < k /\ results'[j].outcome # Failed /\ results'[k].outcome # Failed
                => Len(results'[j].outcome) <= Len(results'[k].outcome)
      <3> SUFFICES ASSUME NEW j \in 1..Len(results'), NEW k \in 1..Len(results'), j < k,
                          results'[j].outcome # Failed, results'[k].outcome # Failed
                   PROVE  Len(results'[j].outcome) <= Len(results'[k].outcome)
        OBVIOUS
      <3>1. j \in 1..n
        BY <2>3
      <3>2. CASE k \in 1..n
        BY <2>3, <3>1, <3>2 DEF Lists, n
      <3>3. CASE k = n + 1
        BY <2>2, <2>3, <2>4, <3>1, <3>3
      <3> QED
        BY <2>3, <3>2, <3>3
    <2> QED
      BY <2>1, <2>5, <2>6 DEF Lists
  <1>5. CASE DropResult \/ ApplyResult
    <2> DEFINE list == Head(results).outcome
    <2>1. results # <<>> /\ results' = Tail(results) /\ registered' = registered
      BY <1>5 DEF DropResult, ApplyResult
    <2>2. /\ Len(results) \in Nat \ {0} /\ Len(results') = Len(results) - 1
          /\ \A k \in 1..Len(results') : results'[k] = results[k + 1]
          /\ list = results[1].outcome
      BY <2>1, Posted
    <2>3. count' = count \/ (list # Failed /\ count' = Len(list))
      BY <1>5 DEF DropResult, ApplyResult, spinnerVars
    <2> HIDE DEF list
    <2>4. count' <= Cardinality(registered)
      <3>1. CASE count' = count
        BY <3>1 DEF Lists
      <3>2. CASE list # Failed /\ count' = Len(list)
        BY <2>2, <3>2 DEF Lists
      <3> QED
        BY <2>3, <3>1, <3>2
    <2>5. \A k \in 1..Len(results') : results'[k].outcome # Failed =>
             /\ results'[k].outcome \in Seq(registered)
             /\ count' <= Len(results'[k].outcome)
             /\ Len(results'[k].outcome) <= Cardinality(registered)
      <3> SUFFICES ASSUME NEW k \in 1..Len(results'), results'[k].outcome # Failed
                   PROVE  /\ results'[k].outcome \in Seq(registered)
                          /\ count' <= Len(results'[k].outcome)
                          /\ Len(results'[k].outcome) <= Cardinality(registered)
        OBVIOUS
      <3>1. k + 1 \in 1..Len(results) /\ 1 \in 1..Len(results) /\ 1 < k + 1
            /\ results'[k] = results[k + 1]
        BY <2>2
      <3>2. CASE count' = count
        BY <3>1, <3>2 DEF Lists
      <3>3. CASE list # Failed /\ count' = Len(list)
        BY <2>2, <3>1, <3>3 DEF Lists
      <3> QED
        BY <2>3, <3>2, <3>3
    <2>6. \A j, k \in 1..Len(results') :
             j < k /\ results'[j].outcome # Failed /\ results'[k].outcome # Failed
                => Len(results'[j].outcome) <= Len(results'[k].outcome)
      <3> SUFFICES ASSUME NEW j \in 1..Len(results'), NEW k \in 1..Len(results'), j < k,
                          results'[j].outcome # Failed, results'[k].outcome # Failed
                   PROVE  Len(results'[j].outcome) <= Len(results'[k].outcome)
        OBVIOUS
      <3>1. /\ j + 1 \in 1..Len(results) /\ k + 1 \in 1..Len(results) /\ j + 1 < k + 1
            /\ results'[j] = results[j + 1] /\ results'[k] = results[k + 1]
        BY <2>2
      <3> QED
        BY <3>1 DEF Lists
    <2> QED
      BY <2>1, <2>4, <2>5, <2>6 DEF Lists
  <1>6. ASSUME UNCHANGED <<registered, results, count>>
        PROVE  Lists'
    BY <1>6 DEF Lists
  <1>7. CASE \/ Stop \/ Restart \/ Leave \/ Layout \/ ItemSelected \/ Cancel \/ UNCHANGED vars
             \/ \E i \in 1..Slots : Pick(i)
             \/ \E p \in Pins : Press(p)
             \/ \E c \in Cmds : Confirm(c)
             \/ \E c \in Cmds : EndHttp(c)
    BY <1>6, <1>7 DEF Stop, Restart, Leave, Layout, ItemSelected, Cancel, vars, Pick, Press,
                      Confirm, EndHttp, spinnerVars
  <1> QED
    BY <1>1, <1>2, <1>3, <1>4, <1>5, <1>7 DEF Next, Killed, ConfirmBlind

----------------------------------------------------------------------------
(* What the screen and the commands name. *)

LEMMA OwnedInit == Init => Owned
  BY DEF Init, Owned, NoSlots

LEMMA OwnedStep == Types /\ Lists /\ Owned /\ Backed /\ [Next]_vars => Owned'
  <1> SUFFICES ASSUME Types, Lists, Owned, Backed, [Next]_vars
               PROVE  Owned'
    OBVIOUS
  <1>1. CASE Open
    BY <1>1 DEF Open, Owned, NoSlots, orderVars
  <1>2. CASE \E p \in Plants : Register(p)
    BY <1>2 DEF Register, Owned, spinnerVars, orderVars
  <1>3. CASE ApplyResult
    <2> DEFINE list == Head(results).outcome
    <2>1. registered' = registered /\ want' = want /\ panel' = panel
      BY <1>3 DEF ApplyResult, orderVars
    <2>2. CASE list = Failed
      BY <1>3, <2>1, <2>2 DEF ApplyResult, Owned
    <2>3. CASE list # Failed
      <3>1. list \in Seq(registered) /\ Fill(list)
        <4>1. results # <<>>
          BY <1>3 DEF ApplyResult
        <4>2. Len(results) \in Nat \ {0} /\ Head(results) = results[1]
          BY <4>1, Posted
        <4>3. 1 \in 1..Len(results)
          BY <4>2
        <4> QED
          BY <1>3, <2>3, <4>2, <4>3 DEF ApplyResult, Lists
      <3>2. PICK n \in Nat :
            /\ n = (IF Len(list) < Slots THEN Len(list) ELSE Slots)
            /\ n <= Slots /\ n <= Len(list)
            /\ plantData' = [i \in 1..Slots |-> IF i <= n THEN list[i] ELSE plantData[i]]
            /\ \A i \in 1..n : list[i] \in registered
            /\ plantList' \in Seq(registered) /\ Len(plantList') = n
            /\ modelNumber' = IF n = 0 THEN modelNumber ELSE list[n]
        <4> HIDE DEF list
        <4> QED
          BY <3>1, Filled
      <3> HIDE DEF list
      <3>3. \A i \in 1..Slots : plantData'[i] \in registered \cup {NoPlant}
        BY <3>2 DEF Owned
      <3>4. modelNumber' \in registered \cup {NoPlant}
        BY <3>2 DEF Owned
      <3> QED
        BY <2>1, <3>3, <3>4 DEF Owned
    <2> QED
      BY <2>2, <2>3
  <1>4. CASE ItemSelected
    <2>1. sel \in 1..Slots
      <3>1. sel \in Nat /\ count \in 0..Slots /\ sel <= count /\ sel # 0
        BY <1>4 DEF ItemSelected, Types, Backed
      <3> QED
        BY <3>1, MonitorAssumption
    <2> QED
      BY <1>4, <2>1 DEF ItemSelected, Owned, orderVars
  <1>5. CASE \E c \in Cmds : Confirm(c)
    <2> PICK c \in Cmds : Confirm(c)
      BY <1>5
    <2>1. want' = [want EXCEPT ![c] = [plant |-> modelNumber, pin |-> Top.pin, level |-> Top.level]]
          /\ modelNumber \in registered /\ want \in [Cmds -> Orders \cup {NoOrder}]
      BY DEF Confirm, Owned, Types
    <2>2. \A d \in Cmds : want'[d] # NoOrder => want'[d].plant \in registered
      BY <2>1 DEF Owned
    <2> QED
      BY <2>2 DEF Confirm, Owned, spinnerVars
  <1>6. ASSUME UNCHANGED <<registered, modelNumber, panel, plantData, want>>
        PROVE  Owned'
    BY <1>6 DEF Owned
  <1>7. CASE \/ Stop \/ Restart \/ Leave \/ Die \/ DropResult \/ Layout \/ Cancel \/ UNCHANGED vars
             \/ \E outcome \in Listings(registered) \cup {Failed} : Download(outcome)
             \/ \E i \in 1..Slots : Pick(i)
             \/ \E p \in Pins : Press(p)
             \/ \E c \in Cmds : EndHttp(c)
    BY <1>6, <1>7 DEF Stop, Restart, Leave, Die, DropResult, Layout, Cancel, vars, Download, Pick,
                      Press, EndHttp, spinnerVars, orderVars
  <1> QED
    BY <1>1, <1>2, <1>3, <1>4, <1>5, <1>7 DEF Next, Killed, ConfirmBlind

----------------------------------------------------------------------------
(* The spinner and the slots behind it. *)

\* The length of a list that is applied, and the first load with a list in it.
LEMMA Counting ==
    ASSUME Types, Lists, Backed, ApplyResult
    PROVE  /\ count' \in Nat /\ count <= count'
           /\ \A i \in 1..count' : plantData'[i] # NoPlant
  <1> DEFINE list == Head(results).outcome
  <1>0. count \in 0..Slots /\ count \in Nat /\ Slots \in Nat
    BY MonitorAssumption DEF Types
  <1>1. CASE list = Failed
    BY <1>0, <1>1 DEF ApplyResult, Backed
  <1>2. CASE list # Failed
    <2>1. results # <<>> /\ Fill(list)
      BY <1>2 DEF ApplyResult
    <2>2. /\ list \in Seq(registered) /\ registered \subseteq Plants
          /\ count <= Len(list)
      <3>1. Len(results) \in Nat \ {0} /\ Head(results) = results[1]
        BY <2>1, Posted
      <3>2. 1 \in 1..Len(results)
        BY <3>1
      <3> QED
        BY <1>2, <3>1, <3>2 DEF Lists, Types
    <2>3. PICK n \in Nat :
          /\ n = (IF Len(list) < Slots THEN Len(list) ELSE Slots)
          /\ n <= Slots /\ n <= Len(list)
          /\ plantData' = [i \in 1..Slots |-> IF i <= n THEN list[i] ELSE plantData[i]]
          /\ \A i \in 1..n : list[i] \in registered
          /\ plantList' \in Seq(registered) /\ Len(plantList') = n
          /\ modelNumber' = IF n = 0 THEN modelNumber ELSE list[n]
      <3> HIDE DEF list
      <3> QED
        BY <2>1, <2>2, Filled
    <2>4. Len(list) \in Nat
      BY <2>2
    <2>5. count' = IF Len(list) <= Slots THEN Len(list) ELSE count
      BY <1>2 DEF ApplyResult
    <2> HIDE DEF list
    <2>6. count' \in Nat /\ count <= count' /\ count' <= n
      BY <1>0, <2>2, <2>3, <2>4, <2>5
    <2>7. \A i \in 1..n : plantData'[i] = list[i] /\ list[i] \in Plants
      BY <1>0, <2>2, <2>3
    <2> QED
      BY <2>6, <2>7 DEF Plants, NoPlant
  <1> QED
    BY <1>1, <1>2

LEMMA BackedStep == Types /\ Lists /\ Backed /\ [Next]_vars => Backed'
  <1> SUFFICES ASSUME Types, Lists, Backed, [Next]_vars
               PROVE  Backed'
    OBVIOUS
  <1>0. count \in Nat /\ sel \in Nat
    BY MonitorAssumption DEF Types
  <1>1. CASE Open
    BY <1>1 DEF Open, Backed
  <1>2. CASE ApplyResult
    <2>1. sel' = sel /\ due' = due
      BY <1>2 DEF ApplyResult
    <2>2. sel <= count /\ (due => sel # 0)
      BY DEF Backed
    <2>3. count' \in Nat /\ count <= count' /\ \A i \in 1..count' : plantData'[i] # NoPlant
      BY <1>2, Counting
    <2>4. sel' <= count'
      BY <1>0, <2>1, <2>2, <2>3
    <2> QED
      BY <2>1, <2>2, <2>3, <2>4 DEF Backed
  <1>3. CASE Layout
    <2>1. UNCHANGED <<plantData, count>>
      BY <1>3 DEF Layout
    <2>2. sel' = IF count = 0 THEN 0 ELSE IF sel = 0 THEN 1 ELSE IF sel <= count THEN sel ELSE count
      BY <1>3 DEF Layout
    <2>3. sel' <= count /\ (sel # 0 => sel' # 0)
      BY <1>0, <2>2 DEF Backed
    <2>4. due' => due \/ sel' # 0
      BY <1>3 DEF Layout
    <2>5. due' => sel' # 0
      BY <2>3, <2>4 DEF Backed
    <2> QED
      BY <2>1, <2>3, <2>5 DEF Backed
  <1>4. CASE \E i \in 1..Slots : Pick(i)
    <2>1. UNCHANGED <<plantData, count>> /\ sel' \in 1..count
      BY <1>4 DEF Pick
    <2> QED
      BY <1>0, <2>1 DEF Backed
  <1>5. CASE ItemSelected
    BY <1>5 DEF ItemSelected, Backed
  <1>6. ASSUME UNCHANGED <<plantData, count, sel, due>>
        PROVE  Backed'
    BY <1>6 DEF Backed
  <1>7. CASE \/ Stop \/ Restart \/ Leave \/ Die \/ DropResult \/ Cancel \/ UNCHANGED vars
             \/ \E p \in Plants : Register(p)
             \/ \E outcome \in Listings(registered) \cup {Failed} : Download(outcome)
             \/ \E p \in Pins : Press(p)
             \/ \E c \in Cmds : Confirm(c)
             \/ \E c \in Cmds : EndHttp(c)
    BY <1>6, <1>7 DEF Stop, Restart, Leave, Die, DropResult, Cancel, vars, Register, Download,
                      Press, Confirm, EndHttp, spinnerVars
  <1> QED
    BY <1>1, <1>2, <1>3, <1>4, <1>5, <1>7 DEF Next, Killed, ConfirmBlind

LEMMA FirstLoadStep == Types /\ Backed /\ FirstLoad /\ [Next]_vars => FirstLoad'
  <1> SUFFICES ASSUME Types, Backed, FirstLoad, [Next]_vars
               PROVE  FirstLoad'
    OBVIOUS
  <1>0. count \in Nat /\ sel \in Nat /\ shownLoads \in Nat /\ sel <= count
    BY MonitorAssumption DEF Types, Backed
  <1>1. CASE Open
    BY <1>1 DEF Open, FirstLoad
  <1>2. CASE ApplyResult
    <2>1. shownLoads' = shownLoads + 1 /\ sel' = sel
      BY <1>2 DEF ApplyResult
    <2>2. shownLoads' <= 1 => sel' = 0
      <3>1. shownLoads' <= 1 => shownLoads = 0
        BY <1>0, <2>1
      <3>2. shownLoads = 0 => sel = 0
        BY <1>0 DEF FirstLoad
      <3> QED
        BY <2>1, <3>1, <3>2
    <2>3. shownLoads' # 0
      BY <1>0, <2>1
    <2> QED
      BY <2>2, <2>3 DEF FirstLoad
  <1>3. CASE Layout
    <2>1. changed /\ changed' = FALSE
          /\ UNCHANGED <<shownLoads, plantData, count, panel, modelNumber>>
      BY <1>3 DEF Layout
    <2>2. shownLoads # 0
      BY <2>1 DEF FirstLoad
    <2>3. shownLoads <= 1 => sel = 0
      BY <2>1 DEF FirstLoad
    <2>4. sel' # sel /\ sel' # 0 => due'
      BY <1>3 DEF Layout
    <2>5. shownLoads <= 1 /\ sel' # 0 => due'
      BY <2>3, <2>4
    <2> QED
      BY <2>1, <2>2, <2>5 DEF FirstLoad
  <1>4. CASE \E i \in 1..Slots : Pick(i)
    <2>1. due' = TRUE /\ ~changed /\ UNCHANGED <<shownLoads, count, changed>>
      BY <1>4 DEF Pick
    <2> QED
      BY <2>1 DEF FirstLoad
  <1>5. CASE ItemSelected
    <2>1. ~changed /\ modelNumber' = plantData[sel] /\ panel' = plantData[sel]
          /\ UNCHANGED <<shownLoads, plantData, count, changed, sel>>
      BY <1>5 DEF ItemSelected
    <2> QED
      BY <2>1 DEF FirstLoad
  <1>6. ASSUME UNCHANGED <<shownLoads, plantData, count, changed, sel, due, panel, modelNumber>>
        PROVE  FirstLoad'
    BY <1>6 DEF FirstLoad
  <1>7. CASE \/ Stop \/ Restart \/ Leave \/ Die \/ DropResult \/ Cancel \/ UNCHANGED vars
             \/ \E p \in Plants : Register(p)
             \/ \E outcome \in Listings(registered) \cup {Failed} : Download(outcome)
             \/ \E p \in Pins : Press(p)
             \/ \E c \in Cmds : Confirm(c)
             \/ \E c \in Cmds : EndHttp(c)
    BY <1>6, <1>7 DEF Stop, Restart, Leave, Die, DropResult, Cancel, vars, Register, Download,
                      Press, Confirm, EndHttp, spinnerVars
  <1> QED
    BY <1>1, <1>2, <1>3, <1>4, <1>5, <1>7 DEF Next, Killed, ConfirmBlind

----------------------------------------------------------------------------
(* The order of the requests: facts about a line of commands, the commands as *)
(* they were confirmed, and those that died.                                 *)

Members(s) == {s[i] : i \in 1..Len(s)}
Places     == Cmds \cup {NoCmd}

InOrder(line, done, gone) ==
    /\ Members(line) \ {NoCmd} = Members(done) \ gone
    /\ \A i, j \in 1..Len(done), k, l \in 1..Len(line) :
          line[k] = done[i] /\ line[l] = done[j] => (i < j <=> k < l)

LEMMA RunsInOrder == RunsAsConfirmed <=> InOrder(Line, issued, lost)
  BY DEF RunsAsConfirmed, InOrder, Members

\* A new command joins both at the end.
LEMMA OrderConfirmed ==
    ASSUME NEW line \in Seq(Places), NEW done \in Seq(Cmds), NEW gone, NEW c \in Cmds,
           InOrder(line, done, gone), gone \subseteq Members(done), c \notin Members(done)
    PROVE  InOrder(Append(line, c), Append(done, c), gone)
  <1> DEFINE line2 == Append(line, c)
             done2 == Append(done, c)
  <1>1. /\ Len(line) \in Nat /\ Len(line2) = Len(line) + 1 /\ line2[Len(line) + 1] = c
        /\ \A k \in 1..Len(line) : line2[k] = line[k]
    OBVIOUS
  <1>2. /\ Len(done) \in Nat /\ Len(done2) = Len(done) + 1 /\ done2[Len(done) + 1] = c
        /\ \A k \in 1..Len(done) : done2[k] = done[k]
    OBVIOUS
  <1> HIDE DEF line2, done2
  <1>3. c # NoCmd
    BY MonitorAssumption
  <1>4. Members(line2) = Members(line) \cup {c}
    BY <1>1 DEF Members
  <1>5. Members(done2) = Members(done) \cup {c}
    BY <1>2 DEF Members
  <1>6. Members(line) \ {NoCmd} = Members(done) \ gone
    BY DEF InOrder
  <1>7. Members(line2) \ {NoCmd} = Members(done2) \ gone
    BY <1>3, <1>4, <1>5, <1>6
  <1>8. ASSUME NEW k \in 1..Len(line)
        PROVE  line[k] # c
    BY <1>3, <1>6, <1>8 DEF Members
  <1>9. ASSUME NEW i \in 1..Len(done)
        PROVE  done[i] # c
    BY <1>9 DEF Members
  <1>10. ASSUME NEW i \in 1..Len(done2), NEW j \in 1..Len(done2),
                NEW k \in 1..Len(line2), NEW l \in 1..Len(line2),
                line2[k] = done2[i], line2[l] = done2[j]
         PROVE  i < j <=> k < l
    <2>1. i \in 1..Len(done) \/ i = Len(done) + 1
      BY <1>2
    <2>2. j \in 1..Len(done) \/ j = Len(done) + 1
      BY <1>2
    <2>3. k \in 1..Len(line) \/ k = Len(line) + 1
      BY <1>1
    <2>4. l \in 1..Len(line) \/ l = Len(line) + 1
      BY <1>1
    <2>5. i \in 1..Len(done) <=> k \in 1..Len(line)
      BY <1>1, <1>2, <1>8, <1>9, <1>10, <2>1, <2>3
    <2>6. j \in 1..Len(done) <=> l \in 1..Len(line)
      BY <1>1, <1>2, <1>8, <1>9, <1>10, <2>2, <2>4
    <2>7. CASE i \in 1..Len(done) /\ j \in 1..Len(done)
      <3>1. line[k] = done[i] /\ line[l] = done[j]
        BY <1>1, <1>2, <1>10, <2>5, <2>6, <2>7
      <3> QED
        BY <2>5, <2>6, <2>7, <3>1 DEF InOrder
    <2>8. CASE i \in 1..Len(done) /\ j = Len(done) + 1
      BY <1>1, <1>2, <2>4, <2>5, <2>6, <2>8
    <2>9. CASE i = Len(done) + 1 /\ j \in 1..Len(done)
      BY <1>1, <1>2, <2>3, <2>5, <2>6, <2>9
    <2>10. CASE i = Len(done) + 1 /\ j = Len(done) + 1
      BY <1>1, <1>2, <2>3, <2>4, <2>5, <2>6, <2>10
    <2> QED
      BY <2>1, <2>2, <2>7, <2>8, <2>9, <2>10
  <1>11. InOrder(line2, done2, gone)
    BY <1>7, <1>10 DEF InOrder
  <1> QED
    BY <1>11 DEF line2, done2

\* A download joins the line.
LEMMA OrderQueued ==
    ASSUME NEW line \in Seq(Places), NEW done \in Seq(Cmds), NEW gone,
           InOrder(line, done, gone)
    PROVE  InOrder(Append(line, NoCmd), done, gone)
  <1> DEFINE line2 == Append(line, NoCmd)
  <1>1. /\ Len(line) \in Nat /\ Len(line2) = Len(line) + 1 /\ line2[Len(line) + 1] = NoCmd
        /\ \A k \in 1..Len(line) : line2[k] = line[k]
    OBVIOUS
  <1> HIDE DEF line2
  <1>2. Members(line2) = Members(line) \cup {NoCmd}
    BY <1>1 DEF Members
  <1>3. Members(line2) \ {NoCmd} = Members(done) \ gone
    BY <1>2 DEF InOrder
  <1>4. ASSUME NEW i \in 1..Len(done), NEW k \in 1..Len(line2), line2[k] = done[i]
        PROVE  k \in 1..Len(line) /\ line[k] = done[i]
    <2>1. done[i] # NoCmd
      BY MonitorAssumption
    <2> QED
      BY <1>1, <1>4, <2>1
  <1>5. InOrder(line2, done, gone)
    BY <1>3, <1>4 DEF InOrder
  <1> QED
    BY <1>5 DEF line2

\* A download leaves it.
LEMMA OrderListed ==
    ASSUME NEW line \in Seq(Places), NEW line2 \in Seq(Places), NEW done \in Seq(Cmds), NEW gone,
           InOrder(line, done, gone),
           NEW p \in 1..Len(line), line[p] = NoCmd, Len(line2) = Len(line) - 1,
           \A k \in 1..Len(line2) : line2[k] = IF k < p THEN line[k] ELSE line[k + 1]
    PROVE  InOrder(line2, done, gone)
  <1> DEFINE Old(k) == IF k < p THEN k ELSE k + 1
  <1>1. \A k \in 1..Len(line2) : Old(k) \in 1..Len(line) /\ line2[k] = line[Old(k)]
    OBVIOUS
  <1>2. \A k, l \in 1..Len(line2) : k < l <=> Old(k) < Old(l)
    OBVIOUS
  <1>3. Members(line2) \ {NoCmd} = Members(line) \ {NoCmd}
    <2>1. ASSUME NEW c \in Members(line2)
          PROVE  c \in Members(line)
      BY <1>1 DEF Members
    <2>2. ASSUME NEW c \in Members(line), c # NoCmd
          PROVE  c \in Members(line2)
      <3>1. PICK k \in 1..Len(line) : line[k] = c
        BY DEF Members
      <3>2. CASE k < p
        <4>1. k \in 1..Len(line2) /\ line2[k] = c
          BY <3>1, <3>2
        <4> QED
          BY <4>1 DEF Members
      <3>3. CASE k > p
        <4>1. k - 1 \in 1..Len(line2) /\ line2[k - 1] = c
          BY <3>1, <3>3
        <4> QED
          BY <4>1 DEF Members
      <3> QED
        BY <2>2, <3>1, <3>2, <3>3
    <2> QED
      BY <2>1, <2>2
  <1>4. ASSUME NEW i \in 1..Len(done), NEW j \in 1..Len(done),
               NEW k \in 1..Len(line2), NEW l \in 1..Len(line2),
               line2[k] = done[i], line2[l] = done[j]
        PROVE  i < j <=> k < l
    <2>1. Old(k) \in 1..Len(line) /\ Old(l) \in 1..Len(line)
          /\ line[Old(k)] = done[i] /\ line[Old(l)] = done[j]
      BY <1>1, <1>4
    <2>2. k < l <=> Old(k) < Old(l)
      BY <1>2
    <2> HIDE DEF Old
    <2> QED
      BY <2>1, <2>2 DEF InOrder
  <1> QED
    BY <1>3, <1>4 DEF InOrder

\* Those behind a place of the line die.
LEMMA OrderCut ==
    ASSUME NEW line \in Seq(Places), NEW line2 \in Seq(Cmds), NEW done \in Seq(Cmds), NEW gone,
           InOrder(line, done, gone), Len(line2) <= Len(line),
           \A k \in 1..Len(line2) : line2[k] = line[k],
           NEW gone2,
           gone2 = gone \cup ({line[k] : k \in (Len(line2) + 1)..Len(line)} \ {NoCmd})
    PROVE  InOrder(line2, done, gone2)
  <1>0. Len(line) \in Nat /\ Len(line2) \in Nat
    OBVIOUS
  <1>1. Members(line) \ {NoCmd} = Members(done) \ gone
    BY DEF InOrder
  <1>2. \A k, l \in 1..Len(line) : line[k] = line[l] /\ line[k] \in Members(done) => k = l
    <2> SUFFICES ASSUME NEW k \in 1..Len(line), NEW l \in 1..Len(line), line[k] = line[l],
                        line[k] \in Members(done)
                 PROVE  k = l
      OBVIOUS
    <2>1. PICK i \in 1..Len(done) : line[k] = done[i]
      BY DEF Members
    <2>2. line[l] = done[i]
      BY <2>1
    <2>3. (i < i <=> k < l) /\ (i < i <=> l < k)
      BY <2>1, <2>2 DEF InOrder
    <2>4. i \in Nat /\ k \in Nat /\ l \in Nat
      OBVIOUS
    <2> QED
      BY <2>3, <2>4
  <1>3. ASSUME NEW c \in Members(line2)
        PROVE  c \in Members(done) \ gone2
    <2>1. PICK k \in 1..Len(line2) : line2[k] = c
      BY DEF Members
    <2>2. k \in 1..Len(line) /\ line[k] = c /\ c \in Cmds
      BY <1>0, <2>1
    <2>3. c \in Members(done) \ gone
      BY <1>1, <2>2, MonitorAssumption DEF Members
    <2>4. c \notin {line[l] : l \in (Len(line2) + 1)..Len(line)}
      <3> SUFFICES ASSUME NEW l \in (Len(line2) + 1)..Len(line), line[l] = c
                   PROVE  FALSE
        OBVIOUS
      <3>1. l \in 1..Len(line) /\ l # k
        BY <1>0
      <3> QED
        BY <1>2, <2>2, <2>3, <3>1
    <2> QED
      BY <2>3, <2>4
  <1>4. ASSUME NEW c \in Members(done) \ gone2
        PROVE  c \in Members(line2) \ {NoCmd}
    <2>1. c \in Members(line) /\ c # NoCmd
      BY <1>1
    <2>2. PICK k \in 1..Len(line) : line[k] = c
      BY <2>1 DEF Members
    <2>3. k \notin (Len(line2) + 1)..Len(line)
      BY <2>1, <2>2
    <2>4. k \in 1..Len(line2)
      BY <1>0, <2>3
    <2> QED
      BY <2>1, <2>2, <2>4 DEF Members
  <1>5. Members(line2) \ {NoCmd} = Members(done) \ gone2
    BY <1>3, <1>4
  <1>6. ASSUME NEW k \in 1..Len(line2)
        PROVE  k \in 1..Len(line)
    BY <1>0
  <1> QED
    BY <1>5, <1>6 DEF InOrder

----------------------------------------------------------------------------
(* The line of this state and the next. *)

Joined(r, e) == r \o [i \in 1..Len(e) |-> e[i].cmd]

LEMMA LineOf ==
    ASSUME NEW T, NEW r \in Seq(Cmds), NEW e \in Seq(T), \A t \in T : t.cmd \in Places
    PROVE  /\ Joined(r, e) \in Seq(Places)
           /\ Len(r) \in Nat /\ Len(e) \in Nat /\ Len(Joined(r, e)) = Len(r) + Len(e)
           /\ \A k \in 1..Len(Joined(r, e)) :
                 Joined(r, e)[k] = IF k <= Len(r) THEN r[k] ELSE e[k - Len(r)].cmd
  <1> DEFINE q == [i \in 1..Len(e) |-> e[i].cmd]
  <1>1. Len(e) \in Nat /\ Len(r) \in Nat
    OBVIOUS
  <1>2. q \in Seq(Places) /\ Len(q) = Len(e) /\ \A i \in 1..Len(e) : q[i] = e[i].cmd
    OBVIOUS
  <1>3. r \in Seq(Places)
    BY DEF Places
  <1> HIDE DEF q
  <1>4. r \o q \in Seq(Places) /\ Len(r \o q) = Len(r) + Len(q)
    BY <1>2, <1>3, ConcatProperties
  <1>5. \A k \in 1..Len(r \o q) : (r \o q)[k] = IF k <= Len(r) THEN r[k] ELSE q[k - Len(r)]
    BY <1>2, <1>3
  <1>6. Joined(r, e) = r \o q
    BY DEF q, Joined
  <1>7. \A k \in 1..Len(r \o q) : k <= Len(r) \/ k - Len(r) \in 1..Len(e)
    BY <1>1, <1>2, <1>4
  <1> QED
    BY <1>1, <1>2, <1>4, <1>5, <1>6, <1>7

LEMMA TaskPlaces == \A t \in Tasks : t.cmd \in Places
  BY DEF Tasks, ListTask, HttpTask, Places

LEMMA LineNow ==
    ASSUME Types
    PROVE  /\ Line \in Seq(Places)
           /\ Len(ran) \in Nat /\ Len(executor) \in Nat /\ Len(Line) = Len(ran) + Len(executor)
           /\ \A k \in 1..Len(Line) :
                 Line[k] = IF k <= Len(ran) THEN ran[k] ELSE executor[k - Len(ran)].cmd
  <1>1. ran \in Seq(Cmds) /\ executor \in Seq(Tasks)
    BY DEF Types
  <1>2. Line = Joined(ran, executor)
    BY DEF Line, Joined
  <1> HIDE DEF Line
  <1> QED
    BY <1>1, <1>2, TaskPlaces, LineOf

\* A task that is queued joins the line.
LEMMA LineQueued ==
    ASSUME Types, NEW t, t.cmd \in Places, executor' = Append(executor, t), ran' = ran
    PROVE  Line' = Append(Line, t.cmd)
  <1> DEFINE T == Tasks \cup {t}
  <1>1. ran \in Seq(Cmds) /\ executor \in Seq(Tasks) /\ executor' \in Seq(T)
        /\ \A s \in T : s.cmd \in Places
    BY TaskPlaces DEF Types
  <1>2. /\ Len(executor') = Len(executor) + 1
        /\ executor'[Len(executor) + 1] = t
        /\ \A i \in 1..Len(executor) : executor'[i] = executor[i]
    BY <1>1
  <1>3. /\ Line \in Seq(Places)
        /\ Len(ran) \in Nat /\ Len(executor) \in Nat /\ Len(Line) = Len(ran) + Len(executor)
        /\ \A k \in 1..Len(Line) :
              Line[k] = IF k <= Len(ran) THEN ran[k] ELSE executor[k - Len(ran)].cmd
    BY LineNow
  <1>4. Line' = Joined(ran, executor')
    BY DEF Line, Joined
  <1> HIDE DEF Line, T
  <1>5. /\ Line' \in Seq(Places) /\ Len(Line') = Len(ran) + Len(executor')
        /\ \A k \in 1..Len(Line') :
              Line'[k] = IF k <= Len(ran) THEN ran[k] ELSE executor'[k - Len(ran)].cmd
    BY <1>1, <1>4, LineOf
  <1>6. /\ Append(Line, t.cmd) \in Seq(Places) /\ Len(Append(Line, t.cmd)) = Len(Line) + 1
        /\ Append(Line, t.cmd)[Len(Line) + 1] = t.cmd
        /\ \A k \in 1..Len(Line) : Append(Line, t.cmd)[k] = Line[k]
    BY <1>3
  <1>7. \A k \in 1..Len(Line) + 1 : Line'[k] = Append(Line, t.cmd)[k]
    <2> SUFFICES ASSUME NEW k \in 1..Len(Line) + 1
                 PROVE  Line'[k] = Append(Line, t.cmd)[k]
      OBVIOUS
    <2>1. k \in 1..Len(Line')
      BY <1>2, <1>3, <1>5
    <2>2. CASE k <= Len(ran)
      <3>1. k \in 1..Len(Line)
        BY <1>3, <2>2
      <3> QED
        BY <1>3, <1>5, <1>6, <2>1, <2>2, <3>1
    <2>3. CASE k > Len(ran) /\ k <= Len(Line)
      <3>1. k \in 1..Len(Line) /\ k - Len(ran) \in 1..Len(executor) /\ ~(k <= Len(ran))
        BY <1>3, <2>3
      <3> QED
        BY <1>2, <1>3, <1>5, <1>6, <2>1, <3>1
    <2>4. CASE k = Len(Line) + 1
      <3>1. k - Len(ran) = Len(executor) + 1 /\ ~(k <= Len(ran))
        BY <1>3, <2>4
      <3> QED
        BY <1>2, <1>5, <1>6, <2>1, <2>4, <3>1
    <2>5. Len(ran) \in Nat /\ Len(Line) \in Nat
      BY <1>3
    <2>6. k <= Len(ran) \/ (k > Len(ran) /\ k <= Len(Line)) \/ k = Len(Line) + 1
      BY <2>5
    <2> QED
      BY <2>2, <2>3, <2>4, <2>6
  <1>8. Len(Line') = Len(Line) + 1
    BY <1>2, <1>3, <1>5
  <1> QED
    BY <1>5, <1>6, <1>7, <1>8, SeqEqual

----------------------------------------------------------------------------
(* A command is confirmed once, and run in its turn. *)

LEMMA OrderInit == Init => Once /\ RunsAsConfirmed
  <1> SUFFICES ASSUME Init PROVE Once /\ RunsAsConfirmed
    OBVIOUS
  <1>1. executor = <<>> /\ ran = <<>> /\ issued = <<>> /\ lost = {}
    BY DEF Init
  <1>2. Types
    BY TypesInit
  <1>3. Len(Line) = 0
    <2>1. Len(Line) = Len(ran) + Len(executor)
      BY <1>2, LineNow
    <2> QED
      BY <1>1, <2>1
  <1>4. Members(Line) = {} /\ Members(issued) = {} /\ Len(issued) = 0
    BY <1>1, <1>3 DEF Members
  <1>5. InOrder(Line, issued, lost)
    BY <1>3, <1>4 DEF InOrder
  <1> QED
    BY <1>1, <1>5, RunsInOrder DEF Once

\* A command that is asked for has not been asked for before.
LEMMA Fresh ==
    ASSUME Types, Once, NEW c \in Cmds, Confirm(c)
    PROVE  c \notin Members(issued)
  BY DEF Once, Confirm, Members

LEMMA OnceStep == Types /\ Once /\ RunsAsConfirmed /\ [Next]_vars => Once'
  <1> SUFFICES ASSUME Types, Once, RunsAsConfirmed, [Next]_vars
               PROVE  Once'
    OBVIOUS
  <1>1. CASE Die
    <2>1. lost' \subseteq Members(issued)
      <3> SUFFICES ASSUME NEW i \in 1..Len(executor), IsHttp(executor[i])
                   PROVE  executor[i].cmd \in Members(issued)
        BY <1>1 DEF Die, Once, Members
      <3>1. executor[i] \in Tasks
        BY DEF Types
      <3>2. executor[i].cmd \in Cmds
        BY <3>1, TaskKinds
      <3>3. /\ Len(ran) \in Nat /\ Len(executor) \in Nat /\ Len(Line) = Len(ran) + Len(executor)
            /\ \A k \in 1..Len(Line) :
                  Line[k] = IF k <= Len(ran) THEN ran[k] ELSE executor[k - Len(ran)].cmd
        BY LineNow
      <3>4. /\ Len(ran) + i \in 1..Len(Line) /\ ~(Len(ran) + i <= Len(ran))
            /\ (Len(ran) + i) - Len(ran) = i
        BY <3>3
      <3>5. Line[Len(ran) + i] = executor[i].cmd
        BY <3>3, <3>4
      <3>6. executor[i].cmd \in Members(Line) \ {NoCmd}
        BY <3>2, <3>4, <3>5, MonitorAssumption DEF Members
      <3> QED
        BY <3>6, RunsInOrder DEF InOrder
    <2> QED
      BY <1>1, <2>1 DEF Die, Once, Members
  <1>2. CASE \E c \in Cmds : Confirm(c)
    <2> PICK c \in Cmds : Confirm(c)
      BY <1>2
    <2>1. c \notin Members(issued)
      BY Fresh
    <2>2. issued \in Seq(Cmds) /\ want \in [Cmds -> Orders \cup {NoOrder}]
          /\ issued' = Append(issued, c) /\ lost' = lost /\ modelNumber # NoPlant
          /\ want' = [want EXCEPT ![c] = [plant |-> modelNumber, pin |-> Top.pin, level |-> Top.level]]
      BY DEF Confirm, Types
    <2>3. /\ Len(issued) \in Nat /\ Len(issued') = Len(issued) + 1 /\ issued'[Len(issued) + 1] = c
          /\ \A i \in 1..Len(issued) : issued'[i] = issued[i] /\ issued[i] \in Cmds
      BY <2>2
    <2>4. \A i \in 1..Len(issued) : issued[i] # c
      BY <2>1 DEF Members
    <2>5. \A i \in 1..Len(issued') : i \in 1..Len(issued) \/ i = Len(issued) + 1
      BY <2>3
    <2>6. \A i, j \in 1..Len(issued') : issued'[i] = issued'[j] => i = j
      BY <2>3, <2>4, <2>5 DEF Once
    <2>7. want'[c] # NoOrder
      BY <2>2 DEF NoOrder
    <2>8. \A i \in 1..Len(issued) : want'[issued[i]] # NoOrder
      BY <2>2, <2>3, <2>4 DEF Once
    <2>9. \A i \in 1..Len(issued') : want'[issued'[i]] # NoOrder
      BY <2>3, <2>5, <2>7, <2>8
    <2>10. \A i \in 1..Len(issued) : i \in 1..Len(issued') /\ issued'[i] = issued[i]
      BY <2>3
    <2>11. lost' \subseteq {issued'[i] : i \in 1..Len(issued')}
      BY <2>2, <2>10 DEF Once
    <2> QED
      BY <2>6, <2>9, <2>11 DEF Once
  <1>3. ASSUME UNCHANGED <<want, issued, lost>>
        PROVE  Once'
    BY <1>3 DEF Once
  <1>4. CASE \/ Open \/ Stop \/ Restart \/ Leave \/ DropResult \/ ApplyResult
             \/ Layout \/ ItemSelected \/ Cancel \/ UNCHANGED vars
             \/ \E p \in Plants : Register(p)
             \/ \E outcome \in Listings(registered) \cup {Failed} : Download(outcome)
             \/ \E i \in 1..Slots : Pick(i)
             \/ \E p \in Pins : Press(p)
             \/ \E c \in Cmds : EndHttp(c)
    BY <1>3, <1>4 DEF Open, Stop, Restart, Leave, DropResult, ApplyResult, Layout, ItemSelected,
                      Cancel, vars, Register, Download, Pick, Press, EndHttp, orderVars
  <1> QED
    BY <1>1, <1>2, <1>4 DEF Next, Killed, ConfirmBlind

LEMMA OrderStep ==
    ASSUME Types, Types', Once, RunsAsConfirmed, [Next]_vars
    PROVE  RunsAsConfirmed'
  <1>0. /\ Line \in Seq(Places) /\ issued \in Seq(Cmds)
        /\ InOrder(Line, issued, lost) /\ lost \subseteq Members(issued)
        /\ Len(ran) \in Nat /\ Len(executor) \in Nat /\ Len(Line) = Len(ran) + Len(executor)
        /\ \A k \in 1..Len(Line) :
              Line[k] = IF k <= Len(ran) THEN ran[k] ELSE executor[k - Len(ran)].cmd
    BY LineNow, RunsInOrder DEF Types, Once, Members
  <1>n. /\ Line' \in Seq(Places)
        /\ Len(ran') \in Nat /\ Len(executor') \in Nat /\ Len(Line') = Len(ran') + Len(executor')
        /\ \A k \in 1..Len(Line') :
              Line'[k] = IF k <= Len(ran') THEN ran'[k] ELSE executor'[k - Len(ran')].cmd
    <2>1. ran' \in Seq(Cmds) /\ executor' \in Seq(Tasks')
      BY DEF Types
    <2>2. \A t \in Tasks' : t.cmd \in Places
      BY DEF Tasks, ListTask, HttpTask, Places
    <2>3. Line' = Joined(ran', executor')
      BY DEF Line, Joined
    <2> HIDE DEF Line
    <2> QED
      BY <2>1, <2>2, <2>3, LineOf
  <1>w. ASSUME InOrder(Line', issued', lost')
        PROVE  RunsAsConfirmed'
    BY <1>w DEF RunsAsConfirmed, InOrder, Members
  <1> HIDE DEF Line, RunsAsConfirmed
  <1>1. CASE Open \/ Restart
    <2>1. PICK v : executor' = Append(executor, ListTask(v))
      BY <1>1 DEF Open, Restart
    <2>2. UNCHANGED <<issued, ran, lost>>
      BY <1>1 DEF Open, Restart, orderVars
    <2>3. ListTask(v).cmd = NoCmd /\ NoCmd \in Places
      BY DEF ListTask, Places
    <2>4. Line' = Append(Line, NoCmd)
      BY <2>1, <2>2, <2>3, LineQueued
    <2>5. InOrder(Append(Line, NoCmd), issued, lost)
      BY <1>0, OrderQueued
    <2> QED
      BY <1>w, <2>2, <2>4, <2>5
  <1>2. CASE Die
    <2>1. executor' = <<>> /\ ran' = ran /\ issued' = issued
          /\ lost' = lost \cup {executor[i].cmd : i \in {j \in 1..Len(executor) : IsHttp(executor[j])}}
      BY <1>2 DEF Die
    <2>2. Line' \in Seq(Cmds) /\ Len(Line') = Len(ran) /\ \A k \in 1..Len(Line') : Line'[k] = Line[k]
      <3>1. Len(Line') = Len(ran)
        BY <1>n, <2>1
      <3>2. \A k \in 1..Len(Line') : Line'[k] = ran[k] /\ Line'[k] = Line[k]
        BY <1>0, <1>n, <2>1, <3>1
      <3>3. ran \in Seq(Cmds)
        BY DEF Types
      <3>4. Line' = ran
        BY <1>n, <3>1, <3>2, <3>3, SeqEqual DEF Places
      <3> QED
        BY <3>1, <3>2, <3>3, <3>4
    <2>3. {executor[i].cmd : i \in {j \in 1..Len(executor) : IsHttp(executor[j])}}
             = {Line[k] : k \in (Len(Line') + 1)..Len(Line)} \ {NoCmd}
      <3>0. executor \in Seq(Tasks)
        BY DEF Types
      <3>1. \A i \in 1..Len(executor) :
               /\ IsHttp(executor[i]) <=> executor[i].cmd # NoCmd
               /\ Len(ran) + i \in (Len(Line') + 1)..Len(Line)
               /\ Line[Len(ran) + i] = executor[i].cmd
        <4> TAKE i \in 1..Len(executor)
        <4>1. executor[i] \in Tasks
          BY <3>0
        <4>2. IsHttp(executor[i]) <=> executor[i].cmd # NoCmd
          BY <4>1, TaskKinds, MonitorAssumption
        <4>3. Len(ran) + i \in (Len(Line') + 1)..Len(Line) /\ Len(ran) + i \in 1..Len(Line)
              /\ ~(Len(ran) + i <= Len(ran)) /\ (Len(ran) + i) - Len(ran) = i
          BY <1>0, <2>2
        <4>4. Line[Len(ran) + i] = executor[i].cmd
          BY <1>0, <4>3
        <4> QED
          BY <4>2, <4>3, <4>4
      <3>2. \A k \in (Len(Line') + 1)..Len(Line) :
               /\ k - Len(ran) \in 1..Len(executor)
               /\ Line[k] = executor[k - Len(ran)].cmd
        <4> TAKE k \in (Len(Line') + 1)..Len(Line)
        <4>1. k - Len(ran) \in 1..Len(executor) /\ k \in 1..Len(Line) /\ ~(k <= Len(ran))
          BY <1>0, <2>2
        <4> QED
          BY <1>0, <4>1
      <3>3. ASSUME NEW i \in 1..Len(executor), IsHttp(executor[i])
            PROVE  executor[i].cmd \in {Line[k] : k \in (Len(Line') + 1)..Len(Line)} \ {NoCmd}
        BY <3>1, <3>3
      <3>4. ASSUME NEW k \in (Len(Line') + 1)..Len(Line), Line[k] # NoCmd
            PROVE  Line[k] \in {executor[i].cmd : i \in {j \in 1..Len(executor) : IsHttp(executor[j])}}
        BY <3>1, <3>2, <3>4
      <3> QED
        BY <3>3, <3>4
    <2>4. lost' = lost \cup ({Line[k] : k \in (Len(Line') + 1)..Len(Line)} \ {NoCmd})
      BY <2>1, <2>3
    <2>5. Len(Line') <= Len(Line)
      BY <1>0, <2>2
    <2>6. InOrder(Line', issued, lost')
      BY <1>0, <2>2, <2>4, <2>5, OrderCut
    <2> QED
      BY <1>w, <2>1, <2>6
  <1>3. CASE \E outcome \in Listings(registered) \cup {Failed} : Download(outcome)
    <2>1. executor # <<>> /\ ~IsHttp(Head(executor)) /\ executor' = Tail(executor)
          /\ UNCHANGED <<issued, ran, lost>>
      BY <1>3 DEF Download, orderVars
    <2>2. executor \in Seq(Tasks)
      BY DEF Types
    <2>3. /\ Head(executor) \in Tasks /\ Head(executor) = executor[1]
          /\ Len(executor) # 0 /\ Len(executor') = Len(executor) - 1
          /\ \A i \in 1..Len(executor') : executor'[i] = executor[i + 1]
      BY <2>1, <2>2
    <2>4. Head(executor).cmd = NoCmd
      BY <2>1, <2>3, TaskKinds
    <2> DEFINE p == Len(ran) + 1
    <2>5. p \in 1..Len(Line) /\ ~(p <= Len(ran)) /\ p - Len(ran) = 1
      BY <1>0, <2>3
    <2>6. Line[p] = NoCmd
      BY <1>0, <2>3, <2>4, <2>5
    <2>7. Len(Line') = Len(Line) - 1
      BY <1>0, <1>n, <2>1, <2>3
    <2>8. \A k \in 1..Len(Line') : Line'[k] = IF k < p THEN Line[k] ELSE Line[k + 1]
      <3> TAKE k \in 1..Len(Line')
      <3>1. k \in 1..Len(Line) /\ k + 1 \in 1..Len(Line)
        BY <1>0, <2>7
      <3>2. CASE k < p
        <4>1. k <= Len(ran)
          BY <1>0, <3>2
        <4> QED
          BY <1>0, <1>n, <2>1, <3>1, <3>2, <4>1
      <3>3. CASE ~(k < p)
        <4>1. ~(k <= Len(ran)) /\ ~(k + 1 <= Len(ran))
              /\ k - Len(ran) \in 1..Len(executor') /\ (k + 1) - Len(ran) = (k - Len(ran)) + 1
          BY <1>0, <1>n, <2>1, <2>3, <2>7, <3>3
        <4>2. Line'[k] = executor'[k - Len(ran)].cmd
          BY <1>n, <2>1, <4>1
        <4>3. Line[k + 1] = executor[(k - Len(ran)) + 1].cmd
          BY <1>0, <3>1, <4>1
        <4> QED
          BY <2>3, <3>3, <4>1, <4>2, <4>3
      <3> QED
        BY <3>2, <3>3
    <2> HIDE DEF p
    <2>9. InOrder(Line', issued, lost)
      BY <1>0, <1>n, <2>5, <2>6, <2>7, <2>8, OrderListed
    <2> QED
      BY <1>w, <2>1, <2>9
  <1>4. CASE \E c \in Cmds : Confirm(c)
    <2> PICK c \in Cmds : Confirm(c)
      BY <1>4
    <2>1. executor' = Append(executor, HttpTask(c)) /\ issued' = Append(issued, c)
          /\ ran' = ran /\ lost' = lost
      BY DEF Confirm
    <2>2. HttpTask(c).cmd = c /\ c \in Places
      BY DEF HttpTask, Places
    <2>3. Line' = Append(Line, c)
      BY <2>1, <2>2, LineQueued
    <2>4. c \notin Members(issued)
      BY Fresh
    <2>5. InOrder(Append(Line, c), Append(issued, c), lost)
      BY <1>0, <2>4, OrderConfirmed
    <2> QED
      BY <1>w, <2>1, <2>3, <2>5
  <1>5. CASE \E c \in Cmds : EndHttp(c)
    <2> PICK c \in Cmds : EndHttp(c)
      BY <1>5
    <2>1. executor # <<>> /\ Head(executor) = HttpTask(c) /\ executor' = Tail(executor)
          /\ ran' = Append(ran, c) /\ UNCHANGED <<issued, lost>>
      BY DEF EndHttp
    <2>2. executor \in Seq(Tasks) /\ ran \in Seq(Cmds)
      BY DEF Types
    <2>3. /\ Head(executor) = executor[1]
          /\ Len(executor) # 0 /\ Len(executor') = Len(executor) - 1
          /\ \A i \in 1..Len(executor') : executor'[i] = executor[i + 1]
      BY <2>1, <2>2
    <2>4. /\ Len(ran') = Len(ran) + 1 /\ ran'[Len(ran) + 1] = c
          /\ \A i \in 1..Len(ran) : ran'[i] = ran[i]
      BY <2>1, <2>2
    <2>5. executor[1].cmd = c
      BY <2>1, <2>3 DEF HttpTask
    <2>6. Len(Line') = Len(Line)
      BY <1>0, <1>n, <2>3, <2>4
    <2>7. \A k \in 1..Len(Line') : Line'[k] = Line[k]
      <3> TAKE k \in 1..Len(Line')
      <3>1. k \in 1..Len(Line)
        BY <2>6
      <3>2. CASE k <= Len(ran)
        <4>1. k <= Len(ran') /\ k \in 1..Len(ran)
          BY <1>0, <2>4, <3>2
        <4> QED
          BY <1>0, <1>n, <2>4, <3>1, <3>2, <4>1
      <3>3. CASE k = Len(ran) + 1
        <4>1. k <= Len(ran') /\ ~(k <= Len(ran)) /\ k - Len(ran) = 1
          BY <1>0, <2>4, <3>3
        <4> QED
          BY <1>0, <1>n, <2>4, <2>5, <3>1, <3>3, <4>1
      <3>4. CASE k > Len(ran) + 1
        <4>1. ~(k <= Len(ran')) /\ ~(k <= Len(ran))
              /\ k - Len(ran') \in 1..Len(executor') /\ k - Len(ran) = (k - Len(ran')) + 1
          BY <1>0, <1>n, <2>3, <2>4, <3>4
        <4> QED
          BY <1>0, <1>n, <2>3, <3>1, <4>1
      <3>5. k <= Len(ran) \/ k = Len(ran) + 1 \/ k > Len(ran) + 1
        BY <1>0
      <3> QED
        BY <3>2, <3>3, <3>4, <3>5
    <2>8. Line' = Line
      BY <1>0, <1>n, <2>6, <2>7, SeqEqual
    <2> QED
      BY <1>0, <1>w, <2>1, <2>8
  <1>6. ASSUME UNCHANGED <<issued, ran, lost, executor>>
        PROVE  RunsAsConfirmed'
    <2>1. Line' = Line
      BY <1>6 DEF Line
    <2> QED
      BY <1>0, <1>6, <1>w, <2>1
  <1>7. CASE \/ Stop \/ Leave \/ DropResult \/ ApplyResult
             \/ Layout \/ ItemSelected \/ Cancel \/ UNCHANGED vars
             \/ \E p \in Plants : Register(p)
             \/ \E i \in 1..Slots : Pick(i)
             \/ \E p \in Pins : Press(p)
    BY <1>6, <1>7 DEF Stop, Leave, DropResult, ApplyResult, Layout, ItemSelected,
                      Cancel, vars, Register, Pick, Press, orderVars
  <1> QED
    BY <1>1, <1>2, <1>3, <1>4, <1>5, <1>7 DEF Next, Killed, ConfirmBlind

----------------------------------------------------------------------------
(* The theorems. *)

LEMMA InvInit == Init => Inv
  <1> SUFFICES ASSUME Init PROVE Inv
    OBVIOUS
  <1>1. Backed /\ FirstLoad
    BY MonitorAssumption DEF Init, Backed, FirstLoad
  <1> QED
    BY <1>1, TypesInit, CountedInit, ListsInit, OwnedInit, OrderInit DEF Inv

LEMMA InvStep == Inv /\ [Next]_vars => Inv'
  <1> SUFFICES ASSUME Inv, [Next]_vars PROVE Inv'
    OBVIOUS
  <1>1. Types /\ Counted /\ Lists /\ Owned /\ Backed /\ FirstLoad /\ Once /\ RunsAsConfirmed
    BY DEF Inv
  <1>2. Types'
    BY <1>1, TypesStep
  <1>3. Counted' /\ Lists'
    BY <1>1, CountedStep, ListsStep
  <1>4. Owned' /\ Backed' /\ FirstLoad'
    BY <1>1, OwnedStep, BackedStep, FirstLoadStep
  <1>5. Once'
    BY <1>1, OnceStep
  <1>6. RunsAsConfirmed'
    BY <1>1, <1>2, OrderStep
  <1> QED
    BY <1>2, <1>3, <1>4, <1>5, <1>6 DEF Inv

\* The invariant that the theorems below take their facts from: how the executor,
\* the posted results, the array, the spinner and the commands agree.
THEOREM MonitorInv == Spec => []Inv
  <1> QED
    BY InvInit, InvStep, PTL DEF Spec

\* Whatever the user, Android and the network do, the variables keep their types;
\* with them, that a visit shows no more lists than it asked for and that the
\* spinner never shows a position beyond its items.
THEOREM MonitorTypes == Spec => []TypeOK
  <1>1. Inv => TypeOK
    <2> SUFFICES ASSUME Inv PROVE TypeOK
      OBVIOUS
    <2>1. Types /\ Counted /\ Backed
      BY DEF Inv
    <2>2. shownLoads \in 0..loads
      <3>1. executor \in Seq(Tasks) /\ results \in Seq(Results)
            /\ loads \in Nat /\ shownLoads \in Nat
        BY <2>1, MonitorAssumption DEF Types
      <3>2. Occurrences(executor, {ListTask(visit)}) \in Nat /\ Occurrences(results, OfVisit) \in Nat
        BY <3>1, OccurrencesType
      <3> QED
        BY <2>1, <3>1, <3>2 DEF Counted
    <2>3. sel \in 0..count
      BY <2>1, MonitorAssumption DEF Types, Backed
    <2> QED
      BY <2>1, <2>2, <2>3 DEF Types, TypeOK, Tasks, Results
  <1> QED
    BY <1>1, MonitorInv, PTL

\* The requests to the board end in the order in which the user confirmed the
\* commands, each once; only the end of the process takes any out.
THEOREM OrderTheorem == Spec => []RunsAsConfirmed
  <1>1. Inv => RunsAsConfirmed
    BY DEF Inv
  <1> QED
    BY <1>1, MonitorInv, PTL

\* onItemSelected() finds a plant in the slot of the position it is called for,
\* however long the lists are and however they overtake the spinner's layout.
THEOREM SelectionTheorem == Spec => []SelectionBacked
  <1>1. Inv => SelectionBacked
    <2> SUFFICES ASSUME Inv, due PROVE sel # 0 /\ plantData[sel] # NoPlant
      BY DEF SelectionBacked
    <2>1. sel # 0 /\ sel <= count /\ \A i \in 1..count : plantData[i] # NoPlant
      BY DEF Inv, Backed
    <2>2. sel \in Nat /\ count \in Nat
      BY MonitorAssumption DEF Inv, Types
    <2> QED
      BY <2>1, <2>2
  <1> QED
    BY <1>1, MonitorInv, PTL

\* No command is for a plant that is not the user's.
THEOREM OwnTheorem == Spec => []OnlyOwnPlants
  <1>1. Inv => OnlyOwnPlants
    BY DEF Inv, Owned, OnlyOwnPlants
  <1> QED
    BY <1>1, MonitorInv, PTL

\* After the first list of a visit and the calls posted for it, the plant that the
\* buttons command is the one the spinner and the values show.
THEOREM FirstTargetTheorem == Spec => []FirstLoadTarget
  <1>1. Inv => FirstLoadTarget
    BY DEF Inv, FirstLoad, FirstLoadTarget
  <1> QED
    BY <1>1, MonitorInv, PTL
=============================================================================
