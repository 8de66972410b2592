------------------------- MODULE Registration_proofs -------------------------
(***************************************************************************)
(* What TLC checks of the two forms for two or three requests, proved for  *)
(* any phones, ids, model numbers, requests and number of sendings.        *)
(*                                                                         *)
(* MemberRegistration: a form submits one id only, and that id was found   *)
(* free if the user left the field alone during a check; whoever is told   *)
(* that the registration is complete shows an id that has a row, or an     *)
(* INSERT of the same form failed unnoticed.                               *)
(*                                                                         *)
(* PlantRegistration: a model number gets a second row only when two       *)
(* scripts for it overlapped, or a SELECT failed, and the table has no     *)
(* key.  The test and the insertion are two steps; SelectStands carries    *)
(* what the test found over to the insertion, PlantTold carries it on to   *)
(* the dialog the user sees, through answers that may come late or never.  *)
(***************************************************************************)
EXTENDS MemberRegistration, PlantRegistration, TLAPS

----------------------------------------------------------------------------
(* Signing up. *)

Sound == TypeOK /\ OneIdPerForm /\ ChecksCurrent /\ PatientIdWasFree

LEMMA InitSound == Init => Sound
BY NoneAssumption, VolleyAssumption
   DEF Init, Sound, VolleyInit, TypeOK, VolleyTypeOK, OneIdPerForm, ChecksCurrent,
       PatientIdWasFree, Of, Sendings

LEMMA NextTypeOK == TypeOK /\ [Next]_vars => TypeOK'
<1> SUFFICES ASSUME TypeOK, [Next]_vars PROVE TypeOK'
  OBVIOUS
<1> USE VolleyAssumption, NoneAssumption DEF TypeOK, VolleyTypeOK, Contents, Kinds, Sendings
<1>1. ASSUME NEW p \in Phones, NEW id \in Ids \cup {None}, Type(p, id) PROVE TypeOK'
  BY <1>1 DEF Type, volleyVars
<1>2. ASSUME NEW p \in Phones, NEW r \in Reqs, Check(p, r) PROVE TypeOK'
  BY <1>2 DEF Check, Issue, Add, Start
<1>3. ASSUME NEW p \in Phones, NEW r \in Reqs, Submit(p, r) PROVE TypeOK'
  BY <1>3 DEF Submit, Issue, Add, Start
<1>4. ASSUME NEW r \in Reqs, NEW body \in Bodies, HearCheck(r, body) PROVE TypeOK'
  <2>1. what[r] \in Contents
    BY <1>4 DEF HearCheck, Deliver, Waiting
  <2>2. what[r].phone \in Phones /\ <<what[r].phone, what[r].id>> \in Phones \X Ids
    BY <2>1
  <2>3. VolleyTypeOK' /\ \A q \in Reqs : phase'[q] = "idle" <=> phase[q] = "idle"
    BY <1>4 DEF HearCheck, Deliver, Waiting, Unanswered
  <2>4. validate' \in [Phones -> BOOLEAN] /\ found' \subseteq Phones \X Ids
    <3>1. CASE body = "true"
      <4>1. validate' = [validate EXCEPT ![what[r].phone] = TRUE]
        BY <1>4, <3>1 DEF HearCheck
      <4>2. found' = found \cup {<<what[r].phone, what[r].id>>}
        BY <1>4, <3>1 DEF HearCheck
      <4> QED
        BY <4>1, <4>2, <2>2
    <3>2. CASE body # "true"
      BY <1>4, <3>2 DEF HearCheck
    <3> QED
      BY <3>1, <3>2
  <2>5. UNCHANGED <<field, what, USER, told, hasty, unsaved, wire>>
    BY <1>4 DEF HearCheck, Deliver
  <2>6. \A q \in Reqs : what'[q] = None <=> phase'[q] = "idle"
    BY <2>3, <2>5
  <2>7. \A s \in wire' : phase'[s[1]] # "idle"
    <3>1. \A s \in wire : s[1] \in Reqs
      OBVIOUS
    <3> QED
      BY <3>1, <2>3, <2>5
  <2> QED
    BY <2>3, <2>4, <2>5, <2>6, <2>7
<1>5. ASSUME NEW r \in Reqs, NEW body \in Bodies, HearRegister(r, body) PROVE TypeOK'
  BY <1>5 DEF HearRegister, Deliver, Waiting, Unanswered
<1>6. ASSUME NEW s \in wire, UserValidate(s) PROVE TypeOK'
  BY <1>6 DEF UserValidate, Take, Answer, Bodies, memberVars
<1>7. ASSUME NEW s \in wire, UserRegister(s) PROVE TypeOK'
  BY <1>7 DEF UserRegister, Take, Answer, Bodies
<1>8. ASSUME NEW s \in wire, DbDown(s) PROVE TypeOK'
  BY <1>8 DEF DbDown, Take, Answer, Bodies, memberVars
<1>9. CASE Network
  <2>1. ASSUME NEW r \in Reqs, Retry(r) PROVE TypeOK'
    BY <1>9, <2>1 DEF Network, Retry, Unanswered, Waiting, memberVars
  <2>2. ASSUME NEW r \in Reqs, GiveUp(r) PROVE TypeOK'
    BY <1>9, <2>2 DEF Network, GiveUp, Unanswered, Waiting, memberVars
  <2>3. ASSUME NEW s \in wire, Lose(s) PROVE TypeOK'
    BY <1>9, <2>3 DEF Network, Lose, Take, memberVars
  <2> QED
    BY <1>9, <2>1, <2>2, <2>3 DEF Network
<1>10. CASE UNCHANGED vars
  BY <1>10 DEF vars, volleyVars, memberVars
<1> QED
  BY <1>1, <1>2, <1>3, <1>4, <1>5, <1>6, <1>7, <1>8, <1>9, <1>10 DEF Next

\* The field, the flag and the contents of the requests change in four actions only.
LEMMA NextForm ==
    Sound /\ [Next]_vars => OneIdPerForm' /\ ChecksCurrent' /\ PatientIdWasFree'
<1> DEFINE Form == OneIdPerForm /\ ChecksCurrent /\ PatientIdWasFree
<1> SUFFICES ASSUME Sound, [Next]_vars PROVE Form'
  OBVIOUS
<1> USE NoneAssumption
    DEF Sound, TypeOK, VolleyTypeOK, OneIdPerForm, ChecksCurrent, PatientIdWasFree, Of,
        Waiting, Contents, Kinds
<1>1. ASSUME NEW p \in Phones, NEW id \in Ids \cup {None}, Type(p, id) PROVE Form'
  BY <1>1 DEF Type, volleyVars
<1>2. ASSUME NEW p \in Phones, NEW r \in Reqs, Check(p, r) PROVE Form'
  BY <1>2 DEF Check, Issue, Add, Start
<1>3. ASSUME NEW p \in Phones, NEW r \in Reqs, Submit(p, r) PROVE Form'
  BY <1>3 DEF Submit, Issue, Add, Start
<1>4. ASSUME NEW r \in Reqs, NEW body \in Bodies, HearCheck(r, body) PROVE Form'
  BY <1>4 DEF HearCheck, Deliver
<1>5. ASSUME NEW r \in Reqs, NEW body \in Bodies, HearRegister(r, body) PROVE Form'
  BY <1>5 DEF HearRegister, Deliver
<1>6. ASSUME NEW s \in wire, UserValidate(s) PROVE Form'
  BY <1>6 DEF UserValidate, memberVars
<1>7. ASSUME NEW s \in wire, UserRegister(s) PROVE Form'
  BY <1>7 DEF UserRegister
<1>8. ASSUME NEW s \in wire, DbDown(s) PROVE Form'
  BY <1>8 DEF DbDown, memberVars
<1>9. CASE Network
  BY <1>9 DEF Network, Retry, GiveUp, Lose, memberVars
<1>10. CASE UNCHANGED vars
  BY <1>10 DEF vars, volleyVars, memberVars
<1> QED
  BY <1>1, <1>2, <1>3, <1>4, <1>5, <1>6, <1>7, <1>8, <1>9, <1>10 DEF Next

LEMMA SoundAlways == Spec => []Sound
<1>1. Init => Sound
  BY InitSound
<1>2. Sound /\ [Next]_vars => Sound'
  BY NextTypeOK, NextForm DEF Sound
<1> QED
  BY <1>1, <1>2, PTL DEF Spec

\* All submissions of one form of RegisterActivity carry the one id it shows.
THEOREM OneIdTheorem == Spec => []OneIdPerForm
<1>1. Sound => OneIdPerForm
  BY DEF Sound
<1> QED
  BY <1>1, SoundAlways, PTL

\* A form whose id was not edited during a check locks, and so submits, only an id
\* that one of its checks found free.
THEOREM PatientIdTheorem == Spec => []PatientIdWasFree
<1>1. Sound => PatientIdWasFree
  BY DEF Sound
<1> QED
  BY <1>1, SoundAlways, PTL

----------------------------------------------------------------------------
(* What the user is told. *)

\* A row is there before the answer says so, unless the INSERT failed, and no form
\* that was told can change its id any more.
Told ==
    /\ \A b \in back : phase[b.req] # "idle"
    /\ \A id \in Ids : USER[id] # None =>
          \E r \in Of("register", USER[id]) : what[r].id = id
    /\ \A b \in back : what[b.req].kind = "register" /\ b.body = "true" =>
          USER[what[b.req].id] # None \/ b.req \in unsaved
    /\ \A p \in told : validate[p] /\ field[p] # None
                       /\ (USER[field[p]] # None \/ Of("register", p) \cap unsaved # {})

LEMMA InitTold == Init => Told
BY DEF Init, VolleyInit, Told

LEMMA NextTold == Sound /\ Told /\ [Next]_vars => Told'
<1> SUFFICES ASSUME Sound, Told, [Next]_vars PROVE Told'
  OBVIOUS
<1> USE NoneAssumption
    DEF Sound, TypeOK, VolleyTypeOK, Sendings, Told, Of, Contents, Kinds
<1>1. ASSUME NEW p \in Phones, NEW id \in Ids \cup {None}, Type(p, id) PROVE Told'
  BY <1>1 DEF Type, volleyVars
<1>2. ASSUME NEW p \in Phones, NEW r \in Reqs, Check(p, r) PROVE Told'
  BY <1>2 DEF Check, Issue, Add, Start
<1>3. ASSUME NEW p \in Phones, NEW r \in Reqs, Submit(p, r) PROVE Told'
  BY <1>3 DEF Submit, Issue, Add, Start
<1>4. ASSUME NEW r \in Reqs, NEW body \in Bodies, HearCheck(r, body) PROVE Told'
  BY <1>4 DEF HearCheck, Deliver, Unanswered
<1>5. ASSUME NEW r \in Reqs, NEW body \in Bodies, HearRegister(r, body) PROVE Told'
  BY <1>5 DEF HearRegister, Deliver, Unanswered, Waiting, OneIdPerForm
<1>6. ASSUME NEW s \in wire, UserValidate(s) PROVE Told'
  BY <1>6 DEF UserValidate, Answer, Waiting, memberVars
<1>7. ASSUME NEW s \in wire, UserRegister(s) PROVE Told'
  BY <1>7 DEF UserRegister, Answer, Waiting
<1>8. ASSUME NEW s \in wire, DbDown(s) PROVE Told'
  BY <1>8 DEF DbDown, Answer, Waiting, memberVars
<1>9. CASE Network
  BY <1>9 DEF Network, Retry, GiveUp, Lose, Unanswered, memberVars
<1>10. CASE UNCHANGED vars
  BY <1>10 DEF vars, volleyVars, memberVars
<1> QED
  BY <1>1, <1>2, <1>3, <1>4, <1>5, <1>6, <1>7, <1>8, <1>9, <1>10 DEF Next

\* Who is told that the registration is complete shows an id that has a row in USER,
\* of this form or of another one that was submitted with the same id, or else an
\* INSERT of this form failed on a free id and UserRegister.php did not look.
THEOREM ToldTheorem == Spec => []ToldUnlessInsertFailed
<1>1. Init => Told
  BY InitTold
<1>2. Sound /\ Told /\ [Next]_vars => Told'
  BY NextTold
<1>3. Sound /\ Told => ToldUnlessInsertFailed
  BY DEF Sound, TypeOK, OneIdPerForm, Told, ToldUnlessInsertFailed
<1> QED
  BY <1>1, <1>2, <1>3, SoundAlways, PTL DEF Spec

----------------------------------------------------------------------------
(* Adding a plant. *)

PlantSound == PlantTypeOK /\ SendingsKnown /\ SelectStands /\ OneRowPerModel

LEMMA InitPlantSound == PlantInit => PlantSound
BY VolleyAssumption, NoModelAssumption
   DEF PlantInit, PlantSound, VolleyInit, PlantTypeOK, VolleyTypeOK,
       SendingsKnown, SelectStands, OneRowPerModel, RowsOf, Between, Sendings, Dialogs

LEMMA NextPlantTypeOK == PlantTypeOK /\ SendingsKnown /\ [PlantNext]_allPlantVars => PlantTypeOK'
<1> SUFFICES ASSUME PlantTypeOK, SendingsKnown, [PlantNext]_allPlantVars PROVE PlantTypeOK'
  OBVIOUS
<1> USE VolleyAssumption DEF PlantTypeOK, VolleyTypeOK
<1>1. ASSUME NEW r \in Reqs, NEW m \in Models, AddPlant(r, m) PROVE PlantTypeOK'
  BY <1>1 DEF AddPlant, Add, Start, Sendings
<1>2. ASSUME NEW r \in Reqs, NEW body \in Bodies, Hear(r, body) PROVE PlantTypeOK'
  BY <1>2 DEF Hear, Deliver, Unanswered, Bodies, Dialogs
<1>3. ASSUME NEW s \in wire, Select(s) PROVE PlantTypeOK'
  <2>1. s \in Sendings /\ model[s[1]] \in Models
    BY DEF SendingsKnown, Sendings
  <2> QED
    BY <1>3, <2>1 DEF Select, Take
<1>4. ASSUME NEW s \in running["free"] \cup running["taken"], Insert(s) PROVE PlantTypeOK'
  BY <1>4 DEF Insert, Execute, Answer, Bodies, Sendings
<1>5. ASSUME NEW s \in wire, PlantDbDown(s) PROVE PlantTypeOK'
  BY <1>5 DEF PlantDbDown, Take, Answer, Bodies, Sendings, plantVars
<1>6. CASE PlantNetwork
  BY <1>6 DEF PlantNetwork, Retry, GiveUp, Lose, Take, Unanswered,
       Waiting, Sendings, plantVars
<1>7. CASE UNCHANGED allPlantVars
  BY <1>7 DEF allPlantVars, volleyVars, plantVars
<1> QED
  BY <1>1, <1>2, <1>3, <1>4, <1>5, <1>6, <1>7 DEF PlantNext

LEMMA NextSendings == PlantSound /\ [PlantNext]_allPlantVars => SendingsKnown'
<1> SUFFICES ASSUME PlantSound, [PlantNext]_allPlantVars PROVE SendingsKnown'
  OBVIOUS
<1> USE VolleyAssumption DEF PlantSound, PlantTypeOK, VolleyTypeOK, SendingsKnown, Sendings
<1>1. ASSUME NEW r \in Reqs, NEW m \in Models, AddPlant(r, m) PROVE SendingsKnown'
  BY <1>1 DEF AddPlant, Add, Start
<1>2. ASSUME NEW r \in Reqs, NEW body \in Bodies, Hear(r, body) PROVE SendingsKnown'
  BY <1>2 DEF Hear, Deliver, Waiting
<1>3. ASSUME NEW s \in wire, Select(s) PROVE SendingsKnown'
  BY <1>3 DEF Select, Take
<1>4. ASSUME NEW s \in running["free"] \cup running["taken"], Insert(s) PROVE SendingsKnown'
  <2>1. /\ UNCHANGED <<phase, tries, wire, model>> /\ INFO' \subseteq INFO \cup {s}
        /\ running'["free"] \subseteq running["free"]
        /\ running'["taken"] \subseteq running["taken"]
    BY <1>4 DEF Insert, Execute
  <2> QED
    BY <2>1
<1>5. ASSUME NEW s \in wire, PlantDbDown(s) PROVE SendingsKnown'
  BY <1>5 DEF PlantDbDown, Take, plantVars
<1>6. CASE PlantNetwork
  <2>1. ASSUME NEW r \in Reqs, Retry(r) PROVE SendingsKnown'
    BY <1>6, <2>1 DEF PlantNetwork, Retry, Waiting, plantVars
  <2>2. ASSUME NEW r \in Reqs, GiveUp(r) PROVE SendingsKnown'
    BY <1>6, <2>2 DEF PlantNetwork, GiveUp, Waiting, plantVars
  <2>3. ASSUME NEW s \in wire, Lose(s) PROVE SendingsKnown'
    BY <1>6, <2>3 DEF PlantNetwork, Lose, Take, plantVars
  <2> QED
    BY <1>6, <2>1, <2>2, <2>3 DEF PlantNetwork
<1>7. CASE UNCHANGED allPlantVars
  BY <1>7 DEF allPlantVars, volleyVars, plantVars
<1> QED
  BY <1>1, <1>2, <1>3, <1>4, <1>5, <1>6, <1>7 DEF PlantNext

\* The heart of the matter: only Select and Insert touch the rows of a model number
\* and the scripts between the two.
LEMMA NextRows == PlantSound /\ [PlantNext]_allPlantVars => SelectStands' /\ OneRowPerModel'
<1> SUFFICES ASSUME PlantSound, [PlantNext]_allPlantVars PROVE SelectStands' /\ OneRowPerModel'
  OBVIOUS
<1> USE DEF PlantSound, PlantTypeOK, VolleyTypeOK, SendingsKnown, SelectStands,
        OneRowPerModel, RowsOf, Between
<1>1. ASSUME NEW r \in Reqs, NEW m \in Models, AddPlant(r, m)
      PROVE SelectStands' /\ OneRowPerModel'
  BY <1>1 DEF AddPlant, Add, Start, Sendings
<1>2. ASSUME NEW r \in Reqs, NEW body \in Bodies, Hear(r, body)
      PROVE SelectStands' /\ OneRowPerModel'
  BY <1>2 DEF Hear, Deliver, Waiting
<1>3. ASSUME NEW s \in wire, Select(s) PROVE SelectStands' /\ OneRowPerModel'
  BY <1>3 DEF Select, Take, Sendings
<1>4. ASSUME NEW s \in running["free"] \cup running["taken"], Insert(s)
      PROVE SelectStands' /\ OneRowPerModel'
  <2>1. CASE s \in running["taken"]
    BY <1>4, <2>1 DEF Insert, Execute, Sendings
  <2>2. CASE s \in running["free"]
    BY <1>4, <2>2 DEF Insert, Execute, Sendings
  <2> QED
    BY <1>4, <2>1, <2>2
<1>5. ASSUME NEW s \in wire, PlantDbDown(s) PROVE SelectStands' /\ OneRowPerModel'
  BY <1>5 DEF PlantDbDown, plantVars
<1>6. CASE PlantNetwork
  BY <1>6 DEF PlantNetwork, plantVars
<1>7. CASE UNCHANGED allPlantVars
  BY <1>7 DEF allPlantVars, volleyVars, plantVars
<1> QED
  BY <1>1, <1>2, <1>3, <1>4, <1>5, <1>6, <1>7 DEF PlantNext

\* For any requests, model numbers and number of sendings, the types hold, and what
\* a script of AnyFarm_Register.php found stands until its INSERT unless another
\* script for the same model number came in between or its SELECT failed.
THEOREM PlantIsSound == PlantSpec => []PlantSound
<1>1. PlantInit => PlantSound
  BY InitPlantSound
<1>2. PlantSound /\ [PlantNext]_allPlantVars => PlantSound'
  BY NextPlantTypeOK, NextSendings, NextRows DEF PlantSound
<1> QED
  BY <1>1, <1>2, PTL DEF PlantSpec

\* Hence a model number has a second row in INFO only if two scripts for it
\* overlapped or a SELECT failed, and the table has no key.
THEOREM OneRowTheorem == PlantSpec => []OneRowPerModel
<1>1. PlantSound => OneRowPerModel
  BY DEF PlantSound
<1> QED
  BY <1>1, PlantIsSound, PTL

----------------------------------------------------------------------------
(* What the user is told. *)

\* r has been answered so, whether the answer has reached the app or not.
Heard(r, dialog, body) ==
    shown[r] = dialog \/ \E b \in back : b.req = r /\ b.body = body

\* A script that has inserted its row is over, and what it answered stays true: a
\* request refused once and sent once has no sending left that could get a row.
PlantTold ==
    /\ \A b \in back : phase[b.req] # "idle"
    /\ \A r \in Reqs : shown[r] # "none" => phase[r] = "over"
    /\ INFO \cap (wire \cup running["free"] \cup running["taken"]) = {}
    /\ \A s \in running["taken"] : RowsOf(model[s[1]]) # {}
    /\ \A r \in Reqs : Heard(r, "registered", "true") =>
          \/ \E s \in INFO : s[1] = r
          \/ keyed /\ model[r] \in unguarded
          \/ r \in plantUnsaved
    /\ \A r \in Reqs : Heard(r, "refused", "false") =>
          /\ RowsOf(model[r]) # {}
          /\ tries[r] = 1 =>
                <<r, 1>> \notin wire \cup running["free"] \cup running["taken"] \cup INFO

LEMMA InitPlantTold == PlantInit => PlantTold
BY DEF PlantInit, VolleyInit, PlantTold, Heard

LEMMA NextPlantTold ==
    PlantSound /\ PlantTold /\ [PlantNext]_allPlantVars => PlantTold'
<1> SUFFICES ASSUME PlantSound, PlantTold, [PlantNext]_allPlantVars PROVE PlantTold'
  OBVIOUS
<1> USE VolleyAssumption
    DEF PlantSound, PlantTypeOK, VolleyTypeOK, SendingsKnown, Sendings,
        PlantTold, Heard, RowsOf, Dialogs, Bodies
<1>1. ASSUME NEW r \in Reqs, NEW m \in Models, AddPlant(r, m) PROVE PlantTold'
  BY <1>1 DEF AddPlant, Add, Start
<1>2. ASSUME NEW r \in Reqs, NEW body \in Bodies, Hear(r, body) PROVE PlantTold'
  BY <1>2 DEF Hear, Deliver, Waiting, Unanswered
<1>3. ASSUME NEW s \in wire, Select(s) PROVE PlantTold'
  BY <1>3 DEF Select, Take
<1>4. ASSUME NEW s \in running["free"] \cup running["taken"], Insert(s) PROVE PlantTold'
  BY <1>4 DEF Insert, Execute, Answer, Waiting, SelectStands, Between
<1>5. ASSUME NEW s \in wire, PlantDbDown(s) PROVE PlantTold'
  BY <1>5 DEF PlantDbDown, Take, Answer, Waiting, plantVars
<1>6. CASE PlantNetwork
  <2>1. ASSUME NEW r \in Reqs, Retry(r) PROVE PlantTold'
    <3>1. /\ UNCHANGED <<phase, plantVars>> /\ back' = Unanswered(r)
          /\ tries' = [tries EXCEPT ![r] = tries[r] + 1] /\ tries[r] \in Nat
          /\ wire' = wire \cup {<<r, tries[r] + 1>>} /\ phase[r] = "waiting"
      BY <1>6, <2>1 DEF PlantNetwork, Retry, Waiting
    <3>2. <<r, tries[r] + 1>> \notin INFO
      BY <3>1
    <3>3. ASSUME NEW q \in Reqs, Heard(q, "refused", "false")', tries'[q] = 1
          PROVE  <<q, 1>> \notin (wire \cup running["free"] \cup running["taken"] \cup INFO)'
      <4>1. q # r
        BY <3>1, <3>3 DEF Unanswered, plantVars
      <4> QED
        BY <3>1, <3>3, <4>1 DEF Unanswered, plantVars
    <3> QED
      BY <3>1, <3>2, <3>3 DEF Unanswered, plantVars
  <2>2. ASSUME NEW r \in Reqs, GiveUp(r) PROVE PlantTold'
    BY <1>6, <2>2 DEF PlantNetwork, GiveUp, Waiting, Unanswered, plantVars
  <2>3. ASSUME NEW s \in wire, Lose(s) PROVE PlantTold'
    BY <1>6, <2>3 DEF PlantNetwork, Lose, Take, plantVars
  <2> QED
    BY <1>6, <2>1, <2>2, <2>3 DEF PlantNetwork
<1>7. CASE UNCHANGED allPlantVars
  BY <1>7 DEF allPlantVars, volleyVars, plantVars
<1> QED
  BY <1>1, <1>2, <1>3, <1>4, <1>5, <1>6, <1>7 DEF PlantNext

LEMMA PlantToldAlways == PlantSpec => []PlantTold
<1>1. PlantInit => PlantTold
  BY InitPlantTold
<1>2. PlantSound /\ PlantTold /\ [PlantNext]_allPlantVars => PlantTold'
  BY NextPlantTold
<1> QED
  BY <1>1, <1>2, PlantIsSound, PTL DEF PlantSpec

\* The dialog "registered" is true (this very request has a row in INFO) unless one
\* of its INSERTs failed unnoticed, on the key after an overlap or a failed SELECT,
\* or for a reason of the database's own.
THEOREM RegisteredTheorem == PlantSpec => []RegisteredUnlessInsertFailed
<1>1. PlantTold => RegisteredUnlessInsertFailed
  BY DEF PlantTold, Heard, RegisteredUnlessInsertFailed
<1> QED
  BY <1>1, PlantToldAlways, PTL

\* The dialog "refused" is true: the model number has a row, and not of this request
\* if it was sent only once.
THEOREM RefusedTheorem == PlantSpec => []RefusedIsTaken
<1>1. ASSUME PlantSound, PlantTold PROVE RefusedIsTaken
  <2> USE <1>1 DEF PlantSound, PlantTypeOK, VolleyTypeOK, SendingsKnown,
             Sendings, PlantTold, Heard
  <2>1. ASSUME NEW r \in Reqs, shown[r] = "refused", tries[r] = 1, NEW s \in INFO, s[1] = r
        PROVE  FALSE
    <3>1. s \in Reqs \X (1..MaxTries) /\ s[2] <= 1
      BY <2>1
    <3>2. s = <<r, 1>>
      BY <2>1, <3>1, VolleyAssumption
    <3> QED
      BY <2>1, <3>2
  <2> QED
    BY <2>1 DEF RefusedIsTaken
<1> QED
  BY <1>1, PlantIsSound, PlantToldAlways, PTL
=============================================================================
