-------------------------- MODULE PlantRegistration --------------------------
(***************************************************************************)
(* Adding a flowerpot: AnyFarm_Register.java posts its user, model number  *)
(* and kind, and php/AnyFarm_Register.php inserts a row into INFO if a     *)
(* SELECT finds none for the model number.  The SELECT and the INSERT are  *)
(* two statements of one script, and the server runs scripts at once.      *)
(*                                                                         *)
(* The repository has no schema of INFO: whether modelNumber is a key, so  *)
(* that a second INSERT fails, is chosen at the start.  An INSERT may fail *)
(* for other reasons too; the script looks at no result of it.  A row is   *)
(* named by the sending that inserted it.                                  *)
(*                                                                         *)
(* What MemberRegistration has too carries Plant in its name, so that one  *)
(* module can speak of both forms.                                         *)
(***************************************************************************)
EXTENDS Volley

CONSTANTS
    Models,         \* model numbers
    NoModel         \* no model number

ASSUME NoModelAssumption == NoModel \notin Models

VARIABLES
    keyed,          \* INFO has a unique key on modelNumber
    model,          \* model[r]: the model number a request wants to register
    running,        \* sendings between their SELECT and their INSERT: those ...
                    \* ... for which it found no row, and those for which it did
    INFO,           \* sendings that inserted a row
    shown,          \* shown[r]: the dialog the user saw
    unguarded,      \* history: models whose test could not guard the INSERT: two
                    \* scripts were between them at once, or a SELECT missed a row
    plantUnsaved    \* history: requests whose INSERT failed, but not on the key

plantVars == <<keyed, model, running, INFO, shown, unguarded, plantUnsaved>>
allPlantVars == <<volleyVars, plantVars>>

Dialogs == {"none", "registered", "refused"}

PlantTypeOK ==
    /\ VolleyTypeOK
    /\ keyed \in BOOLEAN
    /\ model \in [Reqs -> Models \cup {NoModel}]
    /\ running \in [{"free", "taken"} -> SUBSET Sendings]
    /\ INFO \subseteq Sendings
    /\ shown \in [Reqs -> Dialogs]
    /\ unguarded \subseteq Models
    /\ plantUnsaved \subseteq Reqs

PlantInit ==
    /\ VolleyInit
    /\ keyed \in BOOLEAN
    /\ model = [r \in Reqs |-> NoModel]
    /\ running = [f \in {"free", "taken"} |-> {}]
    /\ INFO = {}
    /\ shown = [r \in Reqs |-> "none"]
    /\ unguarded = {} /\ plantUnsaved = {}

RowsOf(m) == {s \in INFO : model[s[1]] = m}
Between(m) == {s \in running["free"] \cup running["taken"] : model[s[1]] = m}

\* mysqli_stmt_execute() of the INSERT of script s, which comes only after a SELECT
\* that found nothing: a key refuses a second row, the database may refuse any row,
\* and the script looks at neither.
Execute(s, f) ==
    \/ /\ f = "free" /\ (keyed => RowsOf(model[s[1]]) = {})
       /\ INFO' = INFO \cup {s}
       /\ UNCHANGED plantUnsaved
    \/ /\ f = "free"
       /\ plantUnsaved' = plantUnsaved \cup {s[1]}
       /\ UNCHANGED INFO
    \/ /\ f = "free" => keyed /\ RowsOf(model[s[1]]) # {}
       /\ UNCHANGED <<INFO, plantUnsaved>>

----------------------------------------------------------------------------
(* Faulty variants of definitions below, each with one slip. *)

\* The test of the SELECT forgotten.
InsertAlways(s) ==
    \E f \in {"free", "taken"} :
        /\ s \in running[f]
        /\ running' = [running EXCEPT ![f] = @ \ {s}]
        /\ \/ INFO' = INFO \cup {s} /\ UNCHANGED plantUnsaved
           \/ plantUnsaved' = plantUnsaved \cup {s[1]} /\ UNCHANGED INFO
        /\ Answer(s, IF f = "free" THEN "true" ELSE "false")
        /\ UNCHANGED <<phase, tries, wire, keyed, model, shown, unguarded>>

\* The answer of UserRegister.php, true whatever happened.
InsertReportsTrue(s) ==
    \E f \in {"free", "taken"} :
        /\ s \in running[f]
        /\ running' = [running EXCEPT ![f] = @ \ {s}]
        /\ Execute(s, f)
        /\ Answer(s, "true")
        /\ UNCHANGED <<phase, tries, wire, keyed, model, shown, unguarded>>

\* A SELECT without its WHERE.
SelectAny(s) ==
    /\ Take(s)
    /\ LET f == IF INFO = {} THEN "free" ELSE "taken" IN
          running' = [running EXCEPT ![f] = @ \cup {s}]
    /\ unguarded' = IF Between(model[s[1]]) = {} THEN unguarded ELSE unguarded \cup {model[s[1]]}
    /\ UNCHANGED <<phase, tries, back, keyed, model, INFO, shown, plantUnsaved>>

----------------------------------------------------------------------------
(* The form. *)

\* addAnyFarmRegBtn with no empty field; it may be pressed again at any time.
AddPlant(r, m) ==
    /\ Add(r)
    /\ model' = [model EXCEPT ![r] = m]
    /\ UNCHANGED <<keyed, running, INFO, shown, unguarded, plantUnsaved>>

\* onResponse(): one of two dialogs, and none for what is no JSON object.
Hear(r, body) ==
    /\ Deliver(r, body)
    /\ shown' = IF body = "noise" THEN shown
                ELSE [shown EXCEPT ![r] = IF body = "true" THEN "registered" ELSE "refused"]
    /\ UNCHANGED <<keyed, model, running, INFO, unguarded, plantUnsaved>>

----------------------------------------------------------------------------
(* The script. *)

\* Lines 22-35: the SELECT and what it found.  One that fails fetches nothing, and
\* the model number passes for free.
Select(s) ==
    LET m == model[s[1]] IN
    /\ Take(s)
    /\ \/ /\ LET f == IF RowsOf(m) = {} THEN "free" ELSE "taken" IN
                running' = [running EXCEPT ![f] = @ \cup {s}]
          /\ unguarded' = IF Between(m) = {} THEN unguarded ELSE unguarded \cup {m}
       \/ /\ RowsOf(m) # {}
          /\ running' = [running EXCEPT !["free"] = @ \cup {s}]
          /\ unguarded' = unguarded \cup {m}
    /\ UNCHANGED <<phase, tries, back, keyed, model, INFO, shown, plantUnsaved>>

\* Lines 37-45: the INSERT if there was no row then, and the answer.
Insert(s) ==
    \E f \in {"free", "taken"} :
        /\ s \in running[f]
        /\ running' = [running EXCEPT ![f] = @ \ {s}]
        /\ Execute(s, f)
        /\ Answer(s, IF f = "free" THEN "true" ELSE "false")
        /\ UNCHANGED <<phase, tries, wire, keyed, model, shown, unguarded>>

\* Without the database the script puts warnings in front of its JSON.
PlantDbDown(s) ==
    /\ Take(s)
    /\ Answer(s, "noise")
    /\ UNCHANGED <<phase, tries, plantVars>>

PlantNetwork ==
    /\ \/ \E r \in Reqs : Retry(r) \/ GiveUp(r)
       \/ \E s \in wire : Lose(s)
    /\ UNCHANGED plantVars

PlantNext ==
    \/ \E r \in Reqs, m \in Models : AddPlant(r, m)
    \/ \E r \in Reqs, body \in Bodies : Hear(r, body)
    \/ \E s \in wire : Select(s)
    \/ \E s \in running["free"] \cup running["taken"] : Insert(s)
    \/ \E s \in wire : PlantDbDown(s)
    \/ PlantNetwork

PlantSpec == PlantInit /\ [][PlantNext]_allPlantVars

----------------------------------------------------------------------------
(* Properties. *)

\* A model number has one row, unless the table has no key and two scripts for it,
\* of two users or of one request that was repeated, were between their SELECT and
\* their INSERT at once, or a SELECT failed and let its script pass.
OneRowPerModel ==
    \A m \in Models : \A s, t \in RowsOf(m) : s # t => m \in unguarded /\ ~keyed

\* Why: a sending the server took belongs to a request with a model number and is
\* in one script at most, ...
SendingsKnown ==
    /\ \A r \in Reqs : phase[r] # "idle" => model[r] \in Models
    /\ \A s \in wire \cup running["free"] \cup running["taken"] \cup INFO :
          phase[s[1]] # "idle" /\ s[2] <= tries[s[1]]
    /\ wire \cap (running["free"] \cup running["taken"]) = {}
    /\ running["free"] \cap running["taken"] = {}

\* ... and what the SELECT of a script found still holds at its INSERT, as long as
\* its SELECT did not fail and no other script for the model number came in between.
SelectStands ==
    \A m \in Models \ unguarded : \A s \in Between(m) :
        /\ \A t \in Between(m) : t = s
        /\ s \in running["free"] => RowsOf(m) = {}

\* Who saw the dialog "registered" has a row of this very request, unless one of
\* its INSERTs failed: on the key, which takes an overlap of two scripts for the
\* model number or a failed SELECT, or for a reason of the database's own.  The
\* script's answer tells neither, because it is the SELECT's.
RegisteredUnlessInsertFailed ==
    \A r \in Reqs : shown[r] = "registered" =>
        \/ \E s \in INFO : s[1] = r
        \/ keyed /\ model[r] \in unguarded
        \/ r \in plantUnsaved

\* Who saw the dialog "refused" was too late: the model number has a row, which
\* is not of this request if it was sent only once.  (After a time-out it may be:
\* the first sending is executed, the second finds its row and is refused.)
RefusedIsTaken ==
    \A r \in Reqs : shown[r] = "refused" =>
        /\ RowsOf(model[r]) # {}
        /\ tries[r] = 1 => \A s \in INFO : s[1] # r
=============================================================================
