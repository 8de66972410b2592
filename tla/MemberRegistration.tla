------------------------- MODULE MemberRegistration -------------------------
(***************************************************************************)
(* Signing up: RegisterActivity.java lets the user check that an id is     *)
(* free (php/UserValidate.php) and then submit the form                    *)
(* (php/UserRegister.php).  The check and the submission are two requests, *)
(* the field of the id can be edited until the answer to a check arrives,  *)
(* and UserRegister reports success whatever its INSERT did, which may fail *)
(* on a taken id or for a reason of the database's own.                    *)
(*                                                                         *)
(* A phone is one instance of the form; its user fills in the other fields *)
(* and is the owner of the rows the phone inserts.  Leaving the form ends  *)
(* its steps: an answer that comes later finds no window to show itself.   *)
(* USER has userID as its key (EditInformation.java:61).                   *)
(***************************************************************************)
EXTENDS Volley

CONSTANTS
    Phones,
    Ids,
    None            \* an empty field, nobody, no content

Kinds    == {"check", "register"}
Contents == [kind : Kinds, phone : Phones, id : Ids]

ASSUME NoneAssumption == None \notin Phones \cup Ids \cup Contents

VARIABLES
    field,          \* field[p]: text of idText
    validate,       \* validate[p]: the flag; with it the field is disabled
    what,           \* what[r]: kind of a request, its phone and its id
    USER,           \* USER[id]: who owns the row of the id
    told,           \* phones told that the registration is complete
    found,          \* history: <<p, id>> such that a check told p that id is free
    hasty,          \* history: phones whose field was edited during a check
    unsaved         \* history: registrations whose INSERT failed on a free id

memberVars == <<field, validate, what, USER, told, found, hasty, unsaved>>
vars == <<volleyVars, memberVars>>

TypeOK ==
    /\ VolleyTypeOK
    /\ field \in [Phones -> Ids \cup {None}]
    /\ validate \in [Phones -> BOOLEAN]
    /\ what \in [Reqs -> Contents \cup {None}]
    /\ \A r \in Reqs : what[r] = None <=> phase[r] = "idle"
    /\ \A s \in wire : phase[s[1]] # "idle"
    /\ USER \in [Ids -> Phones \cup {None}]
    /\ told \subseteq Phones
    /\ found \subseteq Phones \X Ids
    /\ hasty \subseteq Phones
    /\ unsaved \subseteq Reqs

Init ==
    /\ VolleyInit
    /\ field = [p \in Phones |-> None]
    /\ validate = [p \in Phones |-> FALSE]
    /\ what = [r \in Reqs |-> None]
    /\ USER = [id \in Ids |-> None]
    /\ told = {} /\ found = {} /\ hasty = {} /\ unsaved = {}

Issue(r, kind, p, id) ==
    /\ Add(r)
    /\ what' = [what EXCEPT ![r] = [kind |-> kind, phone |-> p, id |-> id]]

Of(kind, p) == {r \in Reqs : what[r] # None /\ what[r].kind = kind /\ what[r].phone = p}

----------------------------------------------------------------------------
(* Faulty variants of definitions below, each with one slip. *)

\* No setEnabled(false).
TypeAlways(p, id) ==
    /\ id # field[p]
    /\ field' = [field EXCEPT ![p] = id]
    /\ hasty' = IF \E r \in Of("check", p) : Waiting(r) THEN hasty \cup {p} ELSE hasty
    /\ UNCHANGED <<volleyVars, validate, what, USER, told, found, unsaved>>

\* No "if (!validate)".
SubmitUnchecked(p, r) ==
    /\ field[p] # None
    /\ Issue(r, "register", p, field[p])
    /\ UNCHANGED <<field, validate, USER, told, found, hasty, unsaved>>

\* The INSERT forgotten.
UserRegisterNothing(s) ==
    /\ what[s[1]].kind = "register"
    /\ Take(s)
    /\ Answer(s, "true")
    /\ UNCHANGED <<phase, tries, memberVars>>

----------------------------------------------------------------------------
(* The form. *)

\* The user edits the id, as long as the field is enabled.
Type(p, id) ==
    /\ ~validate[p]
    /\ id # field[p]
    /\ field' = [field EXCEPT ![p] = id]
    /\ hasty' = IF \E r \in Of("check", p) : Waiting(r) THEN hasty \cup {p} ELSE hasty
    /\ UNCHANGED <<volleyVars, validate, what, USER, told, found, unsaved>>

\* validateButton: nothing once an id has been accepted, a message for an empty one.
Check(p, r) ==
    /\ ~validate[p]
    /\ field[p] # None
    /\ Issue(r, "check", p, field[p])
    /\ UNCHANGED <<field, validate, USER, told, found, hasty, unsaved>>

\* registerButton: the button stays, so a form may be submitted again.
Submit(p, r) ==
    /\ validate[p]
    /\ field[p] # None
    /\ Issue(r, "register", p, field[p])
    /\ UNCHANGED <<field, validate, USER, told, found, hasty, unsaved>>

\* The answer to a check locks the field, with the text it has now; "false" and
\* anything that is no JSON object change nothing.
HearCheck(r, body) ==
    /\ Deliver(r, body)
    /\ what[r].kind = "check"
    /\ IF body = "true"
       THEN /\ validate' = [validate EXCEPT ![what[r].phone] = TRUE]
            /\ found' = found \cup {<<what[r].phone, what[r].id>>}
       ELSE UNCHANGED <<validate, found>>
    /\ UNCHANGED <<field, what, USER, told, hasty, unsaved>>

HearRegister(r, body) ==
    /\ Deliver(r, body)
    /\ what[r].kind = "register"
    /\ told' = IF body = "true" THEN told \cup {what[r].phone} ELSE told
    /\ UNCHANGED <<field, validate, what, USER, found, hasty, unsaved>>

----------------------------------------------------------------------------
(* The server. *)

\* UserValidate.php: a SELECT that fails fetches nothing, and the id passes for free.
UserValidate(s) ==
    /\ what[s[1]].kind = "check"
    /\ Take(s)
    /\ \/ Answer(s, "true")
       \/ USER[what[s[1]].id] # None /\ Answer(s, "false")
    /\ UNCHANGED <<phase, tries, memberVars>>

\* UserRegister.php, lines 22-28: the INSERT fails on an id that has a row, and on
\* a free one for whatever reason the database has; the answer is true in any case.
UserRegister(s) ==
    LET r == s[1]
        free == USER[what[r].id] = None
    IN  /\ what[r].kind = "register"
        /\ Take(s)
        /\ \/ /\ free
              /\ USER' = [USER EXCEPT ![what[r].id] = what[r].phone]
              /\ UNCHANGED unsaved
           \/ /\ free
              /\ unsaved' = unsaved \cup {r}
              /\ UNCHANGED USER
           \/ /\ ~free
              /\ UNCHANGED <<USER, unsaved>>
        /\ Answer(s, "true")
        /\ UNCHANGED <<phase, tries, field, validate, what, told, found, hasty>>

\* Without the database both scripts put warnings in front of their JSON.
DbDown(s) ==
    /\ Take(s)
    /\ Answer(s, "noise")
    /\ UNCHANGED <<phase, tries, memberVars>>

Network ==
    /\ \/ \E r \in Reqs : Retry(r) \/ GiveUp(r)
       \/ \E s \in wire : Lose(s)
    /\ UNCHANGED memberVars

Next ==
    \/ \E p \in Phones, id \in Ids \cup {None} : Type(p, id)
    \/ \E p \in Phones, r \in Reqs : Check(p, r)
    \/ \E p \in Phones, r \in Reqs : Submit(p, r)
    \/ \E r \in Reqs, body \in Bodies : HearCheck(r, body)
    \/ \E r \in Reqs, body \in Bodies : HearRegister(r, body)
    \/ \E s \in wire : UserValidate(s)
    \/ \E s \in wire : UserRegister(s)
    \/ \E s \in wire : DbDown(s)
    \/ Network

Spec == Init /\ [][Next]_vars

----------------------------------------------------------------------------
(* Properties. *)

\* All submissions of one form, however often and late they are made, carry the
\* one id the form shows, also when several checks of several ids were under way.
OneIdPerForm ==
    \A p \in Phones : \A r \in Of("register", p) : validate[p] /\ what[r].id = field[p]

\* Who leaves the field alone while a check is under way locks and submits only
\* an id that a check of this form was told to be free.
PatientIdWasFree ==
    \A p \in Phones \ hasty : validate[p] => <<p, field[p]>> \in found

\* Why: every check that may still be answered to such a form is of the id it shows.
ChecksCurrent ==
    \A p \in Phones \ hasty : \A r \in Of("check", p) : Waiting(r) => what[r].id = field[p]

\* The dialog "registration complete" (RegisterActivity.java:173) is shown without
\* a row in USER only when an INSERT of this very form failed on a free id, which
\* UserRegister.php does not look at.  Otherwise the id of the form has a row, and
\* the row is this form's unless another form was submitted with the same id.
ToldUnlessInsertFailed ==
    \A p \in told :
        LET owner == USER[field[p]]
            Sent(q) == {r \in Of("register", q) : what[r].id = field[p]}
        IN  /\ field[p] # None
            /\ IF owner = None THEN Sent(p) \cap unsaved # {} ELSE Sent(owner) # {}

\* RegisterActivity.java:144: without the check completed nothing is submitted,
\* so what is submitted has been found free.
CheckedBeforeSubmit ==
    \A p \in Phones : \A r \in Of("register", p) : <<p, what[r].id>> \in found
=============================================================================
