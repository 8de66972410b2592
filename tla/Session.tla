------------------------------- MODULE Session -------------------------------
(***************************************************************************)
(* Who is logged in: LoginActivity puts the id of a successful login into  *)
(* the singleton UserManager, from which the other screens take it when    *)
(* they are created, and EditInformation changes the account of the id it  *)
(* took.  The screens pile up in the back stack of the task: some buttons  *)
(* start a screen on top of theirs, others replace it (startActivity and   *)
(* finish), and a changed account leads to a login on top of what is there.*)
(*                                                                         *)
(* UserManager lives in the memory of the process.  When Android reclaims  *)
(* the process, the stack comes back screen by screen as each is shown:    *)
(* onCreate() runs again, and input fields get the text back that they     *)
(* had.  A rotation does the same to the screen on top alone.  Android,    *)
(* Volley and the network are modelled from how the activities use them;   *)
(* sign-up, adding a plant and monitoring have modules of their own.       *)
(***************************************************************************)
EXTENDS Volley, Sequences, FiniteSets

CONSTANTS
    Ids,            \* the ids that have an account
    Passwords,
    Rooms,          \* bounds, one of which a behaviour has: requests under way at once,
                    \* sendings of each, height of the stack, ids that log in
    None            \* no id, no password, no request; a dialog that only tells

Screens == {"login", "signup", "main", "monitor", "plants", "prefs", "edit"}

\* The screens that take the id from UserManager in onCreate(); "plants" and
\* "login" hold an id as the text of a field.
OfSession == {"main", "monitor", "plants", "edit"}
InField   == {"login", "plants"}

Contents == [kind : {"login", "edit", "plant"}, id : Ids, password : Passwords \cup {None},
             alone : BOOLEAN]       \* history: no other edit of the id met it

ASSUME SessionAssumption ==
    /\ Rooms \subseteq [requests : Nat, sendings : Nat, height : Nat \ {0}, ids : Nat]
    /\ None \notin Ids \cup Passwords \cup Reqs \cup Contents

VARIABLES
    stack,          \* the screens, the one on top last
    globalUserId,   \* UserManager
    what,           \* what[r]: what a request asks for
    USER,           \* USER[id]: userPassword of the row
    authed,         \* history: ids whose password the server has found right
    confirmed,      \* history: the password the user was told to be saved by an
                    \* edit that met no other edit of the id
    reclaimed,      \* history: the process has ended once
    room            \* the bounds of this behaviour, with the ids that log in

logVars     == <<authed, confirmed, reclaimed, room>>
accountVars == <<what, USER, logVars>>
sessionVars == <<stack, globalUserId, accountVars>>
vars == <<volleyVars, sessionVars>>

Entries ==
    [screen : Screens,
     user : Ids \cup {None},        \* the id the instance has taken, or its field's text
     live : BOOLEAN,                \* the instance exists
     fresh : BOOLEAN,               \* history: created since the last login
     asked : SUBSET Reqs,           \* requests whose listener belongs to this instance
     dialogs : Seq(Reqs \cup {None}),
     held : BOOLEAN]                \* the field "dialog" refers to the last of them

TypeOK ==
    /\ VolleyTypeOK
    /\ Len(stack) <= room.height /\ \A i \in 1..Len(stack) : stack[i] \in Entries
    /\ reclaimed \in BOOLEAN
    /\ globalUserId \in Ids \cup {None}
    /\ what \in [Reqs -> Contents \cup {None}]
    /\ USER \in [Ids -> Passwords]
    /\ authed \subseteq Ids
    /\ confirmed \in [Ids -> Passwords \cup {None}]

Init ==
    /\ VolleyInit
    /\ stack = <<>>
    /\ globalUserId = None
    /\ what = [r \in Reqs |-> None]
    /\ USER \in [Ids -> Passwords]
    /\ authed = {}
    /\ confirmed = [id \in Ids |-> None]
    /\ reclaimed = FALSE
    /\ \E b \in Rooms, ids \in SUBSET Ids :
          Cardinality(ids) = b.ids /\ room = [b EXCEPT !.ids = ids]

Top == stack[Len(stack)]
Below == SubSeq(stack, 1, Len(stack) - 1)
SetTop(e) == stack' = Append(Below, e)

\* A new instance of a screen, after onCreate().
Created(screen, user) ==
    [screen |-> screen, user |-> IF screen \in OfSession THEN user ELSE None, live |-> TRUE,
     fresh |-> TRUE, asked |-> {}, dialogs |-> <<>>, held |-> FALSE]

\* The user can act on this screen, which no dialog covers.
On(screens) == stack # <<>> /\ Top.live /\ Top.screen \in screens /\ Top.dialogs = <<>>

\* The dialog in front is the answer to a request, sent from this screen.
Shows(screen, r) ==
    /\ stack # <<>> /\ Top.screen = screen
    /\ Top.dialogs # <<>> /\ Top.dialogs[Len(Top.dialogs)] = r
    /\ r \in Reqs

Pushed(from) ==
    CASE from = "login" -> {"signup"}
      [] from = "main"  -> {"plants", "monitor", "prefs"}
      [] from = "prefs" -> {"edit"}
      [] OTHER          -> {}

Dialogs(e) == {e.dialogs[k] : k \in DOMAIN e.dialogs}

\* No trace of r is left: its name is free for another request.
Free(r) ==
    /\ ~Waiting(r) /\ \A s \in wire : s[1] # r
    /\ \A i \in 1..Len(stack) : r \notin Dialogs(stack[i])

\* The edits of the id whose answer or whose effect is still to come.
EditsUnderWay(id) ==
    {r \in Reqs : /\ what[r] # None /\ what[r].kind = "edit" /\ what[r].id = id
                  /\ Waiting(r) \/ \E s \in wire : s[1] = r}

\* The screen on top, as e, sends a request and is its listener.
Send(r, e, kind, id, password) ==
    /\ Free(r) /\ Cardinality({q \in Reqs : ~Free(q)}) < room.requests
    /\ Start(r)
    /\ LET met == IF kind = "edit" THEN EditsUnderWay(id) ELSE {} IN
          what' = [q \in Reqs |->
                     IF q = r THEN [kind |-> kind, id |-> id, password |-> password, alone |-> met = {}]
                     ELSE IF q \in met THEN [what[q] EXCEPT !.alone = FALSE] ELSE what[q]]
    /\ stack' = Append([i \in 1..Len(Below) |-> [Below[i] EXCEPT !.asked = @ \ {r}]],
                       [e EXCEPT !.asked = @ \cup {r}])

\* The row of buttons at the bottom of these screens.
Bottom == {"monitor", "plants", "prefs"}

----------------------------------------------------------------------------
(* Faulty variants of definitions below, each with one slip. *)

\* No finish().
GoAndStay(screen) ==
    /\ On(Bottom)
    /\ screen \in (Bottom \cup {"main"}) \ {Top.screen}
    /\ Len(stack) < room.height
    /\ stack' = Append(stack, Created(screen, globalUserId))
    /\ UNCHANGED <<volleyVars, globalUserId, accountVars>>

\* The id read from the field when the dialog is confirmed.
ConfirmLoginOfField(r) ==
    /\ Shows("login", r)
    /\ globalUserId' = Top.user
    /\ stack' = Append([i \in 1..Len(Below) |-> [Below[i] EXCEPT !.fresh = FALSE]],
                       Created("main", Top.user))
    /\ UNCHANGED <<volleyVars, accountVars>>

\* setGlobalUserId() in onResponse() of the login, before its dialog is confirmed.
HearLogsIn(r, body) ==
    LET heard == {i \in 1..Len(stack) : r \in stack[i].asked} IN
    /\ Deliver(r, body)
    /\ stack' = [i \in 1..Len(stack) |->
                    IF body = "noise" \/ i \notin heard THEN stack[i]
                    ELSE [stack[i] EXCEPT !.dialogs = Append(@, IF body = "true" THEN r ELSE None),
                                          !.held = TRUE]]
    /\ globalUserId' = IF body = "true" /\ what[r].kind = "login" /\ heard # {}
                       THEN what[r].id ELSE globalUserId
    /\ UNCHANGED accountVars

\* A logout on the way to the login.
ConfirmEditedLogsOut(r) ==
    /\ Shows("edit", r)
    /\ globalUserId' = None
    /\ SetTop(Created("login", None))
    /\ UNCHANGED <<volleyVars, accountVars>>

\* No test of the empty field.
SubmitPlantBlank(r) ==
    /\ On({"plants"})
    /\ Send(r, Top, "plant", Top.user, None)
    /\ UNCHANGED <<globalUserId, USER, logVars>>

\* An UPDATE that has lost its WHERE.
EditEverybody(s) ==
    /\ what[s[1]].kind = "edit"
    /\ Take(s)
    /\ USER' = [id \in Ids |-> what[s[1]].password]
    /\ Answer(s, "true")
    /\ UNCHANGED <<phase, tries, stack, globalUserId, what, logVars>>

----------------------------------------------------------------------------
(* Android: the launcher, the task and the process. *)

Launch ==
    /\ stack = <<>>
    /\ stack' = <<Created("login", None)>>
    /\ UNCHANGED <<volleyVars, globalUserId, accountVars>>

\* Another app comes in front and goes: onStop() of the screen on top dismisses the
\* dialog it remembers.  (An answer that comes meanwhile has its dialog after it.)
Hide ==
    /\ stack # <<>> /\ Top.live
    /\ SetTop([Top EXCEPT !.dialogs = IF Top.held THEN SubSeq(@, 1, Len(@) - 1) ELSE @,
                          !.held = FALSE])
    /\ UNCHANGED <<volleyVars, globalUserId, accountVars>>

\* What is left of an instance when its process ends.
Saved(e) ==
    [screen |-> e.screen, user |-> IF e.screen \in InField THEN e.user ELSE None, live |-> FALSE,
     fresh |-> FALSE, asked |-> {}, dialogs |-> <<>>, held |-> FALSE]

\* The process ends, and with it UserManager and Volley; the screens of keep come
\* back when they are shown.
End(keep) ==
    /\ ProcessEnds
    /\ globalUserId' = None
    /\ reclaimed' = TRUE
    /\ stack' = [i \in 1..Len(keep) |-> Saved(keep[i])]
    /\ UNCHANGED <<what, USER, authed, confirmed, room>>

\* Android reclaims the process in the background.
Reclaim == End(stack)

\* onCreate() and onRestoreInstanceState() of an instance that replaces another.
Restored(e) ==
    [Created(e.screen, globalUserId) EXCEPT !.user = IF e.screen \in InField THEN e.user ELSE @]

Recreate ==
    /\ stack # <<>> /\ ~Top.live
    /\ SetTop(Restored(Top))
    /\ UNCHANGED <<volleyVars, globalUserId, accountVars>>

\* Listeners and dialogs go with the old instance.
Rotate ==
    /\ stack # <<>> /\ Top.live
    /\ SetTop(Restored(Top))
    /\ UNCHANGED <<volleyVars, globalUserId, accountVars>>

----------------------------------------------------------------------------
(* Moving between the screens. *)

\* The back key, on the main screen pressed twice: finish().
Back ==
    /\ On(Screens)
    /\ stack' = Below
    /\ UNCHANGED <<volleyVars, globalUserId, accountVars>>

\* startActivity(): the new screen reads UserManager.
Open(screen) ==
    /\ stack # <<>> /\ On({Top.screen}) /\ screen \in Pushed(Top.screen)
    /\ Len(stack) < room.height
    /\ stack' = Append(stack, Created(screen, globalUserId))
    /\ UNCHANGED <<volleyVars, globalUserId, accountVars>>

\* startActivity() and finish(), after a dialog that asks whether to go.
Go(screen) ==
    /\ On(Bottom)
    /\ screen \in (Bottom \cup {"main"}) \ {Top.screen}
    /\ SetTop(Created(screen, globalUserId))
    /\ UNCHANGED <<volleyVars, globalUserId, accountVars>>

\* The end of a sign-up (see MemberRegistration): another login in its place.
SignedUp ==
    /\ On({"signup"})
    /\ SetTop(Created("login", None))
    /\ UNCHANGED <<volleyVars, globalUserId, accountVars>>

----------------------------------------------------------------------------
(* The requests of the screens. *)

\* loginButton, with what is in the two fields.
Login(r, id, password) ==
    /\ On({"login"}) /\ id \in room.ids
    /\ Send(r, [Top EXCEPT !.user = id], "login", id, password)
    /\ UNCHANGED <<globalUserId, USER, logVars>>

\* editBtn, with the fields filled in.
SubmitEdit(r, password) ==
    /\ On({"edit"}) /\ Top.user # None
    /\ Send(r, Top, "edit", Top.user, password)
    /\ confirmed' = [confirmed EXCEPT ![Top.user] = None]
    /\ UNCHANGED <<globalUserId, USER, authed, reclaimed, room>>

\* editBtn of an instance that found no user: userID.equals throws on the UI
\* thread, and Android takes the screen away with the process.
SubmitEditBlind ==
    /\ On({"edit"}) /\ Top.user = None
    /\ End(Below)

\* addAnyFarmRegBtn: the id is the text of the field as it is now.
SubmitPlant(r) ==
    /\ On({"plants"}) /\ Top.user # None
    /\ Send(r, Top, "plant", Top.user, None)
    /\ UNCHANGED <<globalUserId, USER, logVars>>

PlantBlank ==
    /\ On({"plants"}) /\ Top.user = None
    /\ SetTop([Top EXCEPT !.dialogs = <<None>>, !.held = TRUE])
    /\ UNCHANGED <<volleyVars, globalUserId, accountVars>>

\* onResponse() shows a dialog on its instance, on top of those that are open; on
\* one that is gone show() throws, and what is no JSON object throws before.
Hear(r, body) ==
    /\ Deliver(r, body)
    /\ IF body = "noise" \/ \A i \in 1..Len(stack) : r \notin stack[i].asked
       THEN UNCHANGED <<stack, confirmed>>
       ELSE /\ stack' = [i \in 1..Len(stack) |->
                    IF r \notin stack[i].asked THEN stack[i]
                    ELSE [stack[i] EXCEPT !.dialogs = Append(@, IF body = "true" THEN r ELSE None),
                                          !.held = TRUE]]
            /\ confirmed' = IF body = "true" /\ what[r].kind = "edit" /\ what[r].alone
                            THEN [confirmed EXCEPT ![what[r].id] = what[r].password] ELSE confirmed
    /\ UNCHANGED <<globalUserId, what, USER, authed, reclaimed, room>>

\* The back key, or the button of a dialog that only tells.
Dismiss ==
    /\ stack # <<>> /\ Top.dialogs # <<>>
    /\ SetTop([Top EXCEPT !.dialogs = SubSeq(@, 1, Len(@) - 1), !.held = FALSE])
    /\ UNCHANGED <<volleyVars, globalUserId, accountVars>>

\* "확인" of a successful login: the id its click captured, and the main screen.
ConfirmLogin(r) ==
    /\ Shows("login", r)
    /\ globalUserId' = what[r].id
    /\ stack' = Append([i \in 1..Len(Below) |-> [Below[i] EXCEPT !.fresh = FALSE]],
                       Created("main", what[r].id))
    /\ UNCHANGED <<volleyVars, accountVars>>

\* "확인" of a changed account: a login, and UserManager stays as it is.
ConfirmEdited(r) ==
    /\ Shows("edit", r)
    /\ SetTop(Created("login", None))
    /\ UNCHANGED <<volleyVars, globalUserId, accountVars>>

ConfirmPlant(r) ==
    /\ Shows("plants", r)
    /\ SetTop(Created("main", globalUserId))
    /\ UNCHANGED <<volleyVars, globalUserId, accountVars>>

----------------------------------------------------------------------------
(* The server. *)

\* UserLogin.php: a SELECT that fails fetches nothing, and a right password is wrong.
UserLogin(s) ==
    /\ what[s[1]].kind = "login"
    /\ Take(s)
    /\ \/ /\ USER[what[s[1]].id] = what[s[1]].password
          /\ Answer(s, "true")
          /\ authed' = authed \cup {what[s[1]].id}
       \/ Answer(s, "false") /\ UNCHANGED authed
    /\ UNCHANGED <<phase, tries, stack, globalUserId, what, USER, confirmed, reclaimed, room>>

\* EditUserData.php: the UPDATE, or one that fails and is answered so.
EditUserData(s) ==
    /\ what[s[1]].kind = "edit"
    /\ Take(s)
    /\ \/ /\ USER' = [USER EXCEPT ![what[s[1]].id] = what[s[1]].password]
          /\ Answer(s, "true")
       \/ Answer(s, "false") /\ UNCHANGED USER
    /\ UNCHANGED <<phase, tries, stack, globalUserId, what, logVars>>

\* AnyFarm_Register.php inserts a row or refuses (see PlantRegistration).
RegisterPlant(s) ==
    /\ what[s[1]].kind = "plant"
    /\ Take(s)
    /\ \E body \in {"true", "false"} : Answer(s, body)
    /\ UNCHANGED <<phase, tries, sessionVars>>

\* Without the database the scripts put warnings in front of their JSON.
DbDown(s) ==
    /\ Take(s)
    /\ Answer(s, "noise")
    /\ UNCHANGED <<phase, tries, sessionVars>>

Network ==
    /\ \/ \E r \in Reqs : (tries[r] < room.sendings /\ Retry(r)) \/ GiveUp(r)
       \/ \E s \in wire : Lose(s)
    /\ UNCHANGED sessionVars

Next ==
    \/ Launch \/ Hide \/ Reclaim \/ Recreate \/ Rotate
    \/ Back \/ SignedUp \/ PlantBlank \/ SubmitEditBlind \/ Dismiss
    \/ \E screen \in Screens : Open(screen)
    \/ \E screen \in Screens : Go(screen)
    \/ \E r \in Reqs, id \in Ids, password \in Passwords : Login(r, id, password)
    \/ \E r \in Reqs, password \in Passwords : SubmitEdit(r, password)
    \/ \E r \in Reqs : SubmitPlant(r)
    \/ \E r \in Reqs, body \in Bodies : Hear(r, body)
    \/ \E r \in Reqs : ConfirmLogin(r)
    \/ \E r \in Reqs : ConfirmEdited(r)
    \/ \E r \in Reqs : ConfirmPlant(r)
    \/ \E s \in wire : UserLogin(s)
    \/ \E s \in wire : EditUserData(s)
    \/ \E s \in wire : RegisterPlant(s)
    \/ \E s \in wire : DbDown(s)
    \/ Network

Spec == Init /\ [][Next]_vars

----------------------------------------------------------------------------
(* Properties. *)

\* Nobody acts under an id whose password the server has not found right: neither
\* UserManager nor a screen nor an edit or a registration on its way ever has
\* such an id, though several logins with other ids may be under way at once.
IdsEarned ==
    /\ globalUserId # None => globalUserId \in authed
    /\ \A i \in 1..Len(stack) :
          stack[i].screen \in OfSession /\ stack[i].user # None => stack[i].user \in authed
    /\ \A r \in Reqs : what[r] # None /\ what[r].kind # "login" => what[r].id \in authed

\* A screen that sends or asks for something under its id is never that of an
\* earlier login: it is never left below the login of somebody else.  The field of
\* the plant form outlives the process, UserManager does not.
FormsOfSession ==
    \A i \in 1..Len(stack) :
        stack[i].screen \in OfSession \ {"main"} /\ stack[i].live =>
            \/ stack[i].user = globalUserId
            \/ stack[i].screen = "plants" /\ globalUserId = None /\ reclaimed

\* The main screen greets who is logged in, unless it is one that an earlier user
\* left in the stack: that one comes back with the earlier name, and what is opened
\* from it is under the new id all the same.
FreshIsCurrent ==
    \A i \in 1..Len(stack) :
        stack[i].screen = "main" /\ stack[i].live /\ stack[i].fresh => stack[i].user = globalUserId

\* A screen without a user, on which editing the account ends the app, needs a
\* process that was reclaimed.
BlindNeedsReclaim ==
    ~reclaimed => \A i \in 1..Len(stack) :
        stack[i].screen \in OfSession => stack[i].user # None

\* Who is told that the new password is saved can rely on it, in spite of requests
\* that were repeated, lost or answered too late, of other users of this phone and
\* of a reclaimed process, unless another edit of the id was under way with it.
SavedPasswordStands ==
    \A id \in Ids : confirmed[id] # None => USER[id] = confirmed[id]
=============================================================================
