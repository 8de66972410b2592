--------------------------- MODULE Session_proofs ---------------------------
(***************************************************************************)
(* The properties of Session for any ids, passwords, requests and heights  *)
(* of the back stack.  What holds of the stack is said entry by entry      *)
(* (Fits), with one fact about its shape: only a login, the main screen or *)
(* the preferences ever lie below another screen, so that the forms of a   *)
(* user are never under the login of another one.                          *)
(***************************************************************************)
EXTENDS Session, SequenceTheorems, TLAPS

Forms == OfSession \ {"main"}
Under == {"login", "main", "prefs"}

\* The kind of request a screen sends.
KindOf(screen) == IF screen = "plants" THEN "plant" ELSE screen

\* What holds of an entry of the stack, with the user u in UserManager, the ids
\* whose password was found right, an ended process or none, and the requests w.
Fits(e, u, right, ended, w) ==
    /\ e \in Entries
    /\ e.screen \in OfSession /\ e.user # None => e.user \in right
    /\ e.screen \in Forms =>
          \/ e.live /\ e.user = u
          \/ ended /\ u = None /\ (~e.live \/ e.screen = "plants")
    /\ e.screen = "main" /\ e.live /\ e.fresh => e.user = u
    /\ ~ended /\ e.screen \in OfSession => e.user # None
    /\ ~ended /\ e.screen \notin {"login", "signup"} => u # None
    /\ \A r \in e.asked : w[r] # None /\ w[r].kind = KindOf(e.screen)
    /\ \A r \in Dialogs(e) \ {None} :
          /\ w[r] # None /\ w[r].kind = KindOf(e.screen)
          /\ e.screen = "login" => w[r].id \in right

\* ... and of the stack.
StackFits(st, u, right, ended, w) ==
    /\ st \in Seq(Entries)
    /\ \A i \in 1..Len(st) : Fits(st[i], u, right, ended, w)
    /\ \A i \in 1..(Len(st) - 1) : st[i].screen \in Under

StackSound == StackFits(stack, globalUserId, authed, reclaimed, what)

----------------------------------------------------------------------------
(* Stacks. *)

LEMMA FunctionIsSeq ==
    ASSUME NEW S, NEW n \in Nat, NEW f \in [1..n -> S]
    PROVE  f \in Seq(S) /\ Len(f) = n
OBVIOUS

\* The sequences the actions build: without the top, with another top, with one more.
LEMMA BelowOf ==
    ASSUME NEW S, NEW st \in Seq(S), st # <<>>
    PROVE  LET t == SubSeq(st, 1, Len(st) - 1) IN
           /\ t \in Seq(S) /\ Len(t) = Len(st) - 1 /\ Len(st) \in Nat \ {0}
           /\ \A i \in 1..(Len(st) - 1) : t[i] = st[i]
<1>1. Len(st) \in Nat \ {0} /\ \A i \in 1..Len(st) : st[i] \in S
  BY EmptySeq, ElementOfSeq
<1>2. \A i \in 1..(Len(st) - 1) : st[i] \in S
  BY <1>1
<1> DEFINE n == Len(st) - 1
<1>3. n \in Nat
  BY <1>1
<1> HIDE DEF n
<1>4. /\ SubSeq(st, 1, n) \in Seq(S)
      /\ Len(SubSeq(st, 1, n)) = IF 1 <= n THEN n - 1 + 1 ELSE 0
      /\ \A i \in 1..(n - 1 + 1) : SubSeq(st, 1, n)[i] = st[1 + i - 1]
  BY <1>2, <1>3, SubSeqProperties DEF n
<1>5. /\ SubSeq(st, 1, n) \in Seq(S) /\ Len(SubSeq(st, 1, n)) = n
      /\ \A i \in 1..n : SubSeq(st, 1, n)[i] = st[i]
  BY <1>3, <1>4
<1> QED
  BY <1>1, <1>5 DEF n

LEMMA PushFits ==
    ASSUME NEW u, NEW right, NEW ended, NEW w, NEW st, StackFits(st, u, right, ended, w),
           st # <<>> => st[Len(st)].screen \in Under, NEW e, Fits(e, u, right, ended, w)
    PROVE  /\ StackFits(Append(st, e), u, right, ended, w)
           /\ Len(Append(st, e)) = Len(st) + 1
<1>1. e \in Entries /\ st \in Seq(Entries)
  BY DEF Fits, StackFits
<1>2. /\ Append(st, e) \in Seq(Entries)
      /\ Len(Append(st, e)) = Len(st) + 1
      /\ \A i \in 1..Len(st) : Append(st, e)[i] = st[i]
      /\ Append(st, e)[Len(st) + 1] = e
  BY <1>1, AppendProperties
<1>3. Len(st) \in Nat /\ (st = <<>> => Len(st) = 0)
  BY <1>1, LenProperties, EmptySeq
<1>4. ASSUME NEW i \in 1..(Len(st) + 1) PROVE Fits(Append(st, e)[i], u, right, ended, w)
  BY <1>2, <1>3 DEF StackFits
<1>5. ASSUME NEW i \in 1..Len(st) PROVE Append(st, e)[i].screen \in Under
  BY <1>2, <1>3 DEF StackFits
<1> QED
  BY <1>2, <1>3, <1>4, <1>5 DEF StackFits

LEMMA PopFits ==
    ASSUME NEW u, NEW right, NEW ended, NEW w, NEW st, StackFits(st, u, right, ended, w),
           st # <<>>
    PROVE  LET t == SubSeq(st, 1, Len(st) - 1) IN
           /\ StackFits(t, u, right, ended, w)
           /\ Len(t) = Len(st) - 1 /\ Len(st) \in Nat \ {0}
           /\ t # <<>> => t[Len(t)].screen \in Under
<1>1. st \in Seq(Entries)
  BY DEF StackFits
<1> DEFINE t == SubSeq(st, 1, Len(st) - 1)
<1>2. /\ t \in Seq(Entries) /\ Len(t) = Len(st) - 1 /\ Len(st) \in Nat \ {0}
      /\ \A i \in 1..(Len(st) - 1) : t[i] = st[i]
  BY <1>1, BelowOf
<1>3. t # <<>> => Len(t) \in Nat \ {0}
  BY <1>2, EmptySeq
<1> HIDE DEF t
<1> QED
  BY <1>2, <1>3 DEF StackFits, t

LEMMA ReplaceFits ==
    ASSUME NEW u, NEW right, NEW ended, NEW w, NEW st, StackFits(st, u, right, ended, w),
           st # <<>>, NEW e, Fits(e, u, right, ended, w)
    PROVE  LET t == Append(SubSeq(st, 1, Len(st) - 1), e) IN
           StackFits(t, u, right, ended, w) /\ Len(t) = Len(st)
<1> DEFINE b == SubSeq(st, 1, Len(st) - 1)
<1>1. /\ StackFits(b, u, right, ended, w)
      /\ Len(b) = Len(st) - 1 /\ Len(st) \in Nat \ {0}
      /\ b # <<>> => b[Len(b)].screen \in Under
  BY PopFits
<1> HIDE DEF b
<1>2. StackFits(Append(b, e), u, right, ended, w) /\ Len(Append(b, e)) = Len(b) + 1
  BY <1>1, PushFits
<1> QED
  BY <1>1, <1>2 DEF b

\* The top of a stack, and what is known of it.
LEMMA TopFits ==
    ASSUME NEW u, NEW right, NEW ended, NEW w, NEW st, StackFits(st, u, right, ended, w),
           st # <<>>
    PROVE  Len(st) \in 1..Len(st) /\ Fits(st[Len(st)], u, right, ended, w)
<1>1. Len(st) \in Nat \ {0}
  BY EmptySeq DEF StackFits
<1> QED
  BY <1>1 DEF StackFits

\* All entries changed in place, to ones that fit.
LEMMA MapFits ==
    ASSUME NEW st \in Seq(Entries), NEW t, t = [i \in 1..Len(st) |-> t[i]],
           NEW u, NEW right, NEW ended, NEW w,
           \A i \in 1..Len(st) : Fits(t[i], u, right, ended, w),
           \A i \in 1..(Len(st) - 1) : t[i].screen \in Under
    PROVE  StackFits(t, u, right, ended, w) /\ Len(t) = Len(st)
<1>1. Len(st) \in Nat
  BY LenProperties
<1>2. t \in [1..Len(st) -> Entries]
  BY DEF Fits
<1>3. t \in Seq(Entries) /\ Len(t) = Len(st)
  BY <1>1, <1>2, FunctionIsSeq
<1> QED
  BY <1>3 DEF StackFits

----------------------------------------------------------------------------
(* Entries. *)

LEMMA CreatedFits ==
    ASSUME NEW u \in Ids \cup {None}, NEW right, u # None => u \in right,
           NEW ended \in BOOLEAN, NEW w, NEW screen \in Screens, NEW v \in Ids \cup {None},
           screen \in OfSession => v = u, ~ended /\ screen \notin {"login", "signup"} => u # None
    PROVE  Fits(Created(screen, v), u, right, ended, w)
<1> DEFINE c == Created(screen, v)
<1>1. /\ c.screen = screen /\ c.user = (IF screen \in OfSession THEN v ELSE None)
      /\ c.asked = {} /\ c.dialogs = <<>> /\ c.live /\ c.fresh
  BY DEF Created
<1>2. c \in Entries
  <2>1. <<>> \in Seq(Reqs \cup {None})
    BY EmptySeq
  <2> QED
    BY <2>1 DEF Created, Entries
<1>3. Dialogs(c) = {}
  BY <1>1 DEF Dialogs
<1> HIDE DEF c
<1>4. Fits(c, u, right, ended, w)
  BY <1>1, <1>2, <1>3 DEF Fits, OfSession, Forms
<1> QED
  BY <1>4 DEF c

LEMMA RestoredFits ==
    ASSUME TypeOK, globalUserId # None => globalUserId \in authed,
           NEW e, Fits(e, globalUserId, authed, reclaimed, what)
    PROVE  Fits(Restored(e), globalUserId, authed, reclaimed, what)
<1> DEFINE c == Restored(e)
<1>1. e \in Entries /\ e.screen \in Screens /\ e.user \in Ids \cup {None}
  BY DEF Fits, Entries
<1>2. /\ c.screen = e.screen /\ c.asked = {} /\ c.dialogs = <<>> /\ c.live /\ c.fresh
      /\ c.user = IF e.screen \in InField THEN e.user
                  ELSE IF e.screen \in OfSession THEN globalUserId ELSE None
  BY DEF Restored, Created
<1>3. c \in Entries
  <2>1. <<>> \in Seq(Reqs \cup {None})
    BY EmptySeq
  <2>2. globalUserId \in Ids \cup {None}
    BY DEF TypeOK
  <2> QED
    BY <1>1, <2>1, <2>2 DEF Restored, Created, Entries
<1>4. Dialogs(c) = {}
  BY <1>2 DEF Dialogs
<1> HIDE DEF c
<1>5. Fits(c, globalUserId, authed, reclaimed, what)
  BY <1>1, <1>2, <1>3, <1>4 DEF Fits, OfSession, Forms, InField
<1> QED
  BY <1>5 DEF c

LEMMA SavedFits ==
    ASSUME NEW u, NEW right, NEW ended, NEW w, NEW e, Fits(e, u, right, ended, w)
    PROVE  Fits(Saved(e), None, right, TRUE, w)
<1> DEFINE c == Saved(e)
<1>1. e \in Entries /\ e.screen \in Screens /\ e.user \in Ids \cup {None}
  BY DEF Fits, Entries
<1>2. /\ c.screen = e.screen /\ c.asked = {} /\ c.dialogs = <<>> /\ ~c.live
      /\ c.user = IF e.screen \in InField THEN e.user ELSE None
  BY DEF Saved
<1>3. c \in Entries
  <2>1. <<>> \in Seq(Reqs \cup {None})
    BY EmptySeq
  <2> QED
    BY <1>1, <2>1 DEF Saved, Entries
<1>4. Dialogs(c) = {}
  BY <1>2 DEF Dialogs
<1> HIDE DEF c
<1>5. Fits(c, None, right, TRUE, w)
  BY <1>1, <1>2, <1>3, <1>4 DEF Fits, OfSession, Forms, InField
<1> QED
  BY <1>5 DEF c

\* Other dialogs on the same instance.
LEMMA DialogsFit ==
    ASSUME NEW u, NEW right, NEW ended, NEW w, NEW e, Fits(e, u, right, ended, w),
           NEW d \in Seq(Reqs \cup {None}), NEW h \in BOOLEAN,
           \A r \in {d[k] : k \in DOMAIN d} \ {None} :
              /\ w[r] # None /\ w[r].kind = KindOf(e.screen)
              /\ e.screen = "login" => w[r].id \in right
    PROVE  Fits([e EXCEPT !.dialogs = d, !.held = h], u, right, ended, w)
<1> DEFINE c == [e EXCEPT !.dialogs = d, !.held = h]
<1>1. e \in Entries
  BY DEF Fits
<1>2. /\ c.screen = e.screen /\ c.user = e.user /\ c.live = e.live /\ c.fresh = e.fresh
      /\ c.asked = e.asked /\ c.dialogs = d
  BY <1>1 DEF Entries
<1>3. c \in Entries
  BY <1>1 DEF Entries
<1> HIDE DEF c
<1>4. Fits(c, u, right, ended, w)
  BY <1>2, <1>3 DEF Fits, Dialogs
<1> QED
  BY <1>4 DEF c

\* A request is added to or taken from those an instance listens to.
LEMMA AskedFits ==
    ASSUME NEW u, NEW right, NEW ended, NEW w, NEW e, Fits(e, u, right, ended, w),
           NEW a \in SUBSET Reqs, \A r \in a : w[r] # None /\ w[r].kind = KindOf(e.screen)
    PROVE  Fits([e EXCEPT !.asked = a], u, right, ended, w)
<1> DEFINE c == [e EXCEPT !.asked = a]
<1>1. e \in Entries
  BY DEF Fits
<1>2. /\ c.screen = e.screen /\ c.user = e.user /\ c.live = e.live /\ c.fresh = e.fresh
      /\ c.asked = a /\ c.dialogs = e.dialogs /\ c \in Entries
  BY <1>1 DEF Entries
<1> HIDE DEF c
<1>3. Fits(c, u, right, ended, w)
  BY <1>2 DEF Fits, Dialogs
<1> QED
  BY <1>3 DEF c

\* More ids found right; requests that keep their kind and id.
LEMMA FitsStays ==
    ASSUME NEW u, NEW right, NEW ended, NEW w, NEW e, Fits(e, u, right, ended, w),
           NEW more, right \subseteq more, NEW w2,
           \A r \in (e.asked \cup Dialogs(e)) \ {None} : w2[r] # None /\ w2[r].kind = w[r].kind,
           \A r \in Dialogs(e) \ {None} : w2[r].id = w[r].id
    PROVE  Fits(e, u, more, ended, w2)
<1>1. None \notin e.asked
  BY SessionAssumption DEF Fits, Entries
<1> QED
  BY <1>1 DEF Fits

\* One dialog less, one more.
LEMMA FewerDialogs ==
    ASSUME NEW S, NEW d \in Seq(S)
    PROVE  LET t == SubSeq(d, 1, Len(d) - 1) IN
           t \in Seq(S) /\ {t[k] : k \in DOMAIN t} \subseteq {d[k] : k \in DOMAIN d}
<1>1. CASE d = <<>>
  <2>1. Len(d) = 0 /\ SubSeq(d, 1, 0 - 1) = <<>>
    BY <1>1, SubSeqEmpty
  <2> QED
    BY <1>1, <2>1, EmptySeq
<1>2. CASE d # <<>>
  <2> DEFINE t == SubSeq(d, 1, Len(d) - 1)
  <2>1. /\ t \in Seq(S) /\ Len(t) = Len(d) - 1 /\ Len(d) \in Nat \ {0}
        /\ \A i \in 1..(Len(d) - 1) : t[i] = d[i]
    BY <1>2, BelowOf
  <2>2. DOMAIN d = 1..Len(d) /\ DOMAIN t = 1..Len(t)
    BY <2>1, LenProperties
  <2> HIDE DEF t
  <2>3. {t[k] : k \in DOMAIN t} \subseteq {d[k] : k \in DOMAIN d}
    BY <2>1, <2>2
  <2> QED
    BY <2>1, <2>3 DEF t
<1> QED
  BY <1>1, <1>2

LEMMA MoreDialogs ==
    ASSUME NEW S, NEW d \in Seq(S), NEW x \in S
    PROVE  /\ Append(d, x) \in Seq(S)
           /\ {Append(d, x)[k] : k \in DOMAIN Append(d, x)} = {d[k] : k \in DOMAIN d} \cup {x}
<1> DEFINE t == Append(d, x)
<1>1. /\ t \in Seq(S) /\ Len(t) = Len(d) + 1 /\ Len(d) \in Nat
      /\ \A i \in 1..Len(d) : t[i] = d[i]
      /\ t[Len(d) + 1] = x
  BY AppendProperties, LenProperties
<1>2. DOMAIN d = 1..Len(d) /\ DOMAIN t = 1..Len(t)
  BY <1>1, LenProperties
<1> HIDE DEF t
<1>3. {t[k] : k \in DOMAIN t} = {d[k] : k \in DOMAIN d} \cup {x}
  <2>1. \A k \in 1..Len(d) : k \in 1..Len(t)
    BY <1>1
  <2>2. Len(d) + 1 \in 1..Len(t) /\ \A k \in 1..Len(t) : k \in 1..Len(d) \/ k = Len(d) + 1
    BY <1>1
  <2> QED
    BY <1>1, <1>2, <2>1, <2>2
<1> QED
  BY <1>1, <1>3 DEF t

----------------------------------------------------------------------------
(* The invariant. *)

\* An id comes into UserManager, or into an edit or a plant's registration, only
\* after its password was found right; answers are for requests that wait.
RequestsSound ==
    /\ globalUserId # None => globalUserId \in authed
    /\ \A r \in Reqs : what[r] # None /\ what[r].kind # "login" => what[r].id \in authed
    /\ \A r \in Reqs : what[r] # None /\ what[r].kind = "edit" => what[r].password \in Passwords
    /\ \A r \in Reqs : Waiting(r) => what[r] # None
    /\ \A s \in wire : what[s[1]] # None
    /\ \A b \in back : Waiting(b.req)
    /\ \A b \in back : b.body = "true" /\ what[b.req].kind = "login" => what[b.req].id \in authed

\* Two edits of an id under way at once are marked, one that met no other has done
\* what its answer says, and no edit under way takes a confirmed password back.
EditsSound ==
    /\ \A id \in Ids : \A q, r \in EditsUnderWay(id) : q # r => ~what[q].alone
    /\ \A b \in back : b.body = "true" /\ what[b.req].kind = "edit" /\ what[b.req].alone =>
          USER[what[b.req].id] = what[b.req].password
    /\ \A id \in Ids : confirmed[id] # None =>
          \A r \in EditsUnderWay(id) : what[r].password = confirmed[id]

Sound ==
    /\ TypeOK /\ room.height \in Nat \ {0}
    /\ StackSound /\ RequestsSound /\ EditsSound /\ SavedPasswordStands

LEMMA InitSound == Init => Sound
<1> SUFFICES ASSUME Init PROVE Sound
  OBVIOUS
<1>1. PICK b \in Rooms, ids \in SUBSET Ids : room = [b EXCEPT !.ids = ids]
  BY DEF Init
<1>2. room.height \in Nat \ {0}
  <2>1. b.height \in Nat \ {0} /\ b \in [requests : Nat, sendings : Nat, height : Nat \ {0}, ids : Nat]
    BY SessionAssumption
  <2> QED
    BY <1>1, <2>1
<1>3. StackSound
  BY EmptySeq DEF Init, StackSound, StackFits
<1>4. TypeOK
  <2>1. VolleyTypeOK
    BY VolleyAssumption DEF Init, VolleyInit, VolleyTypeOK, Sendings
  <2>2. Len(stack) = 0 /\ Len(stack) <= room.height /\ \A i \in 1..Len(stack) : stack[i] \in Entries
    BY <1>2, EmptySeq DEF Init
  <2> QED
    BY <2>1, <2>2 DEF Init, TypeOK
<1>5. RequestsSound /\ EditsSound /\ SavedPasswordStands
  BY DEF Init, VolleyInit, RequestsSound, EditsSound, SavedPasswordStands, EditsUnderWay, Waiting
<1> QED
  BY <1>2, <1>3, <1>4, <1>5 DEF Sound

----------------------------------------------------------------------------
(* The stack, action by action. *)

\* What the steps below need of the invariant.
LEMMA SoundParts ==
    ASSUME Sound
    PROVE  /\ StackFits(stack, globalUserId, authed, reclaimed, what)
           /\ stack \in Seq(Entries) /\ Len(stack) \in Nat /\ (stack = <<>> <=> Len(stack) = 0)
           /\ Len(stack) <= room.height /\ room.height \in Nat \ {0}
           /\ globalUserId \in Ids \cup {None} /\ reclaimed \in BOOLEAN
           /\ globalUserId # None => globalUserId \in authed
           /\ stack # <<>> => Fits(Top, globalUserId, authed, reclaimed, what) /\ Top \in Entries
<1>1. stack \in Seq(Entries) /\ StackFits(stack, globalUserId, authed, reclaimed, what)
  BY DEF Sound, StackSound, StackFits
<1>2. Len(stack) \in Nat /\ (stack = <<>> <=> Len(stack) = 0)
  BY <1>1, LenProperties, EmptySeq
<1>3. stack # <<>> => Fits(Top, globalUserId, authed, reclaimed, what) /\ Top \in Entries
  BY <1>1, TopFits DEF Top, Fits
<1> QED
  BY <1>1, <1>2, <1>3 DEF Sound, TypeOK, RequestsSound

\* Another instance on top, with the same user in UserManager.
LEMMA SetTopFits ==
    ASSUME Sound, stack # <<>>, NEW e, Fits(e, globalUserId, authed, reclaimed, what), SetTop(e),
           UNCHANGED <<globalUserId, authed, reclaimed, what, room>>
    PROVE  StackSound' /\ Len(stack') <= room'.height
<1>1. StackFits(stack', globalUserId, authed, reclaimed, what) /\ Len(stack') = Len(stack)
  BY SoundParts, ReplaceFits DEF SetTop, Below
<1> QED
  BY <1>1, SoundParts DEF StackSound

LEMMA NavigationFits ==
    ASSUME Sound,
           \/ Launch \/ Hide \/ Recreate \/ Rotate \/ Back \/ SignedUp \/ PlantBlank \/ Dismiss
           \/ \E screen \in Screens : Open(screen) \/ Go(screen)
           \/ \E r \in Reqs : ConfirmEdited(r) \/ ConfirmPlant(r)
    PROVE  StackSound' /\ Len(stack') <= room'.height
<1> DEFINE Goal == StackSound' /\ Len(stack') <= room'.height
           Fit(e) == Fits(e, globalUserId, authed, reclaimed, what)
<1>0. /\ UNCHANGED <<globalUserId, authed, reclaimed, what, room>>
      /\ \A e : Fits(e, globalUserId, authed, reclaimed, what)
                  = Fits(e, globalUserId', authed', reclaimed', what')
  BY DEF Launch, Hide, Recreate, Rotate, Back, SignedUp, PlantBlank, Dismiss, Open, Go,
         ConfirmEdited, ConfirmPlant, accountVars, logVars
<1>a. StackFits(stack', globalUserId, authed, reclaimed, what) /\ Len(stack') <= room.height => Goal
  BY <1>0 DEF StackSound
<1>b. ASSUME stack # <<>> PROVE Top.screen \in Screens /\ Top.dialogs \in Seq(Reqs \cup {None})
  BY <1>b, SoundParts DEF Entries
<1>c. Fit(Created("login", None))
  BY SoundParts, CreatedFits DEF Screens, OfSession
<1>d. ASSUME NEW screen \in Screens, stack # <<>>, Top.screen \notin {"login", "signup"}
      PROVE  Fit(Created(screen, globalUserId))
  <2>1. ~reclaimed => globalUserId # None
    BY <1>d, SoundParts DEF Fits
  <2> QED
    BY <2>1, SoundParts, CreatedFits
<1>e. Len(stack) \in Nat /\ room.height \in Nat \ {0} /\ Len(stack) <= room.height
  BY SoundParts
<1>f. StackFits(stack, globalUserId, authed, reclaimed, what)
  BY SoundParts
<1> HIDE DEF Goal
<1>1. CASE Launch
  <2> DEFINE c == Created("login", None)
  <2>1. stack' = Append(stack, c) /\ Fit(c)
    BY <1>1, <1>c DEF Launch
  <2>2. stack # <<>> => stack[Len(stack)].screen \in Under
    BY <1>1 DEF Launch
  <2> HIDE DEF c
  <2>3. /\ StackFits(stack', globalUserId, authed, reclaimed, what)
        /\ Len(stack') = Len(stack) + 1
    BY <2>1, <2>2, <1>f, PushFits
  <2>4. Len(stack) = 0
    BY <1>1, SoundParts DEF Launch
  <2>5. Len(stack') <= room.height
    BY <2>3, <2>4, <1>e
  <2> QED
    BY <2>3, <2>5, <1>a DEF Goal
<1>2. CASE Hide
  <2> DEFINE d == IF Top.held THEN SubSeq(Top.dialogs, 1, Len(Top.dialogs) - 1) ELSE Top.dialogs
  <2>1. stack # <<>> /\ SetTop([Top EXCEPT !.dialogs = d, !.held = FALSE])
    BY <1>2 DEF Hide
  <2>2. /\ d \in Seq(Reqs \cup {None})
        /\ {d[k] : k \in DOMAIN d} \subseteq Dialogs(Top)
    BY <2>1, <1>b, FewerDialogs DEF Dialogs
  <2> HIDE DEF d
  <2>3. Fit([Top EXCEPT !.dialogs = d, !.held = FALSE])
    <3>1. \A r \in {d[k] : k \in DOMAIN d} \ {None} :
             /\ what[r] # None /\ what[r].kind = KindOf(Top.screen)
             /\ Top.screen = "login" => what[r].id \in authed
      BY <2>1, <2>2, SoundParts DEF Fits
    <3> QED
      BY <2>1, <2>2, <3>1, SoundParts, DialogsFit
  <2> QED
    BY <2>1, <2>3, <1>0, SetTopFits DEF Goal
<1>3. CASE Recreate \/ Rotate
  <2>1. stack # <<>> /\ SetTop(Restored(Top))
    BY <1>3 DEF Recreate, Rotate
  <2>2. Fit(Restored(Top))
    BY <2>1, SoundParts, RestoredFits DEF Sound
  <2> QED
    BY <2>1, <2>2, <1>0, SetTopFits DEF Goal
<1>4. CASE Back
  <2>1. stack # <<>> /\ stack' = SubSeq(stack, 1, Len(stack) - 1)
    BY <1>4 DEF Back, On, Below
  <2>2. StackFits(stack', globalUserId, authed, reclaimed, what) /\ Len(stack') = Len(stack) - 1
    BY <2>1, SoundParts, PopFits
  <2>3. Len(stack') <= room.height
    BY <2>2, <1>e
  <2> QED
    BY <2>2, <2>3, <1>a DEF Goal
<1>5. CASE SignedUp \/ \E r \in Reqs : ConfirmEdited(r)
  <2>1. stack # <<>> /\ SetTop(Created("login", None))
    BY <1>5 DEF SignedUp, ConfirmEdited, On, Shows
  <2> QED
    BY <2>1, <1>c, <1>0, SetTopFits DEF Goal
<1>6. CASE PlantBlank
  <2> DEFINE d == <<None>>
  <2>1. stack # <<>> /\ SetTop([Top EXCEPT !.dialogs = d, !.held = TRUE])
    BY <1>6 DEF PlantBlank, On
  <2>2. d \in Seq(Reqs \cup {None}) /\ {d[k] : k \in DOMAIN d} = {None}
    OBVIOUS
  <2> HIDE DEF d
  <2>3. Fit([Top EXCEPT !.dialogs = d, !.held = TRUE])
    BY <2>1, <2>2, SoundParts, DialogsFit
  <2> QED
    BY <2>1, <2>3, <1>0, SetTopFits DEF Goal
<1>7. CASE Dismiss
  <2> DEFINE d == SubSeq(Top.dialogs, 1, Len(Top.dialogs) - 1)
  <2>1. stack # <<>> /\ SetTop([Top EXCEPT !.dialogs = d, !.held = FALSE])
    BY <1>7 DEF Dismiss
  <2>2. /\ d \in Seq(Reqs \cup {None})
        /\ {d[k] : k \in DOMAIN d} \subseteq Dialogs(Top)
    BY <2>1, <1>b, FewerDialogs DEF Dialogs
  <2> HIDE DEF d
  <2>3. Fit([Top EXCEPT !.dialogs = d, !.held = FALSE])
    <3>1. \A r \in {d[k] : k \in DOMAIN d} \ {None} :
             /\ what[r] # None /\ what[r].kind = KindOf(Top.screen)
             /\ Top.screen = "login" => what[r].id \in authed
      BY <2>1, <2>2, SoundParts DEF Fits
    <3> QED
      BY <2>1, <2>2, <3>1, SoundParts, DialogsFit
  <2> QED
    BY <2>1, <2>3, <1>0, SetTopFits DEF Goal
<1>8. ASSUME NEW screen \in Screens, Open(screen) PROVE Goal
  <2>1. /\ stack # <<>> /\ screen \in Pushed(Top.screen) /\ Len(stack) < room.height
        /\ stack' = Append(stack, Created(screen, globalUserId))
    BY <1>8 DEF Open
  <2>2. Top.screen \in Under /\ (Top.screen = "login" => screen = "signup")
    BY <2>1 DEF Pushed, Under
  <2>3. Fit(Created(screen, globalUserId))
    <3>1. CASE Top.screen = "login"
      BY <2>2, <3>1, SoundParts, CreatedFits
    <3>2. CASE Top.screen # "login"
      BY <2>1, <2>2, <3>2, <1>d DEF Under
    <3> QED
      BY <3>1, <3>2
  <2>4. /\ StackFits(stack', globalUserId, authed, reclaimed, what)
        /\ Len(stack') = Len(stack) + 1
    BY <2>1, <2>2, <2>3, SoundParts, PushFits DEF Top
  <2> QED
    BY <2>1, <2>4, <1>a, SoundParts
<1>9. ASSUME NEW screen \in Screens, Go(screen) PROVE Goal
  <2>1. stack # <<>> /\ SetTop(Created(screen, globalUserId)) /\ Top.screen \in Bottom
    BY <1>9 DEF Go, On
  <2>2. Fit(Created(screen, globalUserId))
    BY <2>1, <1>d DEF Bottom
  <2> QED
    BY <2>1, <2>2, <1>0, SetTopFits DEF Goal
<1>10. ASSUME NEW r \in Reqs, ConfirmPlant(r) PROVE Goal
  <2>1. stack # <<>> /\ SetTop(Created("main", globalUserId)) /\ Top.screen = "plants"
    BY <1>10 DEF ConfirmPlant, Shows
  <2>2. Fit(Created("main", globalUserId))
    BY <2>1, <1>d DEF Screens
  <2> QED
    BY <2>1, <2>2, <1>0, SetTopFits DEF Goal
<1> QED
  BY <1>1, <1>2, <1>3, <1>4, <1>5, <1>6, <1>7, <1>8, <1>9, <1>10 DEF Goal

LEMMA EndFits ==
    ASSUME Sound, NEW keep, End(keep), Len(keep) <= Len(stack), Len(keep) \in Nat,
           StackFits(keep, globalUserId, authed, reclaimed, what)
    PROVE  StackSound' /\ Len(stack') <= room'.height
<1> DEFINE t == [i \in 1..Len(keep) |-> Saved(keep[i])]
<1>1. /\ stack' = t /\ globalUserId' = None /\ reclaimed' = TRUE
      /\ authed' = authed /\ what' = what /\ room' = room
  BY DEF End
<1>2. keep \in Seq(Entries) /\ t = [i \in 1..Len(keep) |-> t[i]]
  BY DEF StackFits
<1>3. ASSUME NEW i \in 1..Len(keep) PROVE Fits(t[i], None, authed, TRUE, what)
  <2>1. Fits(keep[i], globalUserId, authed, reclaimed, what)
    BY DEF StackFits
  <2> QED
    BY <2>1, SavedFits
<1>4. ASSUME NEW i \in 1..(Len(keep) - 1) PROVE t[i].screen \in Under
  <2>1. i \in 1..Len(keep) /\ keep[i].screen \in Under
    BY DEF StackFits
  <2> QED
    BY <2>1 DEF Saved
<1> HIDE DEF t
<1>5. StackFits(t, None, authed, TRUE, what) /\ Len(t) = Len(keep)
  BY <1>2, <1>3, <1>4, MapFits
<1>6. Len(t) <= room.height
  BY <1>5, SoundParts
<1> QED
  BY <1>1, <1>5, <1>6 DEF StackSound

LEMMA BelowFits ==
    ASSUME Sound, stack # <<>>
    PROVE  /\ Below \in Seq(Entries) /\ Len(Below) \in Nat /\ Len(Below) = Len(stack) - 1
           /\ StackFits(Below, globalUserId, authed, reclaimed, what)
           /\ \A i \in 1..Len(Below) :
                 /\ Below[i] \in Entries /\ Below[i].screen \in Under
                 /\ Fits(Below[i], globalUserId, authed, reclaimed, what)
                 /\ i \in 1..Len(stack) /\ Below[i] = stack[i]
<1>1. StackFits(stack, globalUserId, authed, reclaimed, what) /\ stack \in Seq(Entries)
  BY SoundParts
<1>2. /\ StackFits(Below, globalUserId, authed, reclaimed, what)
      /\ Len(Below) = Len(stack) - 1 /\ Len(stack) \in Nat \ {0}
  BY <1>1, PopFits DEF Below
<1>3. \A i \in 1..(Len(stack) - 1) : Below[i] = stack[i]
  BY <1>1, BelowOf DEF Below
<1> QED
  BY <1>1, <1>2, <1>3 DEF StackFits, Fits

\* A login comes on top of nothing that has the user of an earlier one in a form.
LEMMA LoginFits ==
    ASSUME Sound, NEW r \in Reqs, ConfirmLogin(r)
    PROVE  /\ StackSound' /\ Len(stack') <= room'.height
           /\ globalUserId' \in Ids /\ globalUserId' \in authed
<1> DEFINE id == what[r].id
           t == [i \in 1..Len(Below) |-> [Below[i] EXCEPT !.fresh = FALSE]]
           c == Created("main", id)
<1>1. /\ stack # <<>> /\ Top.screen = "login" /\ r \in Dialogs(Top) \ {None}
  <2>1. stack # <<>> /\ Top.screen = "login" /\ Top.dialogs # <<>>
        /\ Top.dialogs[Len(Top.dialogs)] = r
    BY DEF ConfirmLogin, Shows
  <2>2. Top.dialogs \in Seq(Reqs \cup {None})
    BY <2>1, SoundParts DEF Entries
  <2>3. Len(Top.dialogs) \in DOMAIN Top.dialogs
    BY <2>1, <2>2, EmptySeq, LenProperties
  <2> QED
    BY <2>1, <2>3, SessionAssumption DEF Dialogs
<1>2. what[r] # None /\ id \in authed /\ id \in Ids /\ id # None
  <2>1. what[r] # None /\ id \in authed
    BY <1>1, SoundParts DEF Fits
  <2> QED
    BY <2>1, SessionAssumption DEF Sound, TypeOK
<1>3. /\ stack' = Append(t, c) /\ globalUserId' = id
      /\ UNCHANGED <<authed, reclaimed, what, room>>
  BY DEF ConfirmLogin, accountVars, logVars
<1>4. reclaimed \in BOOLEAN
  BY SoundParts
<1>5. Fits(c, id, authed, reclaimed, what)
  BY <1>2, <1>4, CreatedFits DEF Screens
<1>6. ASSUME NEW i \in 1..Len(Below)
      PROVE  Fits(t[i], id, authed, reclaimed, what) /\ t[i].screen \in Under
  <2> DEFINE e == Below[i]
             f == [e EXCEPT !.fresh = FALSE]
  <2>1. e \in Entries /\ e.screen \in Under /\ Fits(e, globalUserId, authed, reclaimed, what)
    BY <1>1, BelowFits
  <2>2. /\ f.screen = e.screen /\ f.user = e.user /\ f.live = e.live /\ ~f.fresh
        /\ f.asked = e.asked /\ f.dialogs = e.dialogs /\ f \in Entries
    BY <2>1 DEF Entries
  <2>3. t[i] = f
    OBVIOUS
  <2> HIDE DEF e, f
  <2>4. Fits(f, id, authed, reclaimed, what) /\ f.screen \in Under
    BY <2>1, <2>2, <1>2 DEF Fits, Forms, Under, OfSession, Dialogs
  <2> QED
    BY <2>3, <2>4
<1>7. t = [i \in 1..Len(Below) |-> t[i]]
  OBVIOUS
<1>8. Below \in Seq(Entries) /\ Len(Below) \in Nat /\ Len(Below) = Len(stack) - 1
  BY <1>1, BelowFits
<1> HIDE DEF t, c, id
<1>9. StackFits(t, id, authed, reclaimed, what) /\ Len(t) = Len(Below)
  BY <1>6, <1>7, <1>8, MapFits
<1>10. t # <<>> => t[Len(t)].screen \in Under
  <2>1. t # <<>> => Len(t) \in 1..Len(Below)
    BY <1>8, <1>9, EmptySeq DEF StackFits
  <2> QED
    BY <2>1, <1>6
<1>11. /\ StackFits(Append(t, c), id, authed, reclaimed, what)
       /\ Len(Append(t, c)) = Len(t) + 1
  BY <1>5, <1>9, <1>10, PushFits
<1>12. Len(stack') <= room'.height
  BY <1>3, <1>8, <1>9, <1>11, SoundParts
<1> QED
  BY <1>2, <1>3, <1>11, <1>12 DEF StackSound

\* What Send makes of the requests.
Sent(r, kind, id, password) ==
    LET met == IF kind = "edit" THEN EditsUnderWay(id) ELSE {} IN
    [q \in Reqs |->
        IF q = r THEN [kind |-> kind, id |-> id, password |-> password, alone |-> met = {}]
        ELSE IF q \in met THEN [what[q] EXCEPT !.alone = FALSE] ELSE what[q]]

LEMMA SentContents ==
    ASSUME TypeOK, NEW r \in Reqs, NEW kind \in {"login", "edit", "plant"}, NEW id \in Ids,
           NEW password \in Passwords \cup {None}
    PROVE  LET w == Sent(r, kind, id, password) IN
           /\ w \in [Reqs -> Contents \cup {None}]
           /\ w[r] # None /\ w[r].kind = kind /\ w[r].id = id /\ w[r].password = password
           /\ \A q \in Reqs \ {r} :
                 /\ w[q] = None <=> what[q] = None
                 /\ what[q] # None => /\ w[q].kind = what[q].kind /\ w[q].id = what[q].id
                                      /\ w[q].password = what[q].password
<1> DEFINE met == IF kind = "edit" THEN EditsUnderWay(id) ELSE {}
           new == [kind |-> kind, id |-> id, password |-> password, alone |-> met = {}]
           w == Sent(r, kind, id, password)
<1>1. w = [q \in Reqs |-> IF q = r THEN new
                          ELSE IF q \in met THEN [what[q] EXCEPT !.alone = FALSE] ELSE what[q]]
  BY DEF Sent
<1>2. what \in [Reqs -> Contents \cup {None}] /\ None \notin Contents
  BY SessionAssumption DEF TypeOK
<1>3. (met = {}) \in BOOLEAN
  OBVIOUS
<1>4. new \in Contents
  BY <1>3 DEF Contents
<1>5. \A q \in met : q \in Reqs /\ what[q] \in Contents
  BY <1>2 DEF EditsUnderWay
<1>6. ASSUME NEW q \in met
      PROVE  /\ [what[q] EXCEPT !.alone = FALSE] \in Contents
             /\ [what[q] EXCEPT !.alone = FALSE].kind = what[q].kind
             /\ [what[q] EXCEPT !.alone = FALSE].id = what[q].id
             /\ [what[q] EXCEPT !.alone = FALSE].password = what[q].password
  BY <1>5 DEF Contents
<1>7. new.kind = kind /\ new.id = id /\ new.password = password
  OBVIOUS
<1> HIDE DEF met, new
<1>8. w[r] = new /\ \A q \in Reqs \ {r} :
         w[q] = IF q \in met THEN [what[q] EXCEPT !.alone = FALSE] ELSE what[q]
  BY <1>1
<1>9. w \in [Reqs -> Contents \cup {None}]
  BY <1>1, <1>2, <1>4, <1>6
<1> HIDE DEF w
<1>10. ASSUME NEW q \in Reqs \ {r}
       PROVE  /\ w[q] = None <=> what[q] = None
              /\ what[q] # None => /\ w[q].kind = what[q].kind /\ w[q].id = what[q].id
                                   /\ w[q].password = what[q].password
  <2>1. CASE q \in met
    BY <2>1, <1>2, <1>5, <1>6, <1>8
  <2>2. CASE q \notin met
    BY <2>2, <1>8
  <2> QED
    BY <2>1, <2>2
<1> QED
  BY <1>2, <1>4, <1>7, <1>8, <1>9, <1>10 DEF w

\* The name of a request is free only when no dialog shows it, so that those left in
\* the stack stay what they are.
LEMMA SendFits ==
    ASSUME Sound, stack # <<>>, NEW r \in Reqs, NEW kind \in {"login", "edit", "plant"},
           NEW id \in Ids, NEW password \in Passwords \cup {None},
           NEW e, Fits(e, globalUserId, authed, reclaimed, what), e.dialogs = Top.dialogs,
           kind = KindOf(e.screen), Send(r, e, kind, id, password),
           UNCHANGED <<globalUserId, authed, reclaimed, room>>
    PROVE  StackSound' /\ Len(stack') <= room'.height
<1> DEFINE w == Sent(r, kind, id, password)
           t == [i \in 1..Len(Below) |-> [Below[i] EXCEPT !.asked = @ \ {r}]]
           c == [e EXCEPT !.asked = @ \cup {r}]
           Fit(x) == Fits(x, globalUserId, authed, reclaimed, w)
<1>1. what' = w /\ stack' = Append(t, c) /\ Free(r)
  BY DEF Send, Sent
<1>2. /\ w[r] # None /\ w[r].kind = kind
      /\ \A q \in Reqs \ {r} : what[q] # None =>
            w[q] # None /\ w[q].kind = what[q].kind /\ w[q].id = what[q].id
  BY SentContents DEF Sound
<1>3. Below \in Seq(Entries) /\ Len(Below) \in Nat /\ Len(Below) = Len(stack) - 1
  BY BelowFits
<1> HIDE DEF w
<1>4. ASSUME NEW i \in 1..Len(Below) PROVE Fit(t[i]) /\ t[i].screen \in Under
  <2> DEFINE f == Below[i]
             a == f.asked \ {r}
             g == [f EXCEPT !.asked = a]
  <2>1. /\ f \in Entries /\ f.screen \in Under /\ r \notin Dialogs(f)
        /\ Fits(f, globalUserId, authed, reclaimed, what)
    BY <1>1, BelowFits DEF Free
  <2>2. /\ t[i] = g /\ g.screen = f.screen /\ g.asked = a /\ g.dialogs = f.dialogs
        /\ a \in SUBSET Reqs /\ Dialogs(f) \subseteq Reqs \cup {None}
    <3>1. t[i] = g
      OBVIOUS
    <3>2. g.screen = f.screen /\ g.asked = a /\ g.dialogs = f.dialogs /\ a \in SUBSET Reqs
      BY <2>1 DEF Entries
    <3>3. f.dialogs \in Seq(Reqs \cup {None})
      BY <2>1 DEF Entries
    <3>4. Dialogs(f) \subseteq Reqs \cup {None}
      BY <3>3, LenProperties, ElementOfSeq DEF Dialogs
    <3> QED
      BY <3>1, <3>2, <3>4
  <2>3. \A q \in a : what[q] # None /\ what[q].kind = KindOf(f.screen)
    BY <2>1 DEF Fits
  <2>4. Fits(g, globalUserId, authed, reclaimed, what)
    BY <2>1, <2>2, <2>3, AskedFits
  <2>5. Dialogs(g) = Dialogs(f)
    BY <2>2 DEF Dialogs
  <2>6. \A q \in (g.asked \cup Dialogs(g)) \ {None} :
           /\ q \in Reqs \ {r} /\ what[q] # None
    BY <2>1, <2>2, <2>3, <2>5 DEF Fits
  <2> HIDE DEF f, a, g
  <2>7. Fit(g)
    BY <2>4, <2>6, <1>2, FitsStays
  <2> QED
    BY <2>1, <2>2, <2>7
<1>5. Fit(c)
  <2> DEFINE a == e.asked \cup {r}
  <2>1. /\ e \in Entries /\ r \notin Dialogs(e)
    <3>1. Len(stack) \in 1..Len(stack)
      BY SoundParts, TopFits
    <3>2. r \notin Dialogs(Top)
      BY <1>1, <3>1 DEF Free, Top
    <3> QED
      BY <3>2 DEF Fits, Dialogs
  <2>2. e.asked \subseteq Reqs /\ Dialogs(e) \subseteq Reqs \cup {None}
    <3>1. e.asked \subseteq Reqs /\ e.dialogs \in Seq(Reqs \cup {None})
      BY <2>1 DEF Entries
    <3> QED
      BY <3>1, LenProperties, ElementOfSeq DEF Dialogs
  <2>3. \A q \in (e.asked \cup Dialogs(e)) \ {None} :
           q \in Reqs /\ what[q] # None /\ what[q].kind = KindOf(e.screen)
    BY <2>2 DEF Fits
  <2>4. Fit(e)
    BY <2>1, <2>3, <1>2, FitsStays
  <2>5. a \in SUBSET Reqs /\ \A q \in a : w[q] # None /\ w[q].kind = KindOf(e.screen)
    BY <2>2, <2>4, <1>2 DEF Fits
  <2> HIDE DEF a
  <2>6. Fit([e EXCEPT !.asked = a])
    BY <2>4, <2>5, AskedFits
  <2>7. c = [e EXCEPT !.asked = a]
    BY DEF a
  <2> QED
    BY <2>6, <2>7
<1>6. t = [i \in 1..Len(Below) |-> t[i]]
  OBVIOUS
<1> HIDE DEF t, c
<1>7. StackFits(t, globalUserId, authed, reclaimed, w) /\ Len(t) = Len(Below)
  BY <1>3, <1>4, <1>6, MapFits
<1>8. t # <<>> => t[Len(t)].screen \in Under
  <2>1. t # <<>> => Len(t) \in 1..Len(Below)
    BY <1>3, <1>7, EmptySeq DEF StackFits
  <2> QED
    BY <2>1, <1>4
<1>9. /\ StackFits(Append(t, c), globalUserId, authed, reclaimed, w)
      /\ Len(Append(t, c)) = Len(t) + 1
  BY <1>5, <1>7, <1>8, PushFits
<1>10. Len(stack') <= room'.height
  BY <1>1, <1>3, <1>7, <1>9, SoundParts
<1> QED
  BY <1>1, <1>9, <1>10 DEF StackSound

\* A dialog that says "true" is about a request of its screen.
LEMMA HearFits ==
    ASSUME Sound, NEW r \in Reqs, NEW body \in Bodies, Hear(r, body)
    PROVE  StackSound' /\ Len(stack') <= room'.height
<1> DEFINE x == IF body = "true" THEN r ELSE None
           t == [i \in 1..Len(stack) |->
                    IF r \notin stack[i].asked THEN stack[i]
                    ELSE [stack[i] EXCEPT !.dialogs = Append(@, x), !.held = TRUE]]
<1>1. stack' = stack \/ stack' = t
  BY DEF Hear
<1>2. UNCHANGED <<globalUserId, authed, reclaimed, what, room>>
  BY DEF Hear
<1>3. body = "true" /\ what[r].kind = "login" => what[r].id \in authed
  BY DEF Hear, Deliver, Sound, RequestsSound
<1>4. ASSUME NEW i \in 1..Len(stack)
      PROVE  Fits(t[i], globalUserId, authed, reclaimed, what) /\ t[i].screen = stack[i].screen
  <2> DEFINE e == stack[i]
             d == Append(e.dialogs, x)
  <2>1. e \in Entries /\ Fits(e, globalUserId, authed, reclaimed, what)
    BY SoundParts DEF StackFits, Fits
  <2>2. CASE r \notin e.asked
    BY <2>1, <2>2
  <2>3. CASE r \in e.asked
    <3>1. t[i] = [e EXCEPT !.dialogs = d, !.held = TRUE]
      BY <2>3
    <3>2. e.dialogs \in Seq(Reqs \cup {None}) /\ x \in Reqs \cup {None}
      BY <2>1 DEF Entries
    <3> HIDE DEF e, x
    <3>3. /\ d \in Seq(Reqs \cup {None})
          /\ {d[k] : k \in DOMAIN d} = Dialogs(e) \cup {x}
      <4> DEFINE ds == e.dialogs
                 S == Reqs \cup {None}
      <4>1. ds \in Seq(S) /\ x \in S
        BY <3>2
      <4> HIDE DEF ds, S
      <4>2. /\ Append(ds, x) \in Seq(S)
            /\ {Append(ds, x)[k] : k \in DOMAIN Append(ds, x)} = {ds[k] : k \in DOMAIN ds} \cup {x}
        BY <4>1, MoreDialogs
      <4> QED
        BY <4>2 DEF ds, S, Dialogs
    <3>4. what[r] # None /\ what[r].kind = KindOf(e.screen)
      BY <2>1, <2>3 DEF Fits
    <3>5. \A q \in {d[k] : k \in DOMAIN d} \ {None} :
             /\ what[q] # None /\ what[q].kind = KindOf(e.screen)
             /\ e.screen = "login" => what[q].id \in authed
      BY <2>1, <3>3, <3>4, <1>3 DEF Fits, KindOf, x
    <3>6. [e EXCEPT !.dialogs = d, !.held = TRUE].screen = e.screen
      BY <2>1 DEF Entries
    <3> HIDE DEF d, t
    <3>7. Fits([e EXCEPT !.dialogs = d, !.held = TRUE], globalUserId, authed, reclaimed, what)
      BY <2>1, <3>3, <3>5, DialogsFit
    <3> QED
      BY <3>1, <3>6, <3>7 DEF e
  <2> QED
    BY <2>2, <2>3
<1>5. t = [i \in 1..Len(stack) |-> t[i]]
  OBVIOUS
<1>6. \A i \in 1..(Len(stack) - 1) : i \in 1..Len(stack) /\ stack[i].screen \in Under
  BY SoundParts DEF StackFits
<1> HIDE DEF t
<1>7. StackFits(t, globalUserId, authed, reclaimed, what) /\ Len(t) = Len(stack)
  <2>1. \A i \in 1..(Len(stack) - 1) : t[i].screen \in Under
    BY <1>4, <1>6
  <2> QED
    BY <1>4, <1>5, <2>1, SoundParts, MapFits
<1> QED
  BY <1>1, <1>2, <1>7, SoundParts DEF StackSound

LEMMA NextStack ==
    ASSUME Sound, [Next]_vars
    PROVE  StackSound' /\ Len(stack') <= room'.height /\ room' = room
<1> DEFINE Goal == StackSound' /\ Len(stack') <= room'.height
<1>1. room' = room
  BY DEF Next, Launch, Hide, Reclaim, End, Recreate, Rotate, Back, SignedUp, PlantBlank,
         SubmitEditBlind, Dismiss, Open, Go, Login, SubmitEdit, SubmitPlant, Hear, ConfirmLogin,
         ConfirmEdited, ConfirmPlant, UserLogin, EditUserData, RegisterPlant, DbDown, Network,
         vars, sessionVars, accountVars, logVars
<1>2. CASE \/ Launch \/ Hide \/ Recreate \/ Rotate \/ Back \/ SignedUp \/ PlantBlank \/ Dismiss
           \/ \E screen \in Screens : Open(screen) \/ Go(screen)
           \/ \E r \in Reqs : ConfirmEdited(r) \/ ConfirmPlant(r)
  BY <1>1, <1>2, NavigationFits
<1>3. CASE Reclaim
  <2>1. Len(stack) <= Len(stack)
    BY SoundParts
  <2> QED
    BY <1>1, <1>3, <2>1, SoundParts, EndFits DEF Reclaim
<1>4. CASE SubmitEditBlind
  <2>1. stack # <<>> /\ End(Below)
    BY <1>4 DEF SubmitEditBlind, On
  <2>2. /\ StackFits(Below, globalUserId, authed, reclaimed, what)
        /\ Len(Below) \in Nat /\ Len(Below) = Len(stack) - 1 /\ Len(stack) \in Nat
    BY <2>1, BelowFits, SoundParts
  <2>3. Len(Below) <= Len(stack)
    BY <2>2
  <2> QED
    BY <1>1, <2>1, <2>2, <2>3, EndFits
<1>5. ASSUME NEW r \in Reqs, NEW id \in Ids, NEW password \in Passwords, Login(r, id, password)
      PROVE  Goal
  <2> DEFINE e == [Top EXCEPT !.user = id]
  <2>1. /\ stack # <<>> /\ Top.screen = "login" /\ Send(r, e, "login", id, password)
        /\ UNCHANGED <<globalUserId, authed, reclaimed, room>>
    BY <1>5 DEF Login, On, logVars
  <2>2. Top \in Entries /\ Fits(Top, globalUserId, authed, reclaimed, what)
    BY <2>1, SoundParts
  <2>3. /\ e \in Entries /\ e.screen = "login" /\ e.dialogs = Top.dialogs /\ e.asked = Top.asked
    BY <2>1, <2>2 DEF Entries
  <2> HIDE DEF e
  <2>4. Fits(e, globalUserId, authed, reclaimed, what)
    BY <2>1, <2>2, <2>3 DEF Fits, OfSession, Forms, Dialogs
  <2> QED
    BY <2>1, <2>3, <2>4, SendFits DEF KindOf
<1>6. ASSUME NEW r \in Reqs, NEW password \in Passwords, SubmitEdit(r, password) PROVE Goal
  <2>1. /\ stack # <<>> /\ Top.screen = "edit" /\ Send(r, Top, "edit", Top.user, password)
        /\ UNCHANGED <<globalUserId, authed, reclaimed, room>> /\ Top.user # None
    BY <1>6 DEF SubmitEdit, On
  <2>2. Fits(Top, globalUserId, authed, reclaimed, what) /\ Top.user \in Ids
    BY <2>1, SoundParts DEF Entries
  <2> QED
    BY <2>1, <2>2, SendFits DEF KindOf
<1>7. ASSUME NEW r \in Reqs, SubmitPlant(r) PROVE Goal
  <2>1. /\ stack # <<>> /\ Top.screen = "plants" /\ Send(r, Top, "plant", Top.user, None)
        /\ UNCHANGED <<globalUserId, authed, reclaimed, room>> /\ Top.user # None
    BY <1>7 DEF SubmitPlant, On, logVars
  <2>2. Fits(Top, globalUserId, authed, reclaimed, what) /\ Top.user \in Ids
    BY <2>1, SoundParts DEF Entries
  <2> QED
    BY <2>1, <2>2, SendFits DEF KindOf
<1>8. ASSUME NEW r \in Reqs, NEW body \in Bodies, Hear(r, body) PROVE Goal
  BY <1>8, HearFits
<1>9. ASSUME NEW r \in Reqs, ConfirmLogin(r) PROVE Goal
  BY <1>9, LoginFits
<1>10. ASSUME UNCHANGED <<stack, globalUserId, what, reclaimed>>, authed \subseteq authed' PROVE Goal
  <2>1. ASSUME NEW i \in 1..Len(stack) PROVE Fits(stack[i], globalUserId, authed', reclaimed, what)
    <3>1. Fits(stack[i], globalUserId, authed, reclaimed, what)
      BY SoundParts DEF StackFits
    <3>2. \A r \in (stack[i].asked \cup Dialogs(stack[i])) \ {None} : what[r] # None
      BY <3>1 DEF Fits
    <3> QED
      BY <3>1, <3>2, <1>10, FitsStays
  <2> QED
    BY <2>1, <1>1, <1>10, SoundParts DEF StackFits, StackSound
<1>11. ASSUME NEW s \in wire, UserLogin(s) \/ EditUserData(s) \/ RegisterPlant(s) \/ DbDown(s)
       PROVE  Goal
  <2>1. UNCHANGED <<stack, globalUserId, what, reclaimed>> /\ authed \subseteq authed'
    BY <1>11 DEF UserLogin, EditUserData, RegisterPlant, DbDown, sessionVars, accountVars, logVars
  <2> QED
    BY <2>1, <1>10
<1>12. CASE Network \/ UNCHANGED vars
  <2>1. UNCHANGED <<stack, globalUserId, what, reclaimed, authed>>
    BY <1>12 DEF Network, vars, sessionVars, accountVars, logVars
  <2> QED
    BY <1>1, <2>1, <1>10
<1> HIDE DEF Goal
<1>13. Goal
  BY <1>2, <1>3, <1>4, <1>5, <1>6, <1>7, <1>8, <1>9, <1>11, <1>12 DEF Next, Goal
<1> QED
  BY <1>1, <1>13 DEF Goal

----------------------------------------------------------------------------
(* The requests. *)

LEMMA NextVolley ==
    ASSUME Sound, [Next]_vars
    PROVE  VolleyTypeOK'
<1> USE VolleyAssumption DEF Sound, TypeOK, VolleyTypeOK, Sendings, Bodies
<1>1. CASE UNCHANGED volleyVars
  BY <1>1 DEF volleyVars
<1>2. ASSUME ProcessEnds PROVE VolleyTypeOK'
  BY <1>2 DEF ProcessEnds, Waiting
<1>3. ASSUME NEW r \in Reqs, Start(r) PROVE VolleyTypeOK'
  BY <1>3 DEF Start
<1>4. ASSUME NEW r \in Reqs, NEW body, Deliver(r, body) PROVE VolleyTypeOK'
  BY <1>4 DEF Deliver, Unanswered
<1>5. ASSUME NEW s \in wire, NEW body \in Bodies, Take(s), Answer(s, body), UNCHANGED <<phase, tries>>
      PROVE  VolleyTypeOK'
  BY <1>5 DEF Take, Answer
<1>6. CASE Network
  <2>1. ASSUME NEW r \in Reqs, Retry(r) PROVE VolleyTypeOK'
    BY <2>1 DEF Retry, Unanswered
  <2>2. ASSUME NEW r \in Reqs, GiveUp(r) PROVE VolleyTypeOK'
    BY <2>2 DEF GiveUp, Unanswered
  <2>3. ASSUME NEW s \in wire, Lose(s) PROVE VolleyTypeOK'
    BY <2>3 DEF Lose, Take
  <2> QED
    BY <1>6, <2>1, <2>2, <2>3 DEF Network
<1>7. CASE Next
  <2>1. CASE \E s \in wire : UserLogin(s)
    BY <2>1, <1>5 DEF UserLogin
  <2>2. CASE \E s \in wire : EditUserData(s)
    BY <2>2, <1>5 DEF EditUserData
  <2>3. CASE \E s \in wire : RegisterPlant(s)
    BY <2>3, <1>5 DEF RegisterPlant
  <2>4. CASE \E s \in wire : DbDown(s)
    BY <2>4, <1>5 DEF DbDown
  <2>5. CASE \E r \in Reqs, body \in Bodies : Hear(r, body)
    BY <2>5, <1>4 DEF Hear
  <2>6. CASE Reclaim \/ SubmitEditBlind
    BY <2>6, <1>2 DEF Reclaim, SubmitEditBlind, End
  <2>7. CASE \/ \E r \in Reqs, id \in Ids, password \in Passwords : Login(r, id, password)
             \/ \E r \in Reqs, password \in Passwords : SubmitEdit(r, password)
             \/ \E r \in Reqs : SubmitPlant(r)
    BY <2>7, <1>3 DEF Login, SubmitEdit, SubmitPlant, Send
  <2> QED
    BY <1>1, <1>6, <1>7, <2>1, <2>2, <2>3, <2>4, <2>5, <2>6, <2>7
       DEF Next, Launch, Hide, Recreate, Rotate, Back, SignedUp, PlantBlank, Dismiss, Open, Go,
           ConfirmLogin, ConfirmEdited, ConfirmPlant
<1> QED
  BY <1>1, <1>7 DEF vars

\* Moving between the screens leaves the requests and the accounts alone.
LEMMA NavigationQuiet ==
    ASSUME \/ Launch \/ Hide \/ Recreate \/ Rotate \/ Back \/ SignedUp \/ PlantBlank \/ Dismiss
           \/ \E screen \in Screens : Open(screen) \/ Go(screen)
           \/ \E r \in Reqs : ConfirmEdited(r) \/ ConfirmPlant(r) \/ ConfirmLogin(r)
           \/ UNCHANGED vars
    PROVE  /\ UNCHANGED <<phase, tries, wire, back, what, USER, authed, confirmed, reclaimed, room>>
           /\ (\E r \in Reqs : ConfirmLogin(r)) \/ UNCHANGED globalUserId
BY DEF Launch, Hide, Recreate, Rotate, Back, SignedUp, PlantBlank, Dismiss, Open, Go,
       ConfirmEdited, ConfirmPlant, ConfirmLogin, volleyVars, accountVars, logVars, vars, sessionVars

\* What a screen sends under its id.
LEMMA Sends ==
    ASSUME Sound
    PROVE  /\ \A r \in Reqs, id \in Ids, password \in Passwords : Login(r, id, password) =>
                 /\ \E e : Send(r, e, "login", id, password)
                 /\ UNCHANGED <<globalUserId, USER, authed, confirmed, reclaimed>>
           /\ \A r \in Reqs, password \in Passwords : SubmitEdit(r, password) =>
                 \E id, e : /\ id \in Ids \cap authed
                            /\ Send(r, e, "edit", id, password)
                            /\ confirmed' = [confirmed EXCEPT ![id] = None]
                            /\ UNCHANGED <<globalUserId, USER, authed, reclaimed>>
           /\ \A r \in Reqs : SubmitPlant(r) =>
                 \E id, e : /\ id \in Ids \cap authed
                            /\ Send(r, e, "plant", id, None)
                            /\ UNCHANGED <<globalUserId, USER, authed, confirmed, reclaimed>>
<1>1. ASSUME stack # <<>>, Top.screen \in {"edit", "plants"}, Top.user # None
      PROVE  Top.user \in Ids \cap authed
  BY <1>1, SoundParts DEF Fits, Entries, OfSession
<1>2. ASSUME NEW r \in Reqs, NEW password \in Passwords, SubmitEdit(r, password)
      PROVE  /\ Top.user \in Ids \cap authed
             /\ Send(r, Top, "edit", Top.user, password)
             /\ confirmed' = [confirmed EXCEPT ![Top.user] = None]
             /\ UNCHANGED <<globalUserId, USER, authed, reclaimed>>
  BY <1>1, <1>2 DEF SubmitEdit, On
<1>3. ASSUME NEW r \in Reqs, SubmitPlant(r)
      PROVE  /\ Top.user \in Ids \cap authed
             /\ Send(r, Top, "plant", Top.user, None)
             /\ UNCHANGED <<globalUserId, USER, authed, confirmed, reclaimed>>
  BY <1>1, <1>3 DEF SubmitPlant, On, logVars
<1>4. ASSUME NEW r \in Reqs, NEW id \in Ids, NEW password \in Passwords, Login(r, id, password)
      PROVE  /\ Send(r, [Top EXCEPT !.user = id], "login", id, password)
             /\ UNCHANGED <<globalUserId, USER, authed, confirmed, reclaimed>>
  BY <1>4 DEF Login, logVars
<1> QED
  BY <1>2, <1>3, <1>4

\* The types of the rest.
LEMMA NextTypeOK ==
    ASSUME Sound, [Next]_vars
    PROVE  TypeOK'
<1> DEFINE Goal == /\ globalUserId' \in Ids \cup {None}
                   /\ what' \in [Reqs -> Contents \cup {None}] /\ USER' \in [Ids -> Passwords]
                   /\ authed' \subseteq Ids /\ confirmed' \in [Ids -> Passwords \cup {None}]
<1>1. /\ VolleyTypeOK' /\ Len(stack') <= room'.height
      /\ \A i \in 1..Len(stack') : stack'[i] \in Entries
  BY NextVolley, NextStack DEF StackSound, StackFits, Fits
<1>2. reclaimed' = reclaimed \/ reclaimed' = TRUE
  BY DEF Next, Launch, Hide, Reclaim, End, Recreate, Rotate, Back, SignedUp, PlantBlank,
         SubmitEditBlind, Dismiss, Open, Go, Login, SubmitEdit, SubmitPlant, Hear, ConfirmLogin,
         ConfirmEdited, ConfirmPlant, UserLogin, EditUserData, RegisterPlant, DbDown, Network,
         vars, sessionVars, accountVars, logVars
<1>3. /\ globalUserId \in Ids \cup {None} /\ reclaimed \in BOOLEAN
      /\ what \in [Reqs -> Contents \cup {None}] /\ USER \in [Ids -> Passwords]
      /\ authed \subseteq Ids /\ confirmed \in [Ids -> Passwords \cup {None}]
  BY DEF Sound, TypeOK
<1>4. ASSUME NEW s \in wire
      PROVE  /\ what[s[1]] \in Contents /\ what[s[1]].id \in Ids /\ s[1] \in Reqs
             /\ what[s[1]].kind = "edit" => what[s[1]].password \in Passwords
  <2>1. s[1] \in Reqs /\ what[s[1]] # None
    BY DEF Sound, TypeOK, VolleyTypeOK, Sendings, RequestsSound
  <2> QED
    BY <2>1, <1>3 DEF Contents, Sound, RequestsSound
<1>5. reclaimed' \in BOOLEAN
  BY <1>2, <1>3
<1>6. ASSUME NEW r \in Reqs, NEW kind \in {"login", "edit", "plant"}, NEW id \in Ids, NEW e,
             NEW password \in Passwords \cup {None}, Send(r, e, kind, id, password)
      PROVE  what' \in [Reqs -> Contents \cup {None}]
  <2>1. what' = Sent(r, kind, id, password)
    BY <1>6 DEF Send, Sent
  <2> QED
    BY <2>1, SentContents DEF Sound
<1>7. Goal
  <2>1. CASE Reclaim \/ SubmitEditBlind
    BY <2>1, <1>3 DEF Reclaim, SubmitEditBlind, End
  <2>2. ASSUME NEW r \in Reqs, NEW id \in Ids, NEW password \in Passwords, Login(r, id, password)
        PROVE  Goal
    <3>1. PICK e : Send(r, e, "login", id, password)
      BY <2>2, Sends
    <3> QED
      BY <3>1, <2>2, <1>3, <1>6, Sends
  <2>3. ASSUME NEW r \in Reqs, NEW password \in Passwords, SubmitEdit(r, password) PROVE Goal
    <3>1. PICK id, e : /\ id \in Ids
                       /\ Send(r, e, "edit", id, password)
                       /\ confirmed' = [confirmed EXCEPT ![id] = None]
                       /\ UNCHANGED <<globalUserId, USER, authed, reclaimed>>
      BY <2>3, Sends
    <3> QED
      BY <3>1, <1>3, <1>6
  <2>4. ASSUME NEW r \in Reqs, SubmitPlant(r) PROVE Goal
    <3>1. PICK id, e : /\ id \in Ids
                       /\ Send(r, e, "plant", id, None)
                       /\ UNCHANGED <<globalUserId, USER, authed, confirmed, reclaimed>>
      BY <2>4, Sends
    <3> QED
      BY <3>1, <1>3, <1>6
  <2>5. ASSUME NEW r \in Reqs, NEW body \in Bodies, Hear(r, body) PROVE Goal
    <3>1. UNCHANGED <<globalUserId, what, USER, authed>>
      BY <2>5 DEF Hear
    <3>2. what[r] \in Contents
      BY <2>5, <1>3 DEF Hear, Deliver, Sound, RequestsSound
    <3>3. confirmed' = confirmed \/ confirmed' = [confirmed EXCEPT ![what[r].id] = what[r].password]
      BY <2>5 DEF Hear
    <3>4. what[r].password \in Passwords \cup {None}
      BY <3>2 DEF Contents
    <3> QED
      BY <3>1, <3>3, <3>4, <1>3
  <2>6. ASSUME NEW r \in Reqs, ConfirmLogin(r) PROVE Goal
    <3>1. globalUserId' \in Ids
      BY <2>6, LoginFits
    <3> QED
      BY <3>1, <2>6, <1>3, NavigationQuiet
  <2>7. ASSUME NEW s \in wire, UserLogin(s) \/ EditUserData(s) \/ RegisterPlant(s) \/ DbDown(s)
        PROVE  Goal
    BY <2>7, <1>3, <1>4
       DEF UserLogin, EditUserData, RegisterPlant, DbDown, sessionVars, accountVars, logVars
  <2>8. CASE Network
    BY <2>8, <1>3 DEF Network, sessionVars, accountVars, logVars
  <2>9. CASE \/ Launch \/ Hide \/ Recreate \/ Rotate \/ Back \/ SignedUp \/ PlantBlank \/ Dismiss
             \/ \E screen \in Screens : Open(screen) \/ Go(screen)
             \/ \E r \in Reqs : ConfirmEdited(r) \/ ConfirmPlant(r)
             \/ UNCHANGED vars
    <3>1. UNCHANGED <<globalUserId, what, USER, authed, confirmed>>
      BY <2>9 DEF Launch, Hide, Recreate, Rotate, Back, SignedUp, PlantBlank, Dismiss, Open, Go,
             ConfirmEdited, ConfirmPlant, accountVars, logVars, vars, sessionVars
    <3> QED
      BY <3>1, <1>3
  <2> HIDE DEF Goal
  <2> QED
    BY <2>1, <2>2, <2>3, <2>4, <2>5, <2>6, <2>7, <2>8, <2>9 DEF Next
<1> QED
  BY <1>1, <1>5, <1>7 DEF TypeOK

LEMMA NextRequests ==
    ASSUME Sound, [Next]_vars
    PROVE  RequestsSound'
<1>0. /\ RequestsSound /\ VolleyTypeOK /\ what \in [Reqs -> Contents \cup {None}]
      /\ None \notin Ids /\ None \notin Passwords
  BY SessionAssumption DEF Sound, TypeOK
<1>1. ASSUME NEW r \in Reqs, NEW kind \in {"login", "edit", "plant"}, NEW id \in Ids, NEW e,
             NEW password \in Passwords \cup {None}, Send(r, e, kind, id, password),
             kind = "login" \/ id \in authed, kind = "edit" => password \in Passwords,
             UNCHANGED <<globalUserId, authed>>
      PROVE  RequestsSound'
  <2>1. what' = Sent(r, kind, id, password) /\ Free(r) /\ Start(r)
    BY <1>1 DEF Send, Sent
  <2>2. /\ what'[r] # None /\ what'[r].kind = kind /\ what'[r].id = id
        /\ what'[r].password = password
        /\ \A q \in Reqs \ {r} :
              /\ what'[q] = None <=> what[q] = None
              /\ what[q] # None => /\ what'[q].kind = what[q].kind /\ what'[q].id = what[q].id
                                   /\ what'[q].password = what[q].password
    BY <2>1, SentContents DEF Sound
  <2>3. /\ phase' = [phase EXCEPT ![r] = "waiting"] /\ wire' = wire \cup {<<r, 1>>} /\ back' = back
        /\ ~Waiting(r) /\ \A s \in wire : s[1] # r
    BY <2>1 DEF Start, Free
  <2>4. /\ \A q \in Reqs : Waiting(q)' <=> q = r \/ Waiting(q)
        /\ \A b \in back : b.req \in Reqs \ {r} /\ what[b.req] # None
        /\ \A s \in wire : s[1] \in Reqs \ {r}
    BY <2>3, <1>0 DEF Waiting, VolleyTypeOK, RequestsSound, Sendings
  <2> QED
    BY <2>2, <2>3, <2>4, <1>0, <1>1 DEF RequestsSound
<1>2. CASE Reclaim \/ SubmitEditBlind
  BY <1>2, <1>0 DEF Reclaim, SubmitEditBlind, End, ProcessEnds, RequestsSound, Waiting, VolleyTypeOK
<1>3. ASSUME NEW r \in Reqs, NEW id \in Ids, NEW password \in Passwords, Login(r, id, password)
      PROVE  RequestsSound'
  <2>1. PICK e : Send(r, e, "login", id, password)
    BY <1>3, Sends
  <2> QED
    BY <2>1, <1>1, <1>3, Sends
<1>4. ASSUME NEW r \in Reqs, NEW password \in Passwords, SubmitEdit(r, password)
      PROVE  RequestsSound'
  <2>1. PICK id, e : /\ id \in Ids \cap authed
                     /\ Send(r, e, "edit", id, password)
                     /\ UNCHANGED <<globalUserId, USER, authed, reclaimed>>
    BY <1>4, Sends
  <2> QED
    BY <2>1, <1>1
<1>5. ASSUME NEW r \in Reqs, SubmitPlant(r) PROVE RequestsSound'
  <2>1. PICK id, e : /\ id \in Ids \cap authed
                     /\ Send(r, e, "plant", id, None)
                     /\ UNCHANGED <<globalUserId, USER, authed, confirmed, reclaimed>>
    BY <1>5, Sends
  <2> QED
    BY <2>1, <1>1
<1>6. ASSUME NEW r \in Reqs, NEW body \in Bodies, Hear(r, body) PROVE RequestsSound'
  BY <1>6, <1>0 DEF Hear, Deliver, Unanswered, RequestsSound, Waiting, VolleyTypeOK
<1>7. ASSUME NEW r \in Reqs, ConfirmLogin(r) PROVE RequestsSound'
  <2>1. globalUserId' \in authed
    BY <1>7, LoginFits
  <2> QED
    BY <2>1, <1>0, <1>7, NavigationQuiet DEF RequestsSound, Waiting
<1>8. ASSUME NEW s \in wire, UserLogin(s) PROVE RequestsSound'
  <2>1. /\ authed' = authed \cup {what[s[1]].id} \/ authed' = authed
        /\ wire' \subseteq wire /\ UNCHANGED <<phase, globalUserId, what>>
        /\ \A b \in back' : b \in back \/
              (Waiting(s[1]) /\ b.req = s[1] /\ (b.body = "true" => what[s[1]].id \in authed'))
    BY <1>8 DEF UserLogin, Take, Answer
  <2> QED
    BY <2>1, <1>0 DEF RequestsSound, Waiting
<1>9. ASSUME NEW s \in wire, EditUserData(s) \/ RegisterPlant(s) \/ DbDown(s) PROVE RequestsSound'
  <2>1. /\ wire' \subseteq wire /\ UNCHANGED <<phase, globalUserId, what, authed>>
        /\ \A b \in back' : b \in back \/
              (Waiting(s[1]) /\ b.req = s[1] /\ (b.body = "true" => what[s[1]].kind # "login"))
    <3>1. CASE EditUserData(s)
      BY <3>1 DEF EditUserData, Take, Answer, logVars
    <3>2. CASE RegisterPlant(s)
      BY <3>2 DEF RegisterPlant, Take, Answer, sessionVars, accountVars, logVars
    <3>3. CASE DbDown(s)
      BY <3>3 DEF DbDown, Take, Answer, sessionVars, accountVars, logVars
    <3> QED
      BY <1>9, <3>1, <3>2, <3>3
  <2> QED
    BY <2>1, <1>0 DEF RequestsSound, Waiting
<1>10. CASE Network
  <2>0. UNCHANGED <<globalUserId, what, authed>>
    BY <1>10 DEF Network, sessionVars, accountVars, logVars
  <2>1. ASSUME NEW r \in Reqs, Retry(r) PROVE RequestsSound'
    BY <2>0, <2>1, <1>0 DEF Retry, Unanswered, RequestsSound, Waiting
  <2>2. ASSUME NEW r \in Reqs, GiveUp(r) PROVE RequestsSound'
    BY <2>0, <2>2, <1>0 DEF GiveUp, Unanswered, RequestsSound, Waiting, VolleyTypeOK
  <2>3. ASSUME NEW s \in wire, Lose(s) PROVE RequestsSound'
    BY <2>0, <2>3, <1>0 DEF Lose, Take, RequestsSound, Waiting
  <2> QED
    BY <1>10, <2>1, <2>2, <2>3 DEF Network
<1>11. CASE \/ Launch \/ Hide \/ Recreate \/ Rotate \/ Back \/ SignedUp \/ PlantBlank \/ Dismiss
            \/ \E screen \in Screens : Open(screen) \/ Go(screen)
            \/ \E r \in Reqs : ConfirmEdited(r) \/ ConfirmPlant(r)
            \/ UNCHANGED vars
  <2>1. UNCHANGED <<phase, wire, back, what, authed, globalUserId>>
    BY <1>11 DEF Launch, Hide, Recreate, Rotate, Back, SignedUp, PlantBlank, Dismiss, Open, Go,
           ConfirmEdited, ConfirmPlant, volleyVars, accountVars, logVars, vars, sessionVars
  <2> QED
    BY <2>1, <1>0 DEF RequestsSound, Waiting
<1> QED
  BY <1>2, <1>3, <1>4, <1>5, <1>6, <1>7, <1>8, <1>9, <1>10, <1>11 DEF Next

----------------------------------------------------------------------------
(* The passwords. *)

\* As long as what is asked for stays, no edit comes to be under way: answers and
\* time-outs only end them.
LEMMA EditsFewer ==
    ASSUME Sound, UNCHANGED what,
           \A r \in Reqs : Waiting(r)' => Waiting(r),
           \A s \in wire' : s \in wire \/ Waiting(s[1])
    PROVE  \A id \in Ids : EditsUnderWay(id)' \subseteq EditsUnderWay(id)
BY DEF EditsUnderWay, Waiting

LEMMA NextEdits ==
    ASSUME Sound, [Next]_vars
    PROVE  EditsSound' /\ SavedPasswordStands'
<1> DEFINE Goal == EditsSound' /\ SavedPasswordStands'
<1>0. /\ EditsSound /\ SavedPasswordStands /\ RequestsSound
      /\ VolleyTypeOK /\ what \in [Reqs -> Contents \cup {None}]
      /\ USER \in [Ids -> Passwords] /\ confirmed \in [Ids -> Passwords \cup {None}]
      /\ None \notin Contents
  BY SessionAssumption DEF Sound, TypeOK
<1>1. ASSUME \A id \in Ids : EditsUnderWay(id)' \subseteq EditsUnderWay(id),
             \A b \in back' : b \in back \/ b.body # "true" \/ what[b.req].kind # "edit",
             UNCHANGED <<what, USER, confirmed>>
      PROVE  Goal
  BY <1>0, <1>1 DEF EditsSound, SavedPasswordStands
<1>2. ASSUME NEW r \in Reqs, NEW kind \in {"login", "edit", "plant"}, NEW id \in Ids, NEW e,
             NEW password \in Passwords \cup {None}, Send(r, e, kind, id, password),
             confirmed' = (IF kind = "edit" THEN [confirmed EXCEPT ![id] = None] ELSE confirmed),
             UNCHANGED USER
      PROVE  Goal
  <2> DEFINE met == IF kind = "edit" THEN EditsUnderWay(id) ELSE {}
  <2>1. what' = Sent(r, kind, id, password) /\ Free(r) /\ Start(r)
    BY <1>2 DEF Send, Sent
  <2>2. /\ what'[r] # None /\ what'[r].kind = kind /\ what'[r].id = id
        /\ what'[r].password = password
        /\ \A q \in Reqs \ {r} :
              /\ what'[q] = None <=> what[q] = None
              /\ what[q] # None => /\ what'[q].kind = what[q].kind /\ what'[q].id = what[q].id
                                   /\ what'[q].password = what[q].password
    BY <2>1, SentContents DEF Sound
  <2>3. /\ what'[r].alone = (met = {})
        /\ \A q \in Reqs \ {r} : what[q] # None =>
              what'[q].alone = IF q \in met THEN FALSE ELSE what[q].alone
    <3>1. ASSUME NEW q \in Reqs \ {r}, what[q] # None, q \in met PROVE what'[q].alone = FALSE
      <4>1. what'[q] = [what[q] EXCEPT !.alone = FALSE]
        BY <2>1, <3>1 DEF Sent
      <4> QED
        BY <4>1, <3>1, <1>0 DEF Contents
    <3>2. ASSUME NEW q \in Reqs \ {r}, q \notin met PROVE what'[q] = what[q]
      BY <2>1, <3>2 DEF Sent
    <3>3. what'[r].alone = (met = {})
      BY <2>1 DEF Sent
    <3> QED
      BY <3>1, <3>2, <3>3
  <2>4. /\ phase' = [phase EXCEPT ![r] = "waiting"] /\ wire' = wire \cup {<<r, 1>>} /\ back' = back
        /\ ~Waiting(r) /\ \A s \in wire : s[1] # r
    BY <2>1 DEF Start, Free
  <2>5. \A q \in Reqs \ {r} :
           (Waiting(q)' \/ \E s \in wire' : s[1] = q) <=> (Waiting(q) \/ \E s \in wire : s[1] = q)
    BY <2>4, <1>0 DEF Waiting, VolleyTypeOK
  <2>6. ASSUME NEW i \in Ids
        PROVE  /\ EditsUnderWay(i)' \ {r} = EditsUnderWay(i)
               /\ r \in EditsUnderWay(i)' <=> kind = "edit" /\ i = id
               /\ \A q \in EditsUnderWay(i) : q # r /\ q \in Reqs /\ what[q] # None
    <3>1. r \notin EditsUnderWay(i)
      BY <2>4 DEF EditsUnderWay
    <3>2. Waiting(r)'
      BY <2>4, <1>0 DEF Waiting, VolleyTypeOK
    <3> QED
      BY <2>2, <2>5, <3>1, <3>2 DEF EditsUnderWay
  <2> HIDE DEF met
  <2>7. ASSUME NEW i \in Ids, NEW q \in EditsUnderWay(i)', NEW t \in EditsUnderWay(i)', q # t
        PROVE  ~what'[q].alone
    <3>1. CASE q = r
      <4>1. t \in EditsUnderWay(i) /\ kind = "edit" /\ i = id
        BY <2>6, <2>7, <3>1
      <4>2. met # {}
        BY <4>1 DEF met
      <4> QED
        BY <3>1, <4>2, <2>3
    <3>2. CASE q # r /\ t = r
      <4>1. q \in EditsUnderWay(i) /\ kind = "edit" /\ i = id /\ q \in Reqs \ {r} /\ what[q] # None
        BY <2>6, <2>7, <3>2
      <4>2. q \in met
        BY <4>1 DEF met
      <4> QED
        BY <4>1, <4>2, <2>3
    <3>3. CASE q # r /\ t # r
      <4>1. q \in EditsUnderWay(i) /\ t \in EditsUnderWay(i) /\ q \in Reqs \ {r} /\ what[q] # None
        BY <2>6, <2>7, <3>3
      <4>2. ~what[q].alone
        BY <4>1, <2>7, <1>0 DEF EditsSound
      <4> QED
        BY <4>1, <4>2, <2>3
    <3> QED
      BY <3>1, <3>2, <3>3
  <2>8. ASSUME NEW b \in back', b.body = "true", what'[b.req].kind = "edit", what'[b.req].alone
        PROVE  USER'[what'[b.req].id] = what'[b.req].password
    <3>1. b \in back /\ b.req \in Reqs \ {r} /\ what[b.req] # None
      BY <2>4, <1>0 DEF RequestsSound, VolleyTypeOK
    <3>2. what[b.req].kind = "edit" /\ what[b.req].alone
      BY <3>1, <2>2, <2>3, <2>8
    <3> QED
      BY <3>1, <3>2, <2>2, <2>8, <1>0, <1>2 DEF EditsSound
  <2>9. ASSUME NEW i \in Ids, confirmed'[i] # None
        PROVE  /\ confirmed'[i] = confirmed[i] /\ ~(kind = "edit" /\ i = id)
    BY <1>0, <1>2, <2>9
  <2>10. ASSUME NEW i \in Ids, confirmed'[i] # None, NEW q \in EditsUnderWay(i)'
         PROVE  what'[q].password = confirmed'[i]
    <3>1. q \in EditsUnderWay(i) /\ q \in Reqs \ {r} /\ what[q] # None
      BY <2>6, <2>9, <2>10
    <3> QED
      BY <3>1, <2>2, <2>9, <2>10, <1>0 DEF EditsSound
  <2>11. SavedPasswordStands'
    BY <2>9, <1>0, <1>2 DEF SavedPasswordStands
  <2> QED
    BY <2>7, <2>8, <2>10, <2>11 DEF EditsSound
<1>3. CASE Reclaim \/ SubmitEditBlind
  <2>1. /\ UNCHANGED <<what, USER, confirmed, wire>> /\ back' = {}
        /\ \A r \in Reqs : Waiting(r)' => Waiting(r)
    BY <1>3, <1>0 DEF Reclaim, SubmitEditBlind, End, ProcessEnds, Waiting, VolleyTypeOK
  <2> QED
    BY <2>1, <1>1, EditsFewer
<1>4. ASSUME NEW r \in Reqs, NEW id \in Ids, NEW password \in Passwords, Login(r, id, password)
      PROVE  Goal
  <2>1. PICK e : Send(r, e, "login", id, password)
    BY <1>4, Sends
  <2> QED
    BY <2>1, <1>2, <1>4, Sends
<1>5. ASSUME NEW r \in Reqs, NEW password \in Passwords, SubmitEdit(r, password)
      PROVE  Goal
  <2>1. PICK id, e : /\ id \in Ids \cap authed
                     /\ Send(r, e, "edit", id, password)
                     /\ confirmed' = [confirmed EXCEPT ![id] = None]
                     /\ UNCHANGED USER
    BY <1>5, Sends
  <2> QED
    BY <2>1, <1>2
<1>6. ASSUME NEW r \in Reqs, SubmitPlant(r) PROVE Goal
  <2>1. PICK id, e : /\ id \in Ids \cap authed
                     /\ Send(r, e, "plant", id, None)
                     /\ UNCHANGED <<USER, confirmed>>
    BY <1>6, Sends
  <2> QED
    BY <2>1, <1>2
<1>7. ASSUME NEW r \in Reqs, NEW body \in Bodies, Hear(r, body) PROVE Goal
  <2>1. /\ UNCHANGED <<what, USER, wire>> /\ back' \subseteq back /\ Waiting(r)
        /\ \A q \in Reqs : Waiting(q)' => Waiting(q)
        /\ [req |-> r, try |-> tries[r], body |-> body] \in back
    BY <1>7, <1>0 DEF Hear, Deliver, Unanswered, Waiting, VolleyTypeOK
  <2>2. \A id \in Ids : EditsUnderWay(id)' \subseteq EditsUnderWay(id)
    BY <2>1, EditsFewer
  <2>3. CASE confirmed' = confirmed
    BY <2>1, <2>2, <2>3, <1>1
  <2>4. CASE confirmed' # confirmed
    <3> DEFINE id == what[r].id
               password == what[r].password
    <3>1. /\ body = "true" /\ what[r].kind = "edit" /\ what[r].alone
          /\ confirmed' = [confirmed EXCEPT ![id] = password]
      BY <1>7, <2>4 DEF Hear
    <3>2. what[r] \in Contents /\ id \in Ids /\ r \in EditsUnderWay(id)
      BY <2>1, <3>1, <1>0 DEF RequestsSound, EditsUnderWay, Contents
    <3>3. USER[id] = password
      BY <2>1, <3>1, <1>0 DEF EditsSound
    <3>4. \A q \in EditsUnderWay(id) : q = r
      BY <3>1, <3>2, <1>0 DEF EditsSound
    <3>5. ASSUME NEW i \in Ids, confirmed'[i] # None
          PROVE  /\ USER[i] = confirmed'[i]
                 /\ \A q \in EditsUnderWay(i)' : what[q].password = confirmed'[i]
      <4>1. CASE i = id
        BY <4>1, <2>2, <3>1, <3>2, <3>3, <3>4, <1>0
      <4>2. CASE i # id
        BY <4>2, <2>2, <3>1, <3>5, <1>0 DEF EditsSound, SavedPasswordStands
      <4> QED
        BY <4>1, <4>2
    <3> HIDE DEF id, password
    <3> QED
      BY <2>1, <2>2, <3>5, <1>0 DEF EditsSound, SavedPasswordStands
  <2> QED
    BY <2>3, <2>4
<1>8. ASSUME NEW s \in wire, EditUserData(s),
             USER' = [USER EXCEPT ![what[s[1]].id] = what[s[1]].password]
      PROVE  Goal
  <2> DEFINE q == s[1]
             id == what[q].id
             password == what[q].password
  <2>1. /\ UNCHANGED <<what, phase, confirmed>> /\ wire' \subseteq wire /\ what[q].kind = "edit"
        /\ USER' = [USER EXCEPT ![id] = password]
        /\ \A b \in back' : b \in back \/ (Waiting(q) /\ b.req = q)
    BY <1>8 DEF EditUserData, Take, Answer, logVars
  <2>2. q \in Reqs /\ what[q] \in Contents /\ id \in Ids /\ q \in EditsUnderWay(id)
    <3>1. q \in Reqs /\ what[q] # None
      BY <1>0 DEF VolleyTypeOK, Sendings, RequestsSound
    <3> QED
      BY <2>1, <3>1, <1>0 DEF EditsUnderWay, Contents
  <2>3. \A i \in Ids : EditsUnderWay(i)' \subseteq EditsUnderWay(i)
    BY <2>1, EditsFewer DEF Waiting
  <2> HIDE DEF q, id, password
  <2>4. ASSUME NEW b \in back', b.body = "true", what[b.req].kind = "edit", what[b.req].alone
        PROVE  USER'[what[b.req].id] = what[b.req].password
    <3>1. CASE b.req = q
      BY <3>1, <2>1, <2>2, <1>0 DEF id, password
    <3>2. CASE b.req # q
      <4>1. b \in back /\ b.req \in Reqs /\ Waiting(b.req) /\ what[b.req] \in Contents
        BY <3>2, <2>1, <1>0 DEF RequestsSound, VolleyTypeOK
      <4>2. b.req \in EditsUnderWay(what[b.req].id) /\ what[b.req].id \in Ids
        BY <4>1, <2>4, <1>0 DEF EditsUnderWay, Contents
      <4>3. what[b.req].id # id
        BY <2>2, <2>4, <3>2, <4>2, <1>0 DEF EditsSound
      <4> QED
        BY <4>1, <4>2, <4>3, <2>1, <2>4, <1>0 DEF EditsSound
    <3> QED
      BY <3>1, <3>2
  <2>5. ASSUME NEW i \in Ids, confirmed[i] # None PROVE USER'[i] = confirmed[i]
    <3>1. CASE i = id
      BY <3>1, <2>1, <2>2, <2>5, <1>0 DEF EditsSound, password
    <3>2. CASE i # id
      BY <3>2, <2>1, <2>5, <1>0 DEF SavedPasswordStands
    <3> QED
      BY <3>1, <3>2
  <2> QED
    BY <2>1, <2>3, <2>4, <2>5, <1>0 DEF EditsSound, SavedPasswordStands
<1>9. ASSUME NEW s \in wire,
             \/ EditUserData(s) /\ Answer(s, "false") /\ UNCHANGED USER
             \/ UserLogin(s) \/ RegisterPlant(s) \/ DbDown(s)
      PROVE  Goal
  <2>1. /\ wire' \subseteq wire /\ UNCHANGED <<phase, what, USER, confirmed>>
        /\ \A b \in back' : b \in back \/ b.body # "true" \/ what[b.req].kind # "edit"
    <3>1. CASE UserLogin(s)
      BY <3>1 DEF UserLogin, Take, Answer
    <3>2. CASE RegisterPlant(s)
      BY <3>2 DEF RegisterPlant, Take, Answer, sessionVars, accountVars, logVars
    <3>3. CASE DbDown(s)
      BY <3>3 DEF DbDown, Take, Answer, sessionVars, accountVars, logVars
    <3>4. CASE EditUserData(s) /\ Answer(s, "false") /\ UNCHANGED USER
      BY <3>4 DEF EditUserData, Take, Answer, logVars
    <3> QED
      BY <1>9, <3>1, <3>2, <3>3, <3>4
  <2>2. \A i \in Ids : EditsUnderWay(i)' \subseteq EditsUnderWay(i)
    BY <2>1, EditsFewer DEF Waiting
  <2> QED
    BY <2>1, <2>2, <1>1
<1>10. CASE Network
  <2>1. UNCHANGED <<what, USER, confirmed>> /\ back' \subseteq back
    BY <1>10 DEF Network, sessionVars, accountVars, logVars, Retry, GiveUp, Lose, Unanswered
  <2>2. /\ \A r \in Reqs : Waiting(r)' => Waiting(r)
        /\ \A s \in wire' : s \in wire \/ Waiting(s[1])
    BY <1>10, <1>0 DEF Network, Retry, GiveUp, Lose, Take, Waiting, VolleyTypeOK
  <2> QED
    BY <2>1, <2>2, <1>1, EditsFewer
<1>11. CASE \/ Launch \/ Hide \/ Recreate \/ Rotate \/ Back \/ SignedUp \/ PlantBlank \/ Dismiss
            \/ \E screen \in Screens : Open(screen) \/ Go(screen)
            \/ \E r \in Reqs : ConfirmEdited(r) \/ ConfirmPlant(r) \/ ConfirmLogin(r)
            \/ UNCHANGED vars
  <2>1. UNCHANGED <<phase, wire, back, what, USER, confirmed>>
    BY <1>11, NavigationQuiet
  <2>2. \A i \in Ids : EditsUnderWay(i)' \subseteq EditsUnderWay(i)
    BY <2>1, EditsFewer DEF Waiting
  <2> QED
    BY <2>1, <2>2, <1>1
<1>12. ASSUME NEW s \in wire, EditUserData(s) PROVE Goal
  <2>1. \/ USER' = [USER EXCEPT ![what[s[1]].id] = what[s[1]].password]
        \/ Answer(s, "false") /\ UNCHANGED USER
    BY <1>12 DEF EditUserData
  <2> HIDE DEF Goal
  <2> QED
    BY <1>8, <1>9, <1>12, <2>1
<1> HIDE DEF Goal
<1> QED
  BY <1>3, <1>4, <1>5, <1>6, <1>7, <1>9, <1>10, <1>11, <1>12 DEF Next, Goal

----------------------------------------------------------------------------
(* The theorems. *)

\* The invariant holds for any ids, passwords, requests and height of the stack, with
\* the process reclaimed at any time and any number of requests under way.
THEOREM SessionIsSound == Spec => []Sound
<1>1. Init => Sound
  BY InitSound
<1>2. ASSUME Sound, [Next]_vars PROVE Sound'
  <2>1. room'.height \in Nat \ {0}
    BY <1>2, NextStack DEF Sound
  <2> QED
    BY <1>2, <2>1, NextTypeOK, NextStack, NextRequests, NextEdits DEF Sound
<1> QED
  BY <1>1, <1>2, PTL DEF Spec

THEOREM SessionTypes == Spec => []TypeOK
<1>1. Sound => TypeOK
  BY DEF Sound
<1> QED
  BY <1>1, SessionIsSound, PTL

\* Nobody acts under an id whose password the server has not found right.
THEOREM IdsTheorem == Spec => []IdsEarned
<1>1. Sound => IdsEarned
  BY DEF Sound, StackSound, StackFits, Fits, RequestsSound, IdsEarned
<1> QED
  BY <1>1, SessionIsSound, PTL

\* A form never belongs to an earlier login than the one in UserManager.
THEOREM FormsTheorem == Spec => []FormsOfSession
<1>1. Sound => FormsOfSession
  BY DEF Sound, StackSound, StackFits, Fits, Forms, FormsOfSession
<1> QED
  BY <1>1, SessionIsSound, PTL

\* A main screen created since the last login greets who is logged in.
THEOREM FreshTheorem == Spec => []FreshIsCurrent
<1>1. Sound => FreshIsCurrent
  BY DEF Sound, StackSound, StackFits, Fits, FreshIsCurrent
<1> QED
  BY <1>1, SessionIsSound, PTL

\* Without the end of a process no screen is without its user.
THEOREM BlindTheorem == Spec => []BlindNeedsReclaim
<1>1. Sound => BlindNeedsReclaim
  BY DEF Sound, StackSound, StackFits, Fits, BlindNeedsReclaim
<1> QED
  BY <1>1, SessionIsSound, PTL

\* A password the user was told to be saved stays in USER, unless another edit of the
\* id was under way with it.
THEOREM SavedTheorem == Spec => []SavedPasswordStands
<1>1. Sound => SavedPasswordStands
  BY DEF Sound
<1> QED
  BY <1>1, SessionIsSound, PTL
=============================================================================
