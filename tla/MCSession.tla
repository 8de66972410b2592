----------------------------- MODULE MCSession -----------------------------
(* Instances of Session for TLC. *)
EXTENDS Session, TLC

Symmetry == Permutations(Reqs) \cup Permutations(Ids) \cup Permutations(Passwords)

\* A long way through the screens, overlapping edits, overlapping logins, and
\* repeated sendings.
SmallRooms == {[requests |-> 1, sendings |-> 1, height |-> 4, ids |-> 2],
               [requests |-> 2, sendings |-> 1, height |-> 3, ids |-> 1],
               [requests |-> 2, sendings |-> 1, height |-> 2, ids |-> 2],
               [requests |-> 1, sendings |-> 2, height |-> 3, ids |-> 1]}

\* A request of which nothing is left is told from no other, a listener whose
\* request is over is never called, and nothing reads the field of a login twice.
View ==
    LET used == {r \in Reqs : ~Free(r)} IN
    << {<<r, what[r], phase[r], tries[r]>> : r \in used}, wire, back,
       [i \in 1..Len(stack) |-> [stack[i] EXCEPT
           !.asked = {r \in @ : Waiting(r)},
           !.user  = IF stack[i].screen = "login" THEN None ELSE @,
           !.fresh = @ /\ stack[i].screen \in OfSession]],
       globalUserId, USER, authed, confirmed, reclaimed, room >>
=============================================================================
