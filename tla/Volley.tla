------------------------------- MODULE Volley -------------------------------
(***************************************************************************)
(* The forms' POSTs as Volley 1.1.0 carries them: every request has a      *)
(* queue of its own, is sent once more when it timed out, and is given up  *)
(* silently because its error listener is null.  Volley and the network    *)
(* are external; what is here is how the app uses them (for instance       *)
(* RegisterActivity 204-206 and RegisterRequest).                          *)
(***************************************************************************)
EXTENDS Naturals

CONSTANTS
    Reqs,           \* the requests that may ever be made
    MaxTries        \* sendings of one request: 2 with DefaultRetryPolicy

ASSUME VolleyAssumption == MaxTries \in Nat \ {0}

VARIABLES
    phase,          \* "idle", "waiting" or "over", answered or not
    tries,          \* how often a request has been sent
    wire,           \* sendings <<r, k>> no script has taken yet
    back            \* answers on their way to the app

volleyVars == <<phase, tries, wire, back>>

Sendings == Reqs \X (1..MaxTries)

\* The field "success" of the JSON object, or no JSON object at all.
Bodies == {"true", "false", "noise"}

VolleyTypeOK ==
    /\ phase \in [Reqs -> {"idle", "waiting", "over"}]
    /\ tries \in [Reqs -> 0..MaxTries]
    /\ wire \subseteq Sendings
    /\ back \subseteq [req : Reqs, try : 1..MaxTries, body : Bodies]

VolleyInit ==
    /\ phase = [r \in Reqs |-> "idle"]
    /\ tries = [r \in Reqs |-> 0]
    /\ wire = {} /\ back = {}

Waiting(r) == phase[r] = "waiting"

\* A sending that timed out or failed closes its socket: its answer is lost.
Unanswered(r) == {b \in back : b.req # r}

\* newRequestQueue(...).add(r)
Start(r) ==
    /\ phase' = [phase EXCEPT ![r] = "waiting"]
    /\ tries' = [tries EXCEPT ![r] = 1]
    /\ wire' = wire \cup {<<r, 1>>}
    /\ UNCHANGED back

Add(r) == phase[r] = "idle" /\ Start(r)

Retry(r) ==
    /\ Waiting(r)
    /\ tries[r] < MaxTries
    /\ tries' = [tries EXCEPT ![r] = @ + 1]
    /\ wire' = wire \cup {<<r, tries[r] + 1>>}
    /\ back' = Unanswered(r)
    /\ UNCHANGED phase

\* The last time-out, no connection, or an HTTP error.
GiveUp(r) ==
    /\ Waiting(r)
    /\ phase' = [phase EXCEPT ![r] = "over"]
    /\ back' = Unanswered(r)
    /\ UNCHANGED <<tries, wire>>

\* onResponse(body) on the UI thread.
Deliver(r, body) ==
    /\ Waiting(r)
    /\ [req |-> r, try |-> tries[r], body |-> body] \in back
    /\ phase' = [phase EXCEPT ![r] = "over"]
    /\ back' = Unanswered(r)
    /\ UNCHANGED <<tries, wire>>

\* A script takes a sending from the network, ...
Take(s) == s \in wire /\ wire' = wire \ {s}

\* ... and answers it: the app hears it only while it waits for this sending.
Answer(s, body) ==
    back' = IF Waiting(s[1]) /\ tries[s[1]] = s[2]
            THEN back \cup {[req |-> s[1], try |-> s[2], body |-> body]} ELSE back

\* The app's process ends; what is on its way to the server gets there.
ProcessEnds ==
    /\ phase' = [r \in Reqs |-> IF Waiting(r) THEN "over" ELSE phase[r]]
    /\ back' = {}
    /\ UNCHANGED <<tries, wire>>

Lose(s) == Take(s) /\ UNCHANGED <<phase, tries, back>>
=============================================================================
