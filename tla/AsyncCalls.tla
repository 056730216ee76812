------------------------------ MODULE AsyncCalls ------------------------------
(***************************************************************************)
(* What the asynchronous core promises to JavaScript, without stacks,      *)
(* queues, Futures or reference counts.  A promise settles once and for    *)
(* good; a reaction is delivered at most once, only after the promise it   *)
(* was registered on has settled; and the promise a reaction derives       *)
(* settles only after that reaction was delivered.                         *)
(***************************************************************************)
CONSTANTS Promises, NoPromise

VARIABLES
    state,      \* "none", "pending", "fulfilled" or "rejected"
    on,         \* the promise that a derived promise was registered on
    delivered   \* the reactions that have been started

absVars == <<state, on, delivered>>

Final == {"fulfilled", "rejected"}

AbsTypeOK ==
    /\ state \in [Promises -> {"none", "pending"} \cup Final]
    /\ on \in [Promises -> Promises \cup {NoPromise}]
    /\ delivered \subseteq Promises

AbsInit ==
    /\ state = [p \in Promises |-> "none"]
    /\ on = [p \in Promises |-> NoPromise]
    /\ delivered = {}

\* A handler returns a Future and JavaScript gets a promise.
Create(p) ==
    /\ state[p] = "none"
    /\ state' = [state EXCEPT ![p] = "pending"]
    /\ UNCHANGED <<on, delivered>>

\* JavaScript registers a reaction on p, which derives q.
Register(p, q) ==
    /\ state[p] # "none" /\ state[q] = "none"
    /\ state' = [state EXCEPT ![q] = "pending"]
    /\ on' = [on EXCEPT ![q] = p]
    /\ UNCHANGED delivered

\* A pending promise settles.
SettleOnce(p, final) ==
    /\ state[p] = "pending"
    /\ on[p] = NoPromise \/ p \in delivered
    /\ state' = [state EXCEPT ![p] = final]
    /\ UNCHANGED <<on, delivered>>

\* The reaction that derives q is started.
Deliver(q) ==
    /\ on[q] # NoPromise /\ q \notin delivered
    /\ state[on[q]] \in Final
    /\ delivered' = delivered \cup {q}
    /\ UNCHANGED <<state, on>>

AbsNext ==
    \/ \E p \in Promises : Create(p) \/ Deliver(p)
    \/ \E p, q \in Promises : Register(p, q)
    \/ \E p \in Promises, final \in Final : SettleOnce(p, final)

AbsSpec == AbsInit /\ [][AbsNext]_absVars
=============================================================================
