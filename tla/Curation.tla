------------------------------ MODULE Curation ------------------------------
(***************************************************************************)
(* What the controller and its Jobs promise together to users who wait for *)
(* one curation of a curator to end before they ask for another.  Cache,    *)
(* watch, work queue, access and conditions are left out: a request that    *)
(* calls for work is taken up once, as it is, by one Job whose containers   *)
(* run in order; until that Job gives the curator back the request stays as *)
(* it is, it always gives it back, and a Job that fails before is reported. *)
(***************************************************************************)
EXTENDS CuratorObject

CONSTANTS Curators, Hooks, Asks, RetryAsks   \* as in CuratorLifecycle

VARIABLES
    request,    \* what is desired of each curator
    wanted,     \* the curators whose request is yet to be taken up
    phase,      \* of a curator's Job: "rest" when there is none at work, "running",
                \* or "released" when it has given the curator back and not yet ended
    todo,       \* the Job's containers left, the current one first
    failed      \* the curators at rest whose status says that the last Job failed

vars == <<request, wanted, phase, todo, failed>>

Init ==
    /\ request = [c \in Curators |-> [desired |-> "", op |-> "nil", upgrade |-> NoRequest]]
    /\ wanted = {}
    /\ phase = [c \in Curators |-> "rest"]
    /\ todo = [c \in Curators |-> <<>>]
    /\ failed = {}

\* The user's edits of a request.
Edited(r) ==
    {[r EXCEPT !.desired = a.desired,
               !.upgrade = IF a.desired = "upgrade" THEN a.upgrade ELSE @] : a \in Asks}
      \cup {[r EXCEPT !.op = retry[2]] : retry \in {x \in RetryAsks : x[1] = r.desired}}

\* An edit may call for a Job: of an upgrade that depends on the last one and the
\* cluster (UpgradeCycle).
Ask(c) ==
    /\ phase[c] = "rest"
    /\ \E r \in Edited(request[c]) :
          /\ Admitted(request[c].upgrade, r.upgrade)
          /\ request' = [request EXCEPT ![c] = r]
          /\ \/ wanted' = wanted \cup {c} /\ JobKind(r) # ""
             \/ wanted' = wanted \ {c} /\ JobKind(r) \in {"", "upgrade"}
    /\ UNCHANGED <<phase, todo, failed>>

\* Reconcile launches a Job for the request as it is.
Launch(c) ==
    /\ phase[c] = "rest"
    /\ c \in wanted
    /\ Containers(request[c], Hooks) # <<>>
    /\ wanted' = wanted \ {c}
    /\ phase' = [phase EXCEPT ![c] = "running"]
    /\ todo' = [todo EXCEPT ![c] = Containers(request[c], Hooks)]
    /\ failed' = failed \ {c}
    /\ UNCHANGED request

\* A container ends well, and the next one begins.
NextContainer(c) ==
    /\ phase[c] = "running"
    /\ Head(todo[c]) # "done"
    /\ todo' = [todo EXCEPT ![c] = Tail(@)]
    /\ UNCHANGED <<request, wanted, phase, failed>>

\* The Job gives the curator back: an upgrade stays desired.
GiveBack(c) ==
    request' = [request EXCEPT ![c].op = "nil",
                               ![c].desired = IF @ = "upgrade" THEN @ ELSE ""]

\* The last container does so when all others have ended well.
Release(c) ==
    /\ phase[c] = "running"
    /\ Head(todo[c]) = "done"
    /\ GiveBack(c)
    /\ phase' = [phase EXCEPT ![c] = "released"]
    /\ UNCHANGED <<wanted, todo, failed>>

\* It then ends, and may yet be told as failed.
End(c) ==
    /\ phase[c] = "released"
    /\ phase' = [phase EXCEPT ![c] = "rest"]
    /\ todo' = [todo EXCEPT ![c] = <<>>]
    /\ failed' \in {failed, failed \cup {c}}
    /\ UNCHANGED <<request, wanted>>

\* A container fails.
Fail(c) ==
    /\ phase[c] = "running"
    /\ GiveBack(c)
    /\ phase' = [phase EXCEPT ![c] = "rest"]
    /\ todo' = [todo EXCEPT ![c] = <<>>]
    /\ failed' = failed \cup {c}
    /\ UNCHANGED wanted

Next ==
    \E c \in Curators :
        Ask(c) \/ Launch(c) \/ NextContainer(c) \/ Release(c) \/ End(c) \/ Fail(c)

Spec == Init /\ [][Next]_vars
=============================================================================
