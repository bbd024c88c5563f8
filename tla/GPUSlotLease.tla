---------------------------- MODULE GPUSlotLease ----------------------------
(***************************************************************************)
(* What the operator promises about the GPU slots of the nodes, without the *)
(* statuses, policies and writes it keeps the promise with.                 *)
(*                                                                         *)
(* A client holds its slots from the creation of its runtime Deployment     *)
(* until that is gone.  A requester may announce that it takes over from a  *)
(* target on its node, and from then on those slots are spoken for: the     *)
(* target stops and the requester starts, or the requester turns back and   *)
(* the target starts again, but nobody else does.                           *)
(***************************************************************************)
EXTENDS Integers, FiniteSetsExt

CONSTANTS
  Clients,   \* who may hold slots
  None,      \* no client
  Home,      \* the node each client runs on
  Slots,     \* how many slots it needs
  Capacity   \* how many slots each node has

VARIABLES
  running,   \* clients that hold their slots
  handoff    \* per requester: the target it takes over from, and whether it turned back

NoHandoff == [target |-> None, back |-> FALSE]

Held(S) == MapThenSumSet(LAMBDA x : Slots[x], S)

On(n) == {x \in running : Home[x] = n}

Requesters(n) == {r \in Clients : Home[r] = n /\ handoff[r].target # None}

Targets(n) == {handoff[r].target : r \in Requesters(n)}

(* What an outsider has to leave to those who are party to a handoff.       *)
SpokenFor(n) == IF Requesters(n) = {} THEN 0 ELSE Held(Targets(n))

MayStart(d) ==
  LET n == Home[d]
      outsiders == On(n) \ (Requesters(n) \cup Targets(n))
  IN  CASE d \in Requesters(n) -> ~handoff[d].back
        [] d \in Targets(n) -> \E r \in Requesters(n) : handoff[r] = [target |-> d, back |-> TRUE]
        [] OTHER -> Held(outsiders) + Slots[d] + SpokenFor(n) <= Capacity[n]

Start(d) ==
  /\ d \notin running
  /\ Held(On(Home[d])) + Slots[d] <= Capacity[Home[d]]
  /\ MayStart(d)
  /\ running' = running \cup {d}
  /\ UNCHANGED handoff

Stop(d) ==
  /\ d \in running
  /\ running' = running \ {d}
  /\ UNCHANGED handoff

(* Handoffs are between clients of one node that need as many slots, and    *)
(* the requester does not run yet.                                          *)
Announce(r, t) ==
  /\ r \notin running /\ r # t
  /\ Home[r] = Home[t] /\ Slots[r] = Slots[t]
  /\ handoff[r] = NoHandoff
  /\ handoff' = [handoff EXCEPT ![r] = [target |-> t, back |-> FALSE]]
  /\ UNCHANGED running

TurnBack(r) ==
  /\ handoff[r].target # None /\ ~handoff[r].back
  /\ handoff' = [handoff EXCEPT ![r].back = TRUE]
  /\ UNCHANGED running

Close(r) ==
  /\ handoff[r].target # None
  /\ handoff' = [handoff EXCEPT ![r] = NoHandoff]
  /\ UNCHANGED running

Init ==
  /\ running = {}
  /\ handoff = [r \in Clients |-> NoHandoff]

Next ==
  \E d \in Clients :
    \/ Start(d) \/ Stop(d) \/ TurnBack(d) \/ Close(d)
    \/ \E t \in Clients : Announce(d, t)

Spec == Init /\ [][Next]_<<running, handoff>>
=============================================================================
