--------------------------- MODULE SharedOwnership ---------------------------
(***************************************************************************)
(* What a reference-counted object promises its users: it exists while     *)
(* somebody owns it, ownership is taken only from an owner, and it is      *)
(* reclaimed once, after the last owner let go.  There is no counter and   *)
(* no intermediate step here; OqsKeyRefs shows how oqsprov keeps the       *)
(* promise with an atomic counter.                                         *)
(***************************************************************************)
CONSTANTS Objects, Holders

VARIABLES state, owners, lost

ovars == <<state, owners, lost>>

OInit ==
  /\ state = [o \in Objects |-> "unused"]
  /\ owners = [o \in Objects |-> {}]
  /\ lost = {}

Create(o, h) ==
  /\ state[o] = "unused"
  /\ state' = [state EXCEPT ![o] = "live"]
  /\ owners' = [owners EXCEPT ![o] = {h}]
  /\ UNCHANGED lost

(* Only an owned object can get a further owner.                           *)
Acquire(o, h) ==
  /\ owners[o] # {} /\ h \notin owners[o]
  /\ owners' = [owners EXCEPT ![o] = @ \cup {h}]
  /\ UNCHANGED <<state, lost>>

Move(o, h, g) ==
  /\ h \in owners[o] /\ g \notin owners[o]
  /\ owners' = [owners EXCEPT ![o] = (@ \ {h}) \cup {g}]
  /\ UNCHANGED <<state, lost>>

Release(o, h) ==
  /\ h \in owners[o]
  /\ owners' = [owners EXCEPT ![o] = @ \ {h}]
  /\ UNCHANGED <<state, lost>>

(* An owner that forgets the object: it can never be reclaimed.            *)
Lose(o, h) ==
  /\ h \in owners[o]
  /\ owners' = [owners EXCEPT ![o] = @ \ {h}]
  /\ lost' = lost \cup {o}
  /\ UNCHANGED state

Reclaim(o) ==
  /\ state[o] = "live" /\ owners[o] = {} /\ o \notin lost
  /\ state' = [state EXCEPT ![o] = "dead"]
  /\ UNCHANGED <<owners, lost>>

ONext ==
  \E o \in Objects :
    \/ Reclaim(o)
    \/ \E h \in Holders :
         \/ Create(o, h) \/ Acquire(o, h) \/ Release(o, h) \/ Lose(o, h)
         \/ \E g \in Holders : Move(o, h, g)

OSafeSpec == OInit /\ [][ONext]_ovars

(* Reclamation happens: nothing stays allocated without an owner.          *)
OSpec == OSafeSpec /\ \A o \in Objects : WF_ovars(Reclaim(o))
=============================================================================
