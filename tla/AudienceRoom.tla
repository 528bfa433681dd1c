---------------------------- MODULE AudienceRoom ----------------------------
(***************************************************************************)
(* What an audience is meant to be: one room whose roster, epoch and       *)
(* status change by atomic operations of its founder.  Audience refines    *)
(* this module (its `room' is the declaration the gateway has cached) as   *)
(* long as the founder waits for one answer before the next request.       *)
(***************************************************************************)
EXTENDS Naturals

CONSTANTS Members, Founder, None

VARIABLE room       \* None, or [epoch, key, members, status]

Open == room # None /\ room.status = "active"

Init == room = None

Create ==
    /\ room = None
    /\ room' \in [epoch: {1}, key: Nat, members: {{Founder}}, status: {"active"}]

\* A grant: one more member, on the same key.
Add ==
    /\ Open
    /\ \E m \in Members : room' = [room EXCEPT !.members = @ \cup {m}]

\* A rotation: the next epoch, on a key the room has not just used.
Rotate ==
    /\ Open
    /\ room' \in [epoch: {room.epoch + 1}, key: Nat \ {room.key},
                  members: SUBSET Members, status: {"active"}]

\* Boot, close or reopen, on the same key.  A closed room keeps its roster
\* for as long as it stays closed.
Lifecycle ==
    /\ room # None
    /\ \E status \in {"active", "closed"}, roster \in SUBSET Members :
          /\ room.status = "closed" /\ status = "closed" => roster = room.members
          /\ room' = [room EXCEPT !.members = roster, !.status = status]

Next == Create \/ Add \/ Rotate \/ Lifecycle

Spec == Init /\ [][Next]_room

=============================================================================
