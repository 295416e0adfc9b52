---------------------------- MODULE OnlineStatus ----------------------------
(***************************************************************************)
(* What presence promises, without how: a user is online from the moment a *)
(* first device of his is registered until the last one has gone, and each *)
(* device comes and goes once.  Of a user who is no longer trusted (two of *)
(* his handlers overlapped, or a call failed) it promises nothing.         *)
(***************************************************************************)
CONSTANTS Users, Devices, OwnerOf
VARIABLES device, online, trusted

status == <<device, online, trusted>>

Init ==
  /\ device = [d \in Devices |-> "new"]
  /\ online = {}
  /\ trusted = Users

On(u) == {d \in Devices : OwnerOf[d] = u /\ device[d] = "on"}

Attach(d) ==
  /\ OwnerOf[d] \in trusted /\ device[d] = "new"
  /\ device' = [device EXCEPT ![d] = "on"]
  /\ online' = online \union {OwnerOf[d]}
  /\ UNCHANGED trusted

Refuse(d) ==
  /\ OwnerOf[d] \in trusted /\ device[d] = "new"
  /\ device' = [device EXCEPT ![d] = "off"]
  /\ UNCHANGED <<online, trusted>>

Detach(d) ==
  /\ OwnerOf[d] \in trusted /\ device[d] = "on"
  /\ device' = [device EXCEPT ![d] = "off"]
  /\ online' = IF On(OwnerOf[d]) = {d} THEN online \ {OwnerOf[d]} ELSE online
  /\ UNCHANGED trusted

Lose(us) ==
  /\ device' = [d \in Devices |-> IF OwnerOf[d] \in us THEN "off" ELSE device[d]]
  /\ online' = online \ us
  /\ trusted' = trusted \ us

Next ==
  \/ \E d \in Devices : Attach(d) \/ Refuse(d) \/ Detach(d)
  \/ \E us \in SUBSET trusted : Lose(us)

Spec == Init /\ [][Next]_status
=============================================================================
