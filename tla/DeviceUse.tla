------------------------------ MODULE DeviceUse ------------------------------
(***************************************************************************)
(* What the device table of deviceio.c promises to the users of a device:  *)
(* a device is open exactly while somebody uses it.  A device may be lost: *)
(* closed by somebody who had not opened it.  Nothing is promised of it    *)
(* from then on.                                                           *)
(***************************************************************************)
EXTENDS Naturals

CONSTANTS Devices, Users

VARIABLES
    users,      \* who has opened each device and not closed it
    open,       \* whether the device is open
    lost        \* the devices closed for somebody else

UseVars == <<users, open, lost>>

UseInit ==
    /\ users = [d \in Devices |-> {}]
    /\ open = [d \in Devices |-> FALSE]
    /\ lost = {}

Take(d, u) ==
    /\ u \notin users[d]
    /\ users' = [users EXCEPT ![d] = @ \cup {u}]
    /\ open' = [open EXCEPT ![d] = TRUE]
    /\ UNCHANGED lost

Give(d, u) ==
    /\ u \in users[d]
    /\ users' = [users EXCEPT ![d] = @ \ {u}]
    /\ open' = [open EXCEPT ![d] = (users[d] # {u})]
    /\ UNCHANGED lost

\* d is lost now or was before: its entry changes as it may, no other does.
Lose(d) ==
    /\ lost' = lost \cup {d}
    /\ \E U \in SUBSET Users, b \in BOOLEAN :
          users' = [users EXCEPT ![d] = U] /\ open' = [open EXCEPT ![d] = b]

UseNext == \E d \in Devices : Lose(d) \/ \E u \in Users : Take(d, u) \/ Give(d, u)

UseSpec == UseInit /\ [][UseNext]_UseVars
=============================================================================
