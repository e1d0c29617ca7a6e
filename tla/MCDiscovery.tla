---------------------------- MODULE MCDiscovery -----------------------------
(* One server and three users: nothing in the registry relates one server to *)
(* another, so a second one adds states and no behaviour of the first.  A    *)
(* heartbeat every 5 units, forgotten after 10, a list used for 3, exchanges *)
(* of up to 2: beats, replies and restarts meet in every order, and there is *)
(* just one unit to spare, as TimesFit wants it at the least.                *)
EXTENDS Discovery, TLC

CONSTANTS s1, u1, u2, u3

MCServers == {s1}
MCUsers == {u1, u2, u3}
MCNever == -1
MCSymmetry == Permutations(MCUsers)
=============================================================================
