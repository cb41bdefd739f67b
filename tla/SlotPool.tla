------------------------------ MODULE SlotPool ------------------------------
(***************************************************************************)
(* What the router's connection manager promises about its blocks of       *)
(* SOCKMAP slots, without lists, flags, maps or loops: a block is free,    *)
(* owned by one client, or retired for good; a client is served at most    *)
(* once, and is turned away only when no block is free.                    *)
(***************************************************************************)

CONSTANTS
  Blocks,   (* the six-slot blocks of the SOCKMAP                  *)
  Clients,  (* every client the listener ever accepts              *)
  Free,     (* owner of a block that can be handed out             *)
  Retired   (* owner of a block that was taken out of service      *)

VARIABLES
  owner,    (* [Blocks -> Clients \cup {Free, Retired}]            *)
  seen      (* the clients that were served or turned away         *)

vars == << owner, seen >>

Init ==
  /\ owner = [b \in Blocks |-> Free]
  /\ seen = {}

Take(c, b) ==
  /\ c \notin seen
  /\ owner[b] = Free
  /\ owner' = [owner EXCEPT ![b] = c]
  /\ seen' = seen \cup {c}

TurnAway(c) ==
  /\ c \notin seen
  /\ \A b \in Blocks : owner[b] # Free
  /\ seen' = seen \cup {c}
  /\ UNCHANGED owner

Release(b) ==
  /\ owner[b] \in Clients
  /\ owner' = [owner EXCEPT ![b] = Free]
  /\ UNCHANGED seen

Retire(b) ==
  /\ owner[b] \in Clients
  /\ owner' = [owner EXCEPT ![b] = Retired]
  /\ UNCHANGED seen

Next ==
  \/ \E c \in Clients : TurnAway(c) \/ \E b \in Blocks : Take(c, b)
  \/ \E b \in Blocks : Release(b) \/ Retire(b)

Spec == Init /\ [][Next]_vars
=============================================================================
