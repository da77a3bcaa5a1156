---------------------------- MODULE StreamLease ----------------------------
(***************************************************************************)
(* What the publisher slots promise, without sessions, locks and protocols:*)
(* a lease is granted when it is free or the asker's own, and ends by its  *)
(* holder's will or with the thing leased.  Implemented by PublishSession  *)
(* (a lease is a hub) and by MediaServer (a lease is a stream name).       *)
(***************************************************************************)
CONSTANTS Leases, Clients, None

VARIABLES
  holder,  \* lease -> the client that has it, or None
  relies   \* client -> the leases it takes to be its own

Init ==
  /\ holder = [l \in Leases |-> None]
  /\ relies = [c \in Clients |-> {}]

\* A client that is granted a lease may forget an older one, which then stays taken.
Grant(c, l) ==
  /\ holder[l] \in {None, c}
  /\ holder' = [holder EXCEPT ![l] = c]
  /\ \E kept \in SUBSET relies[c] : relies' = [relies EXCEPT ![c] = kept \cup {l}]

\* It ends by its holder's will, who may forget others with it.
GiveUp(c, l) ==
  /\ holder[l] = c
  /\ holder' = [holder EXCEPT ![l] = None]
  /\ \E kept \in SUBSET relies[c] : relies' = [relies EXCEPT ![c] = kept \ {l}]

\* A client stops relying on leases without returning them.
Forget(c) ==
  /\ \E kept \in SUBSET relies[c] : relies' = [relies EXCEPT ![c] = kept]
  /\ UNCHANGED holder

\* The thing leased is removed.
Revoke(l) ==
  /\ holder' = [holder EXCEPT ![l] = None]
  /\ relies' = [c \in Clients |-> relies[c] \ {l}]

Next ==
  \/ \E c \in Clients, l \in Leases : Grant(c, l) \/ GiveUp(c, l)
  \/ \E c \in Clients : Forget(c)
  \/ \E l \in Leases : Revoke(l)

Spec == Init /\ [][Next]_<<holder, relies>>

\* Nobody relies on a lease another client has.
Exclusive == \A c \in Clients : \A l \in relies[c] : holder[l] = c
=============================================================================
