----------------------------- MODULE LeaseQueue -----------------------------
(***************************************************************************)
(* What a table of leased work items promises.  An item is open, held by   *)
(* one holder under a lease, or closed.  A holding is ended only by its    *)
(* holder, who is busy with the item until then; another holder takes over *)
(* only after the lease has lapsed.  Closed is final.  A holder may leave  *)
(* an item it is busy with (it died, or lost the item), and what it leaves *)
(* behind stays as it was.                                                 *)
(***************************************************************************)
CONSTANTS Items, Holders, Nobody

VARIABLES
    state,   \* "open", "held" or "closed"
    holder,  \* who holds the item, or Nobody
    live,    \* the lease of the holder has not lapsed
    busy     \* the item each holder works on, or Nobody

vars == <<state, holder, live, busy>>

Init ==
    /\ state \in [Items -> {"open", "closed"}]
    /\ holder = [i \in Items |-> Nobody]
    /\ live = [i \in Items |-> FALSE]
    /\ busy = [h \in Holders |-> Nobody]

Become(i, s, h, l) ==
    /\ state' = [state EXCEPT ![i] = s]
    /\ holder' = [holder EXCEPT ![i] = h]
    /\ live' = [live EXCEPT ![i] = l]

Turn(h, i) == busy' = [busy EXCEPT ![h] = i]

\* An open item, or one whose lease has lapsed, gets a new holder.
Take(i, h) ==
    /\ state[i] = "open" \/ (state[i] = "held" /\ ~live[i])
    /\ busy[h] = Nobody
    /\ Become(i, "held", h, TRUE) /\ Turn(h, i)

\* The holder hands the item back or finishes it, and turns away from it.
End(i, h, s) ==
    /\ state[i] = "held" /\ holder[i] = h /\ busy[h] = i
    /\ Become(i, s, Nobody, FALSE) /\ Turn(h, Nobody)

Leave(h) == Turn(h, Nobody) /\ UNCHANGED <<state, holder, live>>

\* An item that nobody holds is withdrawn.
Withdraw(i) ==
    /\ state[i] = "open"
    /\ Become(i, "closed", Nobody, FALSE)
    /\ UNCHANGED busy

Lapse(i) ==
    /\ state[i] = "held" /\ live[i]
    /\ Become(i, "held", holder[i], FALSE)
    /\ UNCHANGED busy

Next ==
    \/ \E h \in Holders :
          \/ Leave(h)
          \/ \E i \in Items : Take(i, h) \/ End(i, h, "open") \/ End(i, h, "closed")
    \/ \E i \in Items : Withdraw(i) \/ Lapse(i)

Spec == Init /\ [][Next]_vars
=============================================================================
