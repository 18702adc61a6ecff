---------------------------- MODULE BoundedTries ----------------------------
(***************************************************************************)
(* What the upload of a frozen snapshot promises, and its verification     *)
(* after it, whatever crashes, fails or is run again: a unit of work is    *)
(* tried a bounded number of times, confirmed only once a try achieved it, *)
(* never tried again after that, and the whole is accepted only when every *)
(* unit is confirmed.                                                      *)
(***************************************************************************)
EXTENDS Naturals

CONSTANTS Units, MaxTries

VARIABLES
  tries,      \* how often each unit was handed to the Proton CLI
  delivered,  \* units a try achieved: stored, or seen to match
  confirmed,  \* units the database of the phase calls complete
  accepted    \* the phase as a whole was accepted

vars == <<tries, delivered, confirmed, accepted>>

Init ==
  /\ tries = [u \in Units |-> 0]
  /\ delivered = {} /\ confirmed = {}
  /\ accepted = FALSE

Try(u) ==
  /\ u \notin confirmed /\ tries[u] < MaxTries
  /\ tries' = [tries EXCEPT ![u] = @ + 1]
  /\ UNCHANGED <<delivered, confirmed, accepted>>

Deliver(u) ==
  /\ tries[u] > 0 /\ u \notin confirmed
  /\ delivered' = delivered \cup {u}
  /\ UNCHANGED <<tries, confirmed, accepted>>

Confirm(u) ==
  /\ u \in delivered
  /\ confirmed' = confirmed \cup {u}
  /\ UNCHANGED <<tries, delivered, accepted>>

Accept ==
  /\ confirmed = Units
  /\ accepted' = TRUE
  /\ UNCHANGED <<tries, delivered, confirmed>>

Next == Accept \/ \E u \in Units : Try(u) \/ Deliver(u) \/ Confirm(u)

Spec == Init /\ [][Next]_vars
=============================================================================
