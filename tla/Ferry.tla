------------------------------- MODULE Ferry -------------------------------
(***************************************************************************)
(* What the server promises of a ship on a route, whatever timers, route   *)
(* objects and hash maps it takes to keep it: a ferry.  It sails to one    *)
(* end, lies there to unload all it has and then to load what that end     *)
(* has to give, and sails back to the other end.  Nothing is unloaded      *)
(* where it was loaded, no dock is skipped or visited twice, and a ship    *)
(* may be forgotten at any time but never comes back under its id.         *)
(***************************************************************************)
EXTENDS Naturals

CONSTANTS
  ShipIds,    \* the ids of the ships
  Ports,      \* the ids of the ports
  Capacity,   \* what a ship can hold
  Nowhere     \* where the cargo of an empty ship is from

VARIABLES
  ferries,    \* id -> ferry
  launched    \* the ids that were given to a ship so far

ferryVars == <<ferries, launched>>

\* A ferry: its phase, the end `here' that it sails to or lies at, the end
\* `there' that it comes from, and what it holds and from where.
Afloat == DOMAIN ferries

Init ==
  /\ ferries = [id \in {} |-> 0]
  /\ launched = {}

Launch(id) ==
  /\ id \notin launched
  /\ launched' = launched \cup {id}
  /\ \E p, q \in Ports :
       /\ p # q
       /\ ferries' = [i \in Afloat \cup {id} |->
                        IF i = id
                          THEN [phase |-> "SAILING", here |-> p, there |-> q,
                                hold |-> 0, from |-> Nowhere]
                          ELSE ferries[i]]

\* Several ships may arrive in one tick, and ships be forgotten in it.
Arrive(ids) ==
  /\ \A id \in ids : ferries[id].phase = "SAILING"
  /\ ferries' = [id \in Afloat |->
                   IF id \in ids THEN [ferries[id] EXCEPT !.phase = "UNLOADING"]
                                 ELSE ferries[id]]
  /\ UNCHANGED launched

Unload(id) ==
  /\ ferries[id].phase = "UNLOADING"
  /\ ferries' = [ferries EXCEPT
                   ![id] = [phase |-> "LOADING", here |-> @.here, there |-> @.there,
                            hold |-> 0, from |-> Nowhere]]
  /\ UNCHANGED launched

Load(id) ==
  /\ ferries[id].phase = "LOADING"
  /\ \E amount \in 0..Capacity :
       ferries' = [ferries EXCEPT
                     ![id] = [phase |-> "SAILING", here |-> @.there, there |-> @.here,
                              hold |-> amount,
                              from |-> IF amount = 0 THEN Nowhere ELSE @.here]]
  /\ UNCHANGED launched

\* Ships are deleted, or their ids given to other ships as well.
Forget(ids) ==
  /\ ferries' = [id \in Afloat \ ids |-> ferries[id]]
  /\ launched \subseteq launched'
  /\ launched' \subseteq ShipIds

\* The process starts again, and so do its ids.
Restart ==
  /\ ferries' = [id \in {} |-> 0]
  /\ launched' = {}

Next ==
  \/ \E id \in ShipIds : Launch(id)
  \/ \E ids \in SUBSET Afloat : Arrive(ids) \/ Forget(ids)
  \/ \E id \in Afloat : Unload(id) \/ Load(id)
  \/ Restart

Spec == Init /\ [][Next]_ferryVars
=============================================================================
