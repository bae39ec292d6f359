---------------------------- MODULE ChildCustody ----------------------------
(***************************************************************************)
(* What the ledger promises about one native child whatever receipts it    *)
(* gets: a spawn admission is resolved once, as a spawn or as its absence; *)
(* work is authorised only for a spawned child that nobody is ending; an   *)
(* ending child never works again; and the three terminal states, lost     *)
(* parentage, failed containment and finalization, are never left.         *)
(*                                                                         *)
(* The receipts of NativeChild implement this specification, and so do the *)
(* children of OperatingCycle, which takes the moves after the handshake   *)
(* as one action.                                                          *)
(***************************************************************************)
CONSTANT Children

VARIABLE life

\* Where each state of a child may lead.
Successors ==
    [None              |-> {"Admitted"},
     Admitted          |-> {"Spawned", "Invalidated"},
     Spawned           |-> {"Created", "Ending", "LostParentage", "ContainmentFailed"},
     Created           |-> {"Running", "Ending", "LostParentage", "ContainmentFailed"},
     Running           |-> {"Ending", "LostParentage", "ContainmentFailed"},
     Ending            |-> {"LostParentage", "ContainmentFailed", "Finalized"},
     Invalidated       |-> {},
     LostParentage     |-> {},
     ContainmentFailed |-> {},
     Finalized         |-> {}]

Init == life = [k \in Children |-> "None"]

Advance(k) ==
    \E next \in Successors[life[k]] : life' = [life EXCEPT ![k] = next]

Next == \E k \in Children : Advance(k)

Spec == Init /\ [][Next]_life

=============================================================================
