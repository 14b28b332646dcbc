-------------------------------- MODULE Mirror --------------------------------
(***************************************************************************)
(* What the synchronisation of a folder promises: the service keeps a copy *)
(* of every file, which follows the file.  The copy is always something    *)
(* the file has been, and once it has been brought forward to one state of *)
(* the file it is never taken back to an earlier one.                      *)
(***************************************************************************)
EXTENDS Naturals, Sequences, SequencesExt

CONSTANTS Items, Contents, Absent

VARIABLES
  hist,     \* what every file has been, up to now
  at,       \* the point of its history that the copy stands at
  copy      \* the copy of the service

Init ==
  /\ hist = [i \in Items |-> <<Absent>>]
  /\ at = [i \in Items |-> 1]
  /\ copy = [i \in Items |-> Absent]

Edit(i, c) ==
  /\ c # Last(hist[i])
  /\ hist' = [hist EXCEPT ![i] = Append(@, c)]
  /\ UNCHANGED <<at, copy>>

BringForward ==
  /\ \A i \in Items : at[i] <= at'[i] /\ at'[i] <= Len(hist[i])
  /\ copy' = [i \in Items |-> hist[i][at'[i]]]
  /\ UNCHANGED hist

Next == BringForward \/ \E i \in Items, c \in Contents \cup {Absent} : Edit(i, c)

Spec == Init /\ [][Next]_<<hist, at, copy>>
=============================================================================
