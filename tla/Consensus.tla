------------------------------ MODULE Consensus ------------------------------
(***************************************************************************)
(* What one replicated log promises, whatever protocol fills it: a slot is *)
(* decided with one command, a command is decided in one slot, and every   *)
(* replica that learns a slot learns that command.                         *)
(*                                                                         *)
(* learned[r] is the set of <<slot, command>> pairs replica r has taken    *)
(* for decided.                                                            *)
(***************************************************************************)

CONSTANTS Replicas,     \* the replicas
          Commands,     \* the commands that clients propose
          Slots         \* the positions of the log

VARIABLE learned

Init == learned = [r \in Replicas |-> {}]

\* The commands some replica has learned for slot i.
Decided(i) == {c \in Commands : \E r \in Replicas : <<i, c>> \in learned[r]}

\* Replica r learns that slot i holds command c: nobody has learned another
\* command for i, nor another slot for c.
Learn(r, i, c) ==
  /\ Decided(i) \subseteq {c}
  /\ \A j \in Slots \ {i} : c \notin Decided(j)
  /\ learned' = [learned EXCEPT ![r] = @ \cup {<<i, c>>}]

Next == \E r \in Replicas, i \in Slots, c \in Commands : Learn(r, i, c)

Spec == Init /\ [][Next]_learned
===============================================================================
