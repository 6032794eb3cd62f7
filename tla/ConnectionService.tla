-------------------------- MODULE ConnectionService --------------------------
(***************************************************************************)
(* What the SOAP front end of csa_web promises to its clients, without     *)
(* locks, events or scans: one accepted connection may wait, every other   *)
(* accepted connection occupies one of a fixed number of service slots,    *)
(* and an occupied slot is freed when the connection is closed.            *)
(* ThreadPool implements this specification.                               *)
(***************************************************************************)
EXTENDS Naturals

CONSTANTS Slots,      \* the service slots: one per pool thread
          Soaps,      \* the identities (addresses) of soap objects
          NoSoap      \* the null pointer

VARIABLES waiting,    \* the accepted connection no slot has taken yet
          slot        \* the connection each slot serves

vars == <<waiting, slot>>

InService == {slot[w] : w \in Slots} \ {NoSoap}

Init ==
  /\ waiting = NoSoap
  /\ slot = [w \in Slots |-> NoSoap]

(* A connection is accepted only when no accepted connection waits. *)
Accept(c) ==
  /\ waiting = NoSoap
  /\ c \notin InService
  /\ waiting' = c
  /\ UNCHANGED slot

(* A free slot takes over the waiting connection. *)
Assign(w) ==
  /\ waiting # NoSoap
  /\ slot[w] = NoSoap
  /\ slot' = [slot EXCEPT ![w] = waiting]
  /\ waiting' = NoSoap

(* The connection of a slot has been answered and is closed. *)
Close(w) ==
  /\ slot[w] # NoSoap
  /\ slot' = [slot EXCEPT ![w] = NoSoap]
  /\ UNCHANGED waiting

Next ==
  \/ \E c \in Soaps : Accept(c)
  \/ \E w \in Slots : Assign(w) \/ Close(w)

Spec == Init /\ [][Next]_vars

(* The pool hands over and closes as long as it can. *)
Fairness ==
  /\ WF_vars(\E w \in Slots : Assign(w))
  /\ \A w \in Slots : WF_vars(Close(w))

FairSpec == Spec /\ Fairness

TypeOK ==
  /\ waiting \in Soaps \cup {NoSoap}
  /\ slot \in [Slots -> Soaps \cup {NoSoap}]

=============================================================================
