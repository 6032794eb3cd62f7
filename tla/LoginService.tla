----------------------------- MODULE LoginService -----------------------------
(***************************************************************************)
(* What the login and logout of csa_web promise to the web applications,   *)
(* without threads, locks or a session manager that is called while a lock *)
(* is held: a user is logged in and gets a ticket in one step, and is      *)
(* logged out in the step that takes his ticket back.  A user whose ticket *)
(* string a later login got as well has no entry to be logged out by.      *)
(* SupervisorSessions implements this specification.                       *)
(***************************************************************************)
EXTENDS Naturals

CONSTANTS Apps,       \* application ids of the web applications
          NoApp,      \* no application
          MaxLogins   \* bound: logins the session manager accepts

Clients == 1..MaxLogins
NoSession == [app |-> NoApp, client |-> 0]

VARIABLES
  tickets,    \* the application and the client of each ticket
  users,      \* the clients who are logged in
  accepted,   \* how many logins have been accepted
  given       \* the ticket each login got (0: none)

vars == <<tickets, users, accepted, given>>

Init ==
  /\ tickets = [k \in Clients |-> NoSession]
  /\ users = {}
  /\ accepted = 0
  /\ given = [n \in Clients |-> 0]

(* The ticket is a new one, or has the string of one given before. *)
LogIn(a, k) ==
  LET n == accepted + 1
  IN /\ n \in Clients
     /\ k = n \/ \E m \in 1..accepted : given[m] = k
     /\ tickets' = [tickets EXCEPT ![k] = [app |-> a, client |-> n]]
     /\ users' = users \cup {n}
     /\ accepted' = n
     /\ given' = [given EXCEPT ![n] = k]

(* By the user himself, or with all the users of his application. *)
LogOut(k) ==
  /\ tickets[k] # NoSession
  /\ tickets' = [tickets EXCEPT ![k] = NoSession]
  /\ users' = users \ {tickets[k].client}
  /\ UNCHANGED <<accepted, given>>

Next ==
  \/ \E a \in Apps, k \in Clients : LogIn(a, k)
  \/ \E k \in Clients : LogOut(k)

Spec == Init /\ [][Next]_vars

=============================================================================
