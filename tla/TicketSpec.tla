----------------------------- MODULE TicketSpec -----------------------------
(***************************************************************************)
(* What PTP::Authenticator promises of the challenges it hands out: each   *)
(* is a ticket that can be used once, and that nothing but its use or its  *)
(* deadline withdraws while the Authenticator exists.                      *)
(***************************************************************************)
EXTENDS Naturals

CONSTANT Nonces

VARIABLES
    clock,      \* seconds since the start
    alive,      \* tickets can be used
    deadline,   \* when each ticket lapses
    ticket      \* the state of each ticket

ticketVars == <<clock, alive, deadline, ticket>>

Init ==
    /\ clock = 0
    /\ alive = TRUE
    /\ deadline = [n \in Nonces |-> 0]
    /\ ticket = [n \in Nonces |-> "new"]

Tick ==
    /\ clock' = clock + 1
    /\ UNCHANGED <<alive, deadline, ticket>>

\* The deadline is settled before the ticket is valid.
Make(n) ==
    /\ ticket[n] = "new"
    /\ deadline' = [deadline EXCEPT ![n] = deadline'[n]]
    /\ UNCHANGED <<clock, alive, ticket>>

Open(n) ==
    /\ ticket[n] = "new"
    /\ ticket' = [ticket EXCEPT ![n] = "open"]
    /\ UNCHANGED <<clock, alive, deadline>>

Use(n) ==
    /\ alive
    /\ ticket[n] = "open"
    /\ ticket' = [ticket EXCEPT ![n] = "used"]
    /\ UNCHANGED <<clock, alive, deadline>>

Lapse(S) ==
    /\ \A n \in S : ticket[n] = "open" /\ deadline[n] <= clock
    /\ ticket' = [n \in Nonces |-> IF n \in S THEN "gone" ELSE ticket[n]]
    /\ UNCHANGED <<clock, alive, deadline>>

\* The end of the Authenticator is the end of its tickets.
Close ==
    /\ alive
    /\ alive' = FALSE
    /\ ticket' = [n \in Nonces |-> IF ticket[n] = "open" THEN "gone" ELSE ticket[n]]
    /\ UNCHANGED <<clock, deadline>>

Next ==
    \/ Tick
    \/ Close
    \/ \E n \in Nonces : Make(n) \/ Open(n) \/ Use(n)
    \/ \E S \in SUBSET Nonces : Lapse(S)

Spec == Init /\ [][Next]_ticketVars

=============================================================================
