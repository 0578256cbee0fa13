----------------------------- MODULE DIAbstract -----------------------------
(***************************************************************************)
(* What the Device Initialize driver promises, without messages, sockets *)
(* or failures (spec section 4.4): within a session the protocol state   *)
(* only moves forward, one state at a time, along the fixed order, and   *)
(* never beyond its last state; a new session, of which the caller      *)
(* starts a bounded number, begins again at the first state.             *)
(***************************************************************************)
EXTENDS Naturals, Sequences

CONSTANTS
    Order,        \* the protocol states, in order
    MaxSessions   \* bound on the sessions the caller starts

VARIABLES
    state,        \* the protocol state of the current session
    sessions      \* sessions started so far

Last == Order[Len(Order)]
Position(s) == CHOOSE i \in 1..Len(Order) : Order[i] = s

Init == state = Order[1] /\ sessions = 1

(* The current session moves to the next state.                          *)
Advance ==
    /\ state # Last
    /\ state' = Order[Position(state) + 1]
    /\ UNCHANGED sessions

(* The caller starts a new session from the first state.                 *)
StartOver ==
    /\ sessions < MaxSessions
    /\ state' = Order[1]
    /\ sessions' = sessions + 1

Next == Advance \/ StartOver

Spec == Init /\ [][Next]_<<state, sessions>>

=============================================================================
