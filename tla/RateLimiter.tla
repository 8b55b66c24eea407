----------------------------- MODULE RateLimiter -----------------------------
(***************************************************************************)
(* The in-memory limiter of failed attempts.  A key's attempts are the     *)
(* ages of its failures inside the window, oldest first; a key without     *)
(* attempts is not held.  The code drops what has left the window when the *)
(* key is used again; every use drops first, so here it is gone at once.   *)
(***************************************************************************)
EXTENDS Integers, Sequences, FiniteSets

CONSTANTS
  Keys,         \* the keys in use: one per endpoint for one client address
  MaxFailures,  \* failures a key may have inside the window
  Window        \* how many ticks a failure is remembered

ASSUME LimiterAssumption ==
  /\ MaxFailures \in Nat \ {0}
  /\ Window \in Nat

Ages == 0 .. Window

IsLimited(attempts, k) == Len(attempts[k]) >= MaxFailures

AddFailure(attempts, k) == [attempts EXCEPT ![k] = Append(@, 0)]

Clear(attempts, k) == [attempts EXCEPT ![k] = <<>>]

\* One unit of time passes: what gets older than the window leaves at the front
Older(attempts) ==
  [k \in Keys |->
     LET inside == Cardinality({i \in DOMAIN attempts[k] : attempts[k][i] < Window})
     IN  [i \in 1 .. inside |-> attempts[k][Len(attempts[k]) - inside + i] + 1]]
=============================================================================
