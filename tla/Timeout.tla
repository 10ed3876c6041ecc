------------------------------ MODULE Timeout ------------------------------
(* From --timeout to the statement_timeout a connection is opened with: a   *)
(* time.Duration in nanoseconds, checked to be positive and then rounded to *)
(* milliseconds in its own width.                                           *)
EXTENDS Integers

CONSTANTS
  Largest,        \* of a time.Duration: 2^63 - 1
  Millisecond,    \* time.Millisecond
  ServerLargest   \* the largest statement_timeout: 2^31 - 1

ASSUME TimeoutAssumption ==
  /\ Largest \in Nat /\ Millisecond \in Nat /\ ServerLargest \in Nat
  /\ 0 < Millisecond /\ 2 * Millisecond <= Largest

\* What PersistentPreRunE lets through.
Durations == 1..Largest

\* A sum past the largest duration comes back as a negative one.
Wrapped(x) == IF x > Largest THEN x - 2 * (Largest + 1) ELSE x

\* Go's division goes towards zero.
Quotient(x, y) == IF x >= 0 THEN x \div y ELSE -((-x) \div y)

\* Mutant: rounded down.
TimeoutMillisDown(d) == Quotient(d, Millisecond)

TimeoutMillis(d) == Quotient(Wrapped(d + Millisecond - 1), Millisecond)

\* statement_timeout is never 0, which is no timeout; one that the server
\* accepts is the least number of milliseconds that is no shorter than what
\* was asked for (timeoutMillis). The others it refuses, with the connection.
TimeoutKept ==
  \A d \in Durations :
    LET t == TimeoutMillis(d)
    IN /\ t # 0
       /\ t \in 1..ServerLargest => (t - 1) * Millisecond < d /\ d <= t * Millisecond
=============================================================================
