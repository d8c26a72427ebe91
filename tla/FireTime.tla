------------------------------ MODULE FireTime ------------------------------
(***************************************************************************)
(* When the watchdog is to answer: deadline_fire_time of client.c, and the *)
(* conversion of min_margin_ns to clock ticks in client_initialize.        *)
(*                                                                         *)
(* The arithmetic is that of unsigned integers modulo Modulus (2^64).  The *)
(* part of the remaining time given by deadline_margin goes through a      *)
(* double; here it may be any number, which covers every margin that       *)
(* client_initialize accepts and every rounding.                           *)
(***************************************************************************)
EXTENDS Integers

CONSTANTS
  Modulus,        \* 2^64 in the code
  Numer, Denom    \* mach_timebase_info: nanoseconds are ticks * Numer / Denom

ASSUME FireTimeAssumption ==
  /\ Modulus \in Nat \ {0}
  /\ Numer \in Nat \ {0} /\ Denom \in Nat \ {0}

Words == 0 .. Modulus - 1

Minus(a, b) == (a - b) % Modulus
Product(a, b) == (a * b) % Modulus

\* Variant: no care is taken of the overflow.
MinMarginTicksWrapped(ns) == Product(ns, Denom) \div Numer

\* client->min_margin_ticks, computed once from the option.
MinMarginTicks(ns) ==
  IF ns > (Modulus - 1) \div Denom THEN Modulus - 1
                                   ELSE Product(ns, Denom) \div Numer

\* Variant: the minimum is not applied.
FireTimeNoMinimum(now, deadline, share, minimum) ==
  LET remaining == Minus(deadline, now) IN
  IF deadline <= now \/ share >= remaining THEN now ELSE Minus(deadline, share)

\* deadline_fire_time; share is remaining * deadline_margin.
DeadlineFireTime(now, deadline, share, minimum) ==
  LET remaining == Minus(deadline, now)
      advance == IF share < minimum THEN minimum ELSE share
  IN
  IF deadline <= now \/ advance >= remaining THEN now ELSE Minus(deadline, advance)
-----------------------------------------------------------------------------
VARIABLES
  min_margin_ns,      \* the option
  min_margin_ticks,
  now, deadline,      \* the clock when the message came, and its deadline
  fire_at             \* slot->fire_at

vars == <<min_margin_ns, min_margin_ticks, now, deadline, fire_at>>

Init ==
  /\ min_margin_ns \in Words
  /\ min_margin_ticks = MinMarginTicks(min_margin_ns)
  /\ now = 0 /\ deadline = 0 /\ fire_at = 0

\* handle_message, for an AUTH message with deadline d.
HandleAuth(n, d, share) ==
  /\ n >= now
  /\ now' = n /\ deadline' = d
  /\ fire_at' = DeadlineFireTime(n, d, share, min_margin_ticks)
  /\ UNCHANGED <<min_margin_ns, min_margin_ticks>>

Next == \E n, d, share \in Words : HandleAuth(n, d, share)

Spec == Init /\ [][Next]_vars
-----------------------------------------------------------------------------
\* Every variable is a machine word (the proofs rest on it).
TypeOK ==
  /\ min_margin_ns \in Words /\ min_margin_ticks \in Words
  /\ now \in Words /\ deadline \in Words /\ fire_at \in Words

\* The watchdog is never asked to answer before the message came; and either
\* the answer is due at once, or the minimum margin is left before the
\* deadline.  No margin, however large, makes the subtraction wrap round to a
\* time far away.
FiresInWindow ==
  /\ fire_at >= now
  /\ fire_at > now => deadline - fire_at >= min_margin_ticks

\* A huge minimum margin is not turned into a small one by the overflow of
\* its conversion: the ticks are worth the nanoseconds, but for rounding, or
\* as many as there are.
MarginSurvivesConversion ==
  \/ (min_margin_ticks + 1) * Numer > min_margin_ns * Denom
  \/ min_margin_ticks = Modulus - 1
=============================================================================
