--------------------------- MODULE SlidingWindow ---------------------------
(***************************************************************************)
(* What a rate limiter promises that forgets nothing: an attempt is allowed *)
(* if and only if fewer than MaxAttempts were allowed within the window that *)
(* ends now.                                                                *)
(***************************************************************************)
EXTENDS Integers, Sequences, FiniteSets

CONSTANTS MaxAttempts, Window, Horizon, MaxRefused

VARIABLES
  now,
  admitted,   \* the times of all the attempts that were allowed
  refused     \* how many were refused, for the bound

WindowVars == <<now, admitted, refused>>

WithinWindow == {k \in DOMAIN admitted : admitted[k] >= now - Window}
Full == Cardinality(WithinWindow) >= MaxAttempts

WindowInit == now = 0 /\ admitted = <<>> /\ refused = 0

Allow ==
  /\ ~Full
  /\ admitted' = Append(admitted, now)
  /\ UNCHANGED <<now, refused>>

Deny ==
  /\ Full
  /\ refused < MaxRefused
  /\ refused' = refused + 1
  /\ UNCHANGED <<now, admitted>>

TimePasses ==
  /\ now < Horizon
  /\ now' = now + 1
  /\ UNCHANGED <<admitted, refused>>

WindowNext == Allow \/ Deny \/ TimePasses

Spec == WindowInit /\ [][WindowNext]_WindowVars
=============================================================================
