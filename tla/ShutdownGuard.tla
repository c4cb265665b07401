---------------------------- MODULE ShutdownGuard ----------------------------
(***************************************************************************)
(* failure_classifier::ShutdownGuard: a sliding window of connection       *)
(* outcomes over all transports and endpoints; when too many failed, the   *)
(* engine must not dial for `cooldown_ticks' ticks.                        *)
(*                                                                         *)
(* The engine's ticks only grow and are only compared with each other.  A  *)
(* tick is therefore kept as its age, the number of ticks drawn since it,  *)
(* and cooldown_until as the distance to it from the last tick drawn.      *)
(***************************************************************************)
EXTENDS Integers, Sequences, SequencesExt

CONSTANTS
  WindowSize,      \* window_size
  CooldownTicks,   \* cooldown_ticks
  NoCooldown,      \* cooldown_until: None
  MaxAge           \* bound on the age of a tick that is not used yet

ASSUME GuardAssumption ==
  /\ WindowSize \in Nat /\ CooldownTicks \in Nat /\ MaxAge \in Nat
  /\ NoCooldown \notin Int

VARIABLES
  window,   \* the outcomes, oldest first: TRUE for a success
  left      \* cooldown_until, minus the last tick drawn

guard == <<window, left>>

\* Mutant: the failures that armed the cooldown are kept.
AfterKept == window

\* failure_fraction() >= 0.75 on a full window.
TooMany(w) ==
  /\ Len(w) >= Max({WindowSize, 4})
  /\ 4 * Len(SelectSeq(w, LAMBDA ok : ~ok)) >= 3 * Len(w)

Cooling(age) == left # NoCooldown /\ left + age > 0

\* The window as the check finds it: cleared when a cooldown has run out.
After == IF left = NoCooldown THEN window ELSE <<>>

\* One more tick is drawn.
Tick == left' = IF left = NoCooldown THEN left ELSE Max({left - 1, -MaxAge})

record(ok) ==
  /\ window' = Append(IF Len(window) >= WindowSize THEN Tail(window)
                      ELSE window, ok)
  /\ UNCHANGED left

\* should_suppress_switching, answering TRUE.
Suppress(age) ==
  \/ Cooling(age) /\ UNCHANGED guard
  \/ /\ ~Cooling(age)
     /\ TooMany(After)
     /\ window' = After
     /\ left' = CooldownTicks - age

\* should_suppress_switching, answering FALSE.
Proceed(age) ==
  /\ ~Cooling(age)
  /\ ~TooMany(After)
  /\ window' = After
  /\ left' = NoCooldown

GuardInit == window = <<>> /\ left = NoCooldown
=============================================================================
