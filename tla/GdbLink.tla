-------------------------------- MODULE GdbLink --------------------------------
(***************************************************************************)
(* What the GDB packet layer promises its two ends, stated without a      *)
(* serial line: the host's commands are executed in the order it issues   *)
(* them, each at least once, and the host takes a reply for a command     *)
(* only after the stub executed that command, and moves to the next       *)
(* command only then.  A command may be executed again (at-least-once), *)
(* but never one the host has already had its reply to.                  *)
(***************************************************************************)
EXTENDS Naturals, Sequences, SequencesExt

CONSTANT N            \* commands the host issues, numbered 1..N

VARIABLES
  execs,    \* command numbers in the order the stub executed them
  answers   \* command numbers in the order the host accepted their replies

Current == Len(answers) + 1

Init == execs = <<>> /\ answers = <<>>

\* The stub executes the command the host is waiting on.
Exec ==
  /\ Current <= N
  /\ execs' = Append(execs, Current)
  /\ UNCHANGED answers

\* The host accepts the reply to its current command, which the stub has
\* executed last.
Answer ==
  /\ Current <= N
  /\ execs # <<>>
  /\ Last(execs) = Current
  /\ answers' = Append(answers, Current)
  /\ UNCHANGED execs

Spec == Init /\ [][Exec \/ Answer]_<<execs, answers>>

=============================================================================
