------------------------------ MODULE DurableLog ------------------------------
(***************************************************************************)
(* What the Agent event store promises about one Session, with no files,   *)
(* processes or queues in it: there is one log that only ever grows, and   *)
(* what anybody has been shown of it is a prefix of what a restart finds.  *)
(*                                                                         *)
(*   log   the events a restart of the program would load                  *)
(*   seen  the events some reader may already have acted upon              *)
(***************************************************************************)
EXTENDS Naturals, Sequences

VARIABLES log, seen

vars == <<log, seen>>

Extends(short, long) ==
  /\ Len(short) <= Len(long)
  /\ SubSeq(long, 1, Len(short)) = short

Init == log = <<>> /\ seen = <<>>

(* Events reach the log before anybody is shown them.                      *)
Write == /\ log' # log
         /\ Extends(log, log')
         /\ UNCHANGED seen

(* Readers are shown more of what is already in the log.                   *)
Reveal == /\ seen' # seen
          /\ Extends(seen, seen')
          /\ Extends(seen', log)
          /\ UNCHANGED log

Next == Write \/ Reveal

Spec == Init /\ [][Next]_vars

=============================================================================
