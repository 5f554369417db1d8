---------------------------- MODULE EventStream ----------------------------
(***************************************************************************)
(* What the stream of one perf buffer promises to the owner of Loaded:     *)
(* the records the kernel publishes are taken one by one, in order and     *)
(* never twice, each is passed on or consumed silently (a LOST record, a   *)
(* record of unknown type), and nothing is passed on once the stream has   *)
(* ended.                                                                  *)
(***************************************************************************)
EXTENDS Naturals, Sequences

VARIABLES
  written,   \* number of records the kernel has published
  taken,     \* number of records the stream has taken
  passed,    \* numbers of the records passed on as messages, in order
  open       \* FALSE once the stream has ended

vars == <<written, taken, passed, open>>

Init == written = 0 /\ taken = 0 /\ passed = <<>> /\ open = TRUE

Publish ==
  /\ written' \in Nat /\ written' > written
  /\ UNCHANGED <<taken, passed, open>>

\* One turn of the loop in PerfMessageStream::read_messages.
Take ==
  /\ open = TRUE
  /\ taken < written
  /\ taken' = taken + 1
  /\ passed' \in {passed, Append(passed, taken + 1)}
  /\ UNCHANGED <<written, open>>

\* poll_next returns None, or the closure of for_each panics.
End ==
  /\ open = TRUE
  /\ open' = FALSE
  /\ UNCHANGED <<written, taken, passed>>

Next == Publish \/ Take \/ End

Spec == Init /\ [][Next]_vars
=============================================================================
