---------------------------- MODULE ProgramLoad ----------------------------
(***************************************************************************)
(* Program::load (redbpf/src/lib.rs), one system call at a time: the first *)
(* attempt without a log buffer, the attempt after raising RLIMIT_MEMLOCK  *)
(* when the kernel answered EPERM, and the attempts that only reproduce    *)
(* the error to obtain the verifier's log, with a buffer that doubles as   *)
(* long as it is too small.                                                *)
(***************************************************************************)
EXTENDS Integers

CONSTANTS
  MaxLog,    \* the largest log buffer the kernel accepts, in units of 64 KiB
  LogSizes   \* the possible sizes of the verifier's log, in the same unit

ASSUME LoadAssumption == MaxLog \in Nat /\ LogSizes \subseteq Nat

VARIABLES
  env,     \* the program, the privileges and the kernel: fixed
  limit,   \* RLIMIT_MEMLOCK: "low" or "infinity"
  lpc,      \* the next system call
  vecLen,  \* size of the log buffer, in units of 64 KiB
  fd,      \* ProgramData::fd: set or not
  opened,  \* descriptors the kernel has returned (history)
  hiccup,  \* an attempt of this call met a transient failure (history)
  result   \* what load() returns

loadVars == <<env, limit, lpc, vecLen, fd, opened, hiccup, result>>

Env == [accepted : BOOLEAN,    \* the verifier accepts the program
        log      : LogSizes,   \* size of the verifier's log
        bpf      : BOOLEAN,    \* the process may load programs
        memlock  : BOOLEAN,    \* memory counts against RLIMIT_MEMLOCK (before 5.11)
        fits     : BOOLEAN,    \* ... and fits the low limit
        resource : BOOLEAN]    \* the process may raise the limit

LoadInit ==
  /\ env \in Env
  /\ limit = "low" /\ lpc = "first" /\ vecLen = 1
  /\ fd = FALSE /\ opened = 0 /\ hiccup = FALSE /\ result = "none"

\* bpf_load_program_xattr (external): what the kernel answers to an attempt
\* with a log buffer of the given size (0: none).  One transient failure per
\* call is possible (bound: more of them only end the call earlier).
Answers(size) ==
  (IF hiccup THEN {} ELSE {"EAGAIN"}) \cup
    (IF ~env.bpf \/ (env.memlock /\ ~env.fits /\ limit = "low") THEN {"EPERM"}
     ELSE IF size > MaxLog THEN {"EINVAL"}
     ELSE IF size > 0 /\ env.log > size THEN {"ENOSPC"}
     ELSE IF env.accepted THEN {"fd"} ELSE {"EACCES"})

\* The attempt returns a descriptor: it is recorded and load() returns Ok.
Success ==
  /\ fd' = TRUE /\ opened' = opened + 1
  /\ result' = "Ok" /\ lpc' = "done"
  /\ UNCHANGED <<vecLen, hiccup>>

FirstAttempt ==
  /\ lpc = "first"
  /\ \E a \in Answers(0) :
       \/ a = "fd" /\ Success
       \/ /\ a # "fd"
          /\ hiccup' = (hiccup \/ a = "EAGAIN")
          /\ lpc' = IF a = "EPERM" THEN "setrlimit" ELSE "log"
          /\ UNCHANGED <<vecLen, fd, opened, result>>
  /\ UNCHANGED <<env, limit>>

\* Mutant of RaiseLimit: the new limit is computed but never set.
RaiseLimitNoRetry ==
  /\ lpc = "setrlimit"
  /\ IF env.resource
     THEN lpc' = "log" /\ UNCHANGED limit
     ELSE lpc' = "log" /\ UNCHANGED limit
  /\ UNCHANGED <<env, vecLen, fd, opened, hiccup, result>>

\* getrlimit and setrlimit.
RaiseLimit ==
  /\ lpc = "setrlimit"
  /\ IF env.resource
     THEN limit' = "infinity" /\ lpc' = "retry"
     ELSE lpc' = "log" /\ UNCHANGED limit
  /\ UNCHANGED <<env, vecLen, fd, opened, hiccup, result>>

Retry ==
  /\ lpc = "retry"
  /\ \E a \in Answers(0) :
       \/ a = "fd" /\ Success
       \/ /\ a # "fd"
          /\ hiccup' = (hiccup \/ a = "EAGAIN")
          /\ lpc' = "log"
          /\ UNCHANGED <<vecLen, fd, opened, result>>
  /\ UNCHANGED <<env, limit>>

\* Mutant of LogAttempt: the buffer keeps its size.
LogAttemptFixed ==
  /\ lpc = "log"
  /\ \E a \in Answers(vecLen) :
       \/ a = "fd" /\ Success
       \/ /\ a = "ENOSPC"
          /\ hiccup' = (hiccup \/ a = "EAGAIN")
          /\ UNCHANGED vecLen
          /\ UNCHANGED <<lpc, fd, opened, result>>
       \/ /\ a \notin {"fd", "ENOSPC"}
          /\ hiccup' = (hiccup \/ a = "EAGAIN")
          /\ result' = "BPF" /\ lpc' = "done"
          /\ UNCHANGED <<vecLen, fd, opened>>
  /\ UNCHANGED <<env, limit>>

LogAttempt ==
  /\ lpc = "log"
  /\ \E a \in Answers(vecLen) :
       \/ a = "fd" /\ Success
       \/ /\ a = "ENOSPC"
          /\ hiccup' = (hiccup \/ a = "EAGAIN")
          /\ vecLen' = vecLen * 2
          /\ UNCHANGED <<lpc, fd, opened, result>>
       \/ /\ a \notin {"fd", "ENOSPC"}
          /\ hiccup' = (hiccup \/ a = "EAGAIN")
          /\ result' = "BPF" /\ lpc' = "done"
          /\ UNCHANGED <<vecLen, fd, opened>>
  /\ UNCHANGED <<env, limit>>

\* A later call: the program that is loaded is not loaded again, the one that
\* is not may be tried again.
LoadAgain ==
  /\ lpc = "done"
  /\ IF fd
     THEN result' = "ProgramAlreadyLoaded" /\ UNCHANGED <<lpc, vecLen, hiccup>>
     ELSE result' = "none" /\ lpc' = "first" /\ vecLen' = 1 /\ hiccup' = FALSE
  /\ UNCHANGED <<env, limit, fd, opened>>

Call == FirstAttempt \/ RaiseLimit \/ Retry \/ LogAttempt

LoadNext == Call \/ LoadAgain

\* load() runs to its end; nothing makes the caller call it again.
LoadSpec == LoadInit /\ [][LoadNext]_loadVars /\ WF_loadVars(Call)

-----------------------------------------------------------------------------
\* The several attempts of several calls never leave a second descriptor, and
\* an error never leaves one: what the kernel has handed out is recorded.  And
\* load() fails only for a reason: the verifier refuses the program, the
\* process lacks a privilege, or an attempt met a transient failure.  The size
\* of the verifier's log never decides, nor does the low default limit.
LoadOutcome ==
  /\ opened = IF fd THEN 1 ELSE 0
  /\ result = "BPF" =>
       /\ ~fd
       /\ \/ ~env.accepted
          \/ ~env.bpf
          \/ env.memlock /\ ~env.fits /\ ~env.resource
          \/ hiccup

\* The loop "while !printed" ends: load() returns.
LoadReturns == (lpc = "first") ~> (lpc = "done")
=============================================================================
