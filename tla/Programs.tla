------------------------------ MODULE Programs ------------------------------
(***************************************************************************)
(* The programs of the exercises, where they run: under the checker of the *)
(* repository (module Checker), in a worker of the page (Runner) and on    *)
(* the page's filesystem (MemFS).  The three share nothing, so what is     *)
(* claimed of each is claimed of its own variables.                        *)
(***************************************************************************)
EXTENDS Checker, Sequences

CONSTANTS
  Chars, OutputLimit, MaxPrints,           \* of a run
  Paths, FlagSets, Bytes, Position,        \* of the filesystem
  MaxIno, MaxFd, MaxLen, MinCap

ASSUME ProgramsAssumption ==
  /\ OutputLimit \in Nat /\ MaxPrints \in Nat
  /\ \A path \in Paths : path.abs \in BOOLEAN /\ path.parts \in Seq(STRING)
  /\ Bytes \subseteq Nat /\ 0 \in Bytes
  /\ MaxLen \in Nat \ {0} /\ MinCap \in Nat

VARIABLES
  shown, failed, exited, alive, wire, buffered, bufferedFd, timer, truncated, total,
  prog, watchdog, idleTicks, printed, verdict,
  dirs, data, size, fds, nextFd, cwdPath, res

Run == INSTANCE Runner
\* Programs that do not write past the end of a file.
FS == INSTANCE MemFS WITH Gaps <- FALSE

runVars == <<shown, failed, exited, alive, wire, buffered, bufferedFd, timer, truncated,
             total, prog, watchdog, idleTicks, printed, verdict>>
fsVars == <<dirs, data, size, fds, nextFd, cwdPath, res>>

-----------------------------------------------------------------------------
(* What is claimed of each part, in the words of its module; CheckInv, which *)
(* is claimed of the checker, has its name from there.                       *)

\* Output is neither lost nor doubled nor reordered, nothing is shown after the
\* promise has settled, and the watchdog ends only a program that nothing can
\* wake (runner.worker.ts, client.ts, go.ts).
RunKeeps == Run!RunKeeps

\* The tree is one at any time, a call that fails takes nothing away, and another
\* takes one name at most (memfs.ts).
TreeKeeps == []FS!MemTypeOK /\ []FS!OneName /\ FS!FailureKeeps /\ FS!LosesOne

\* A file is the sequence of bytes that were written to it (module Files).
FileSpec == FS!FileSpec
=============================================================================
