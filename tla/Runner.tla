------------------------------- MODULE Runner -------------------------------
(***************************************************************************)
(* One run of a program: the page's handle (client.ts, runBinary), the     *)
(* worker that batches its output (runner.worker.ts), and startGo with the *)
(* watchdog that reports a deadlock (go.ts).                               *)
(*                                                                         *)
(* The worker is one JavaScript thread.  While the Go program computes     *)
(* (prog = "first" until it yields, "runs" in a callback) nothing else     *)
(* happens; when it yields it has a timer (go._scheduledTimeouts), or a    *)
(* call into the filesystem whose answer is a microtask, or nothing, and   *)
(* then only the watchdog can end it.                                      *)
(* Output is a sequence of marks <<fd, char>>; a char counts one byte.     *)
(***************************************************************************)
EXTENDS Integers, Sequences

CONSTANTS Chars,       \* what a program prints
          OutputLimit, \* the cap on the output of a run (4 MB)
          MaxPrints    \* bound on the writes of the program

VARIABLES
  \* the page
  shown,        \* the output of the program that onOutput was called with
  failed,       \* onOutput was called with "runner failed"
  exited,       \* the settled promise: "open", "stopped" or the code
  \* the worker's port and thread
  alive,        \* the worker has not been terminated
  wire,         \* messages to the page
  \* runner.worker.ts
  buffered, bufferedFd, timer, truncated, total,
  \* go.ts and the program
  prog,         \* "loads", "first", "runs", "sleeps", "calls", "blocked", "ended"
  watchdog,     \* the interval is set
  idleTicks,
  printed,      \* what the program has printed
  verdict       \* how it ended: "none", "exit", "deadlock", "throws"

page == <<shown, failed, exited, alive>>
batch == <<buffered, bufferedFd, timer, truncated, total>>
go == <<prog, watchdog, idleTicks, printed, verdict>>
vars == <<page, wire, batch, go>>

Notice == <<2, "truncated">>
Deadlock == <<2, "deadlock">>
Crash == <<2, "error">>
AsFd(fd, text) == [i \in 1..Len(text) |-> <<fd, text[i]>>]

-----------------------------------------------------------------------------
\* The page: stop and the messages of the worker.  finish terminates the
\* worker, which empties the queue of its messages, and settles once.
Finish(v) ==
  /\ alive' = FALSE
  /\ wire' = <<>>
  /\ exited' = IF exited = "open" THEN v ELSE exited

PageReceives ==
  LET m == Head(wire)
  IN  /\ wire # <<>>
      /\ shown' = IF m.type = "output" THEN shown \o AsFd(m.fd, m.text) ELSE shown
      /\ failed' = (failed \/ m.type = "error")
      /\ IF m.type = "output" THEN wire' = Tail(wire) /\ UNCHANGED <<exited, alive>>
                              ELSE Finish(m.code)
      /\ UNCHANGED <<batch, go>>

Stop ==
  /\ Finish("stopped")
  /\ UNCHANGED <<shown, failed, batch, go>>

\* An error in the worker that nothing catches: its script cannot be loaded, or
\* the program dies in a callback.  The page prints a line and gives up.
WorkerFails ==
  /\ alive /\ prog \in {"loads", "runs"}
  /\ prog' = "ended" /\ verdict' = "throws"
  /\ wire' = Append(wire, [type |-> "error", code |-> "2"])
  /\ UNCHANGED <<page, batch, watchdog, idleTicks, printed>>

-----------------------------------------------------------------------------
\* runner.worker.ts, on records of its variables: b = [buf, fd, timer, cut,
\* total, wire].

Batch == [buf |-> buffered, fd |-> bufferedFd, timer |-> timer, cut |-> truncated,
          total |-> total, wire |-> wire]
SetBatch(b) == /\ buffered' = b.buf /\ bufferedFd' = b.fd /\ timer' = b.timer
               /\ truncated' = b.cut /\ total' = b.total /\ wire' = b.wire

Output(fd, text) == [type |-> "output", fd |-> fd, text |-> text]
Flush(b) ==
  [b EXCEPT !.buf = <<>>, !.timer = FALSE,
            !.wire = IF b.buf = <<>> THEN @ ELSE Append(@, Output(b.fd, b.buf))]

Cut(b) ==
  LET f == Flush([b EXCEPT !.cut = TRUE])
  IN  [f EXCEPT !.wire = Append(@, Output(Notice[1], <<Notice[2]>>))]

\* onOutput: late says whether more than 50 ms have passed since the last flush.
\* Output of the other descriptor flushes first.
Switch(b, fd) == [(IF fd # b.fd THEN Flush(b) ELSE b) EXCEPT !.fd = fd]
OnOutput(b, mark, late) ==
  LET counted == [b EXCEPT !.total = @ + 1]
      placed  == Switch(counted, mark[1])
      more    == [placed EXCEPT !.buf = Append(@, mark[2])]
  IN  IF b.cut THEN b
      ELSE IF counted.total > OutputLimit THEN Cut(counted)
      ELSE IF late THEN Flush(more)
      ELSE [more EXCEPT !.timer = TRUE]

\* The flush timer fires when the thread is free.
Free == prog \in {"sleeps", "blocked"}
FlushTimer ==
  /\ alive /\ timer /\ Free
  /\ SetBatch(Flush(Batch))
  /\ UNCHANGED <<page, go>>

\* The program's end: flush, then the exit message.
Ends(b, code) ==
  LET f == Flush(b)
  IN  SetBatch([f EXCEPT !.wire = Append(@, [type |-> "exit", code |-> code])])

-----------------------------------------------------------------------------
\* go.ts and the program.

\* The module is compiled and its instance made: the watchdog is set and the
\* program runs.
Starts ==
  /\ alive /\ prog = "loads"
  /\ prog' = "first" /\ watchdog' = TRUE
  /\ UNCHANGED <<page, wire, batch, idleTicks, printed, verdict>>

\* The binary cannot be compiled, or the program dies before it yields: the
\* error goes to the output and the code is 2.
Running == prog \in {"first", "runs"}
Throws ==
  /\ alive /\ prog \in {"loads", "first"}
  /\ prog' = "ended" /\ verdict' = "throws" /\ watchdog' = FALSE
  /\ printed' = Append(printed, Crash)
  /\ \E late \in BOOLEAN : Ends(OnOutput(Batch, Crash, late), "2")
  /\ UNCHANGED <<page, idleTicks>>

Prints ==
  /\ alive /\ Running /\ Len(printed) < MaxPrints
  /\ \E fd \in {1, 2}, char \in Chars, late \in BOOLEAN :
       /\ printed' = Append(printed, <<fd, char>>)
       /\ SetBatch(OnOutput(Batch, <<fd, char>>, late))
  /\ UNCHANGED <<page, prog, watchdog, idleTicks, verdict>>

\* The program yields with a timer set, in a call to the filesystem, or with
\* every goroutine blocked.
Yields ==
  /\ alive /\ Running
  /\ prog' \in {"sleeps", "calls", "blocked"}
  /\ UNCHANGED <<page, wire, batch, watchdog, idleTicks, printed, verdict>>

\* A timer of the program fires, or the answer of the filesystem arrives.
Wakes ==
  /\ alive /\ prog \in {"sleeps", "calls"}
  /\ prog' = "runs"
  /\ UNCHANGED <<page, wire, batch, watchdog, idleTicks, printed, verdict>>

Exits ==
  /\ alive /\ Running
  /\ prog' = "ended" /\ verdict' = "exit" /\ watchdog' = FALSE
  /\ Ends(Batch, "0")
  /\ UNCHANGED <<page, idleTicks, printed>>

\* The watchdog's tick: microtasks come first, so a program in a call is never
\* seen.  At the second tick in a row without a timer it resumes the program,
\* whose runtime then reports that all goroutines are asleep, and exits.
\* NoTimers is a mutant that forgets to look for timers; TimersAlways, another,
\* takes the watchdog's own timer for one.
NoTimers == prog = "calls"
TimersAlways == prog # "calls"
Timers == prog = "sleeps"
Tick ==
  /\ alive /\ watchdog /\ prog \in {"sleeps", "blocked"}
  /\ IF Timers
     THEN /\ idleTicks' = 0
          /\ UNCHANGED <<wire, batch, prog, watchdog, printed, verdict>>
     ELSE IF idleTicks + 1 < 2
     THEN /\ idleTicks' = idleTicks + 1
          /\ UNCHANGED <<wire, batch, prog, watchdog, printed, verdict>>
     ELSE /\ idleTicks' = idleTicks + 1
          /\ watchdog' = FALSE
          /\ prog' = "ended" /\ verdict' = "deadlock"
          /\ printed' = Append(printed, Deadlock)
          /\ \E late \in BOOLEAN : Ends(OnOutput(Batch, Deadlock, late), "2")
  /\ UNCHANGED page

-----------------------------------------------------------------------------
Init ==
  /\ shown = <<>> /\ failed = FALSE /\ exited = "open" /\ alive = TRUE /\ wire = <<>>
  /\ buffered = <<>> /\ bufferedFd = 1 /\ timer = FALSE /\ truncated = FALSE /\ total = 0
  /\ prog = "loads" /\ watchdog = FALSE /\ idleTicks = 0 /\ printed = <<>> /\ verdict = "none"

Next == \/ PageReceives \/ Stop \/ WorkerFails \/ FlushTimer \/ Starts \/ Throws
        \/ Prints \/ Yields \/ Wakes \/ Exits \/ Tick

\* The event loops run what is due: a message, a tick of the watchdog, and the
\* flush timer, whose turn comes among the timers of a program that sleeps again
\* and again.  What the program does is its own.
Fairness == WF_vars(PageReceives) /\ SF_vars(FlushTimer) /\ WF_vars(Tick)

Spec == Init /\ [][Next]_vars
FairSpec == Spec /\ Fairness

-----------------------------------------------------------------------------
\* The variables keep their types; the flush timer is set while output waits.
RunTypeOK ==
  /\ failed \in BOOLEAN /\ alive \in BOOLEAN /\ timer \in BOOLEAN
  /\ truncated \in BOOLEAN /\ watchdog \in BOOLEAN
  /\ exited \in {"open", "stopped", "0", "2"}
  /\ bufferedFd \in {1, 2} /\ total \in 0..MaxPrints + 1 /\ idleTicks \in 0..2
  /\ prog \in {"loads", "first", "runs", "sleeps", "calls", "blocked", "ended"}
  /\ verdict \in {"none", "exit", "deadlock", "throws"}
  /\ timer <=> buffered # <<>>
  /\ \A i \in 1..Len(wire) : wire[i].type \in {"output", "exit", "error"}

\* What the page shows of what the program printed: all of it up to the cap,
\* and then the notice.
Wanted == IF Len(printed) <= OutputLimit THEN printed
          ELSE Append(SubSeq(printed, 1, OutputLimit), Notice)

Part(m) == IF m.type = "output" THEN AsFd(m.fd, m.text) ELSE <<>>
UpTo(w) ==
  LET text[i \in 0..Len(w)] == IF i = 0 THEN <<>> ELSE text[i - 1] \o Part(w[i])
  IN  text
Text(w) == UpTo(w)[Len(w)]

\* While the worker lives nothing the program printed is lost, doubled or
\* reordered on its way through the batch and the messages, and every part keeps
\* its descriptor (runner.worker.ts, flush and onOutput).
NothingLost ==
  alive => shown \o Text(wire) \o AsFd(bufferedFd, buffered) = Wanted

\* A run that ends by itself has shown everything before its promise settles;
\* only Stop and an error in the worker may cut its output short.
ExitShowsAll == exited \in {"0", "2"} /\ ~failed => shown = Wanted

\* After the promise has settled nothing more is shown, whatever the worker
\* still had to say (client.ts, finish).
QuietAfterwards == [][exited # "open" => UNCHANGED <<shown, exited>>]_vars

\* The watchdog ends only a program that nothing can wake (go.ts: "an empty
\* timer map means nothing will ever resume it").
DeadlockIsReal == [][verdict' = "deadlock" => prog = "blocked" \/ verdict = "deadlock"]_vars

\* A program whose goroutines all block ends by the watchdog's report, unless
\* Stop comes first.
BlockedEnds == prog = "blocked" ~> exited # "open"

\* Output in the batch is sent on, if the program yields again and again.
OutputAppears == []<>Free => (timer ~> (~timer \/ ~alive))

\* What a run keeps while it goes on and after its end.
RunKeeps == []RunTypeOK /\ []NothingLost /\ []ExitShowsAll /\ QuietAfterwards /\ DeadlockIsReal
=============================================================================
