------------------------------ MODULE Console ------------------------------
(***************************************************************************)
(* The console of the code pane (src/web/src/console.ts) and what the pane *)
(* hangs on it (CodePane.tsx): output of a program arrives in pieces that  *)
(* end anywhere, notes of the page come between them, and every line that  *)
(* ends is reported once, which is how the chips of the tests learn of     *)
(* their verdicts.                                                         *)
(*                                                                         *)
(* Text is a sequence of marks.  A mark is the newline or a record [say,   *)
(* test] that stands for a piece of a line: "=== RUN", "--- PASS:" or      *)
(* "--- FAIL:" with the name of a test, or any other text.                 *)
(***************************************************************************)
EXTENDS Integers, Sequences

CONSTANTS Tests,      \* the names of tests
          Named,      \* the tests among them that a scene judges
          Lazy,       \* the exercise has a spec, which is still to come
          NL, None,
          MaxLines,   \* the cap on the lines shown (20000)
          MaxPiece,   \* bound on the marks of a piece
          MaxMarks,   \* bound on the marks printed in all runs
          MaxRuns     \* bound on the runs

VARIABLES lines,     \* the children of the element: [text, kind, why]
          partial,   \* the line that has not ended: None or [text, fd]
          chips,     \* test |-> its chip: None, "running", "pass" or "fail"
          spec,      \* the spec has come
          busy,      \* None, or what runs: "test", "only" one test, "run" or "build"
          running,   \* its program has started
          cut,       \* history: the last tests were stopped, or did not build
          basis,     \* history: the chips when the page last set them itself, and
                     \* how many lines had been reported: [chips, after]
          runs,      \* history: how many runs there were
          said,      \* history: what was printed and noted since the last clear
          reported,  \* history: the lines reported since then
          marks      \* history: how many marks were printed

pane == <<spec, busy, running>>
history == <<cut, basis, runs, said, reported, marks>>
vars == <<lines, partial, chips, pane, history>>

Words == [say : {"run", "pass", "fail"}, test : Tests] \cup {[say |-> "text", test |-> None]}

\* A piece is a short text of one descriptor.
Pieces == UNION {[1..n -> Words \cup {NL}] : n \in 1..MaxPiece}

-----------------------------------------------------------------------------
\* Lines, as a record of the console's variables: c = [lines, partial, chips,
\* reported].  The hooks are called inside.

Now == [lines |-> lines, partial |-> partial, chips |-> chips, reported |-> reported]
Set(c) == /\ lines' = c.lines /\ partial' = c.partial
          /\ chips' = c.chips /\ reported' = c.reported

\* classify looks at the beginning of the line.
Classify(text, fd) ==
  CASE text # <<>> /\ Head(text).say = "fail" -> "fail"
    [] text # <<>> /\ Head(text).say = "pass" -> "pass"
    [] text # <<>> /\ Head(text).say = "run"  -> "dim"
    [] OTHER -> IF fd = 2 THEN "err" ELSE "plain"

\* append, with the cap.
Appended(shown, line) ==
  LET all == Append(shown, line)
  IN  SubSeq(all, IF Len(all) > MaxLines THEN 2 ELSE 1, Len(all))

\* render of the line that has not ended, which is the last one: a note ends it
\* before it adds its own.
Rendered(shown, text, kind, why) ==
  [shown EXCEPT ![Len(shown)] = [text |-> text, kind |-> kind, why |-> why]]

ExtendPartial(c, chunk, fd) ==
  LET p == IF c.partial = None THEN [text |-> chunk, fd |-> fd]
           ELSE [c.partial EXCEPT !.text = @ \o chunk]
  IN  [c EXCEPT !.partial = p,
                !.lines = Rendered(IF c.partial = None
                                   THEN Appended(@, [text |-> <<>>, kind |-> "plain", why |-> FALSE])
                                   ELSE @, p.text, "plain", FALSE)]

\* onLine: "=== RUN" must be the whole line, a verdict its beginning.
OnLine(old, text) ==
  IF text = <<>> THEN old
  ELSE LET word == Head(text)
       IN  CASE word.say = "run" /\ Len(text) = 1 -> [old EXCEPT ![word.test] = "running"]
             [] word.say \in {"pass", "fail"}     -> [old EXCEPT ![word.test] = word.say]
             [] OTHER                             -> old

\* seeWhy: a failing test whose name a scene has, once the spec is there.
SeeWhy(text, kind) == kind = "fail" /\ spec /\ Head(text).test \in Named

EndPartial(c) ==
  IF c.partial = None THEN c
  ELSE LET text == c.partial.text
           kind == Classify(text, c.partial.fd)
       IN  [c EXCEPT !.partial = None,
                     !.lines = Rendered(@, text, kind, SeeWhy(text, kind)),
                     !.chips = OnLine(@, text),
                     !.reported = Append(@, text)]

\* write: every part of the text but the last one ends a line; an empty last
\* part adds nothing.
Cut(d, text, i, fd) ==
  IF text[i] # NL THEN d
  ELSE [c    |-> EndPartial(ExtendPartial(d.c, SubSeq(text, d.from, i - 1), fd)),
        from |-> i + 1]
Cuts(c, text, fd) ==
  LET cuts[i \in 0..Len(text)] ==
        IF i = 0 THEN [c |-> c, from |-> 1] ELSE Cut(cuts[i - 1], text, i, fd)
  IN  cuts
Written(c, text, fd) ==
  LET d == Cuts(c, text, fd)[Len(text)]
  IN  IF d.from > Len(text) THEN d.c
      ELSE ExtendPartial(d.c, SubSeq(text, d.from, Len(text)), fd)

NoteLine(what, kind) == [text |-> <<[say |-> what, test |-> None]>>, kind |-> kind, why |-> FALSE]
Noted(c, what, kind) == [EndPartial(c) EXCEPT !.lines = Appended(@, NoteLine(what, kind))]

\* clear: a line that has not ended goes without a report.
Cleared(c) == [c EXCEPT !.lines = <<>>, !.partial = None, !.reported = <<>>]

-----------------------------------------------------------------------------
\* The pane.

\* What was said: descriptor 0 is the page.
Says(what) == <<0, [say |-> what, test |-> None]>>

\* The greeting waits for the spec, and only an empty console gets it.
Empty == lines = <<>>
Greet ==
  IF Empty THEN Set(Noted(Now, "greeting", "dim")) /\ said' = Append(said, Says("greeting"))
           ELSE UNCHANGED <<lines, partial, chips, reported, said>>
SpecComes ==
  /\ ~spec /\ spec' = TRUE
  /\ Greet
  /\ UNCHANGED <<busy, running, cut, basis, runs, marks>>

\* setTests beside a line: from now on the chips follow what is reported.
Marked(c) == basis' = [chips |-> c.chips, after |-> Len(c.reported)]
NoChips == [t \in Tests |-> None]

\* The Clear button, at any time.
Clear ==
  /\ Set(Cleared(Now)) /\ Marked(Cleared(Now))
  /\ said' = <<>>
  /\ UNCHANGED <<pane, cut, runs, marks>>

\* Reset of main.go takes the chips, at any time.
ResetTests ==
  /\ chips' = NoChips /\ Marked([Now EXCEPT !.chips = NoChips])
  /\ UNCHANGED <<lines, partial, reported, pane, cut, runs, said, marks>>

\* runTests, runMain and buildOnly begin with an empty console and the command.
\* All tests lose their chips, or the one that is run alone is running; the other
\* two leave the chips alone.
Begins(kind, marked) ==
  LET c == [Noted(Cleared(Now), "command", "cmd") EXCEPT !.chips = marked]
  IN  /\ busy = None /\ busy' = kind /\ runs < MaxRuns /\ runs' = runs + 1
      /\ Set(c) /\ Marked(c)
      /\ said' = <<Says("command")>> /\ cut' = FALSE
      /\ UNCHANGED <<spec, running, marks>>
StartRun ==
  \/ Begins("test", NoChips)
  \/ \E only \in Tests : Begins("only", [chips EXCEPT ![only] = "running"])
  \/ \E kind \in {"run", "build"} : Begins(kind, chips)

\* The build is there: the program starts.
ProgramStarts ==
  /\ busy \in {"test", "only", "run"} /\ ~running /\ running' = TRUE
  /\ UNCHANGED <<lines, partial, chips, spec, busy, history>>

Printed(text, fd) == said \o [i \in 1..Len(text) |-> <<fd, text[i]>>]
Counted(text) == marks + Len(text) <= MaxMarks /\ marks' = marks + Len(text)

Prints ==
  \E text \in Pieces, fd \in {1, 2} :
    /\ running /\ Counted(text)
    /\ Set(Written(Now, text, fd)) /\ said' = Printed(text, fd)
    /\ UNCHANGED <<pane, cut, basis, runs>>

\* A run is over, with this console, after all this was said.
Over(c, all) ==
  /\ Set(c) /\ said' = all
  /\ busy' = None /\ running' = FALSE
  /\ UNCHANGED <<spec, runs>>

\* The code does not build: the compiler's output, and of tests a note and no chips.
BuildFails ==
  \E text \in Pieces :
    /\ busy \in {"run", "build"} /\ ~running /\ Counted(text)
    /\ Over(Written(Now, text, 2), Printed(text, 2))
    /\ UNCHANGED <<cut, basis>>
TestsUnbuilt ==
  \E text \in Pieces :
    LET c == [Noted(Written(Now, text, 2), "end", "fail") EXCEPT !.chips = NoChips]
    IN  /\ busy \in {"test", "only"} /\ ~running /\ Counted(text)
        /\ Over(c, Append(Printed(text, 2), Says("end"))) /\ Marked(c)
        /\ cut' = TRUE

\* The tests pass, or a package is built that cannot run here; a note follows on
\* what the browser does not check, except after one test alone.
Passes ==
  LET c == Noted(Now, "end", "pass")
  IN  /\ IF running THEN busy \in {"test", "only"} ELSE busy = "build"
      /\ IF busy = "only" THEN Over(c, Append(said, Says("end")))
         ELSE Over(Noted(c, "hint", "dim"), Append(Append(said, Says("end")), Says("hint")))
      /\ UNCHANGED <<cut, basis, marks>>

\* A program exits with another code, or the call of the toolchain is rejected: a
\* note that reads like a failure, and a test that was running keeps its chip.
Fails ==
  /\ busy \in {"test", "only", "run"}
  /\ Over(Noted(Now, "end", "fail"), Append(said, Says("end")))
  /\ UNCHANGED <<cut, basis, marks>>

\* A main that ends well, and buildOnly whose call is rejected, note nothing.
EndsSilently ==
  /\ IF running THEN busy = "run" ELSE busy = "build"
  /\ Over(Now, said)
  /\ UNCHANGED <<cut, basis, marks>>

\* Stop, while the program runs: after the note no test is running.  Of a main the
\* chips stay.  A mutant, HaltedBefore, takes the chips before the note, which may end
\* a line that says a test runs.
NoneRuns(old) == [t \in Tests |-> IF old[t] = "running" THEN None ELSE old[t]]
HaltedBefore(c) == Noted([c EXCEPT !.chips = NoneRuns(@)], "end", "fail")
Halted(c) == [Noted(c, "end", "fail") EXCEPT !.chips = NoneRuns(@)]
Stopped ==
  /\ running
  /\ \/ /\ busy = "run"
        /\ Over(Noted(Now, "end", "fail"), Append(said, Says("end")))
        /\ UNCHANGED <<cut, basis>>
     \/ /\ busy \in {"test", "only"}
        /\ Over(Halted(Now), Append(said, Says("end"))) /\ Marked(Halted(Now))
        /\ cut' = TRUE
  /\ UNCHANGED marks

Init ==
  /\ spec = ~Lazy /\ busy = None /\ running = FALSE /\ partial = None
  /\ lines = IF Lazy THEN <<>> ELSE <<NoteLine("greeting", "dim")>>
  /\ said = IF Lazy THEN <<>> ELSE <<Says("greeting")>>
  /\ chips = NoChips /\ basis = [chips |-> NoChips, after |-> 0] /\ cut = FALSE
  /\ runs = 0 /\ reported = <<>> /\ marks = 0

Next ==
  \/ SpecComes \/ Clear \/ ResetTests
  \/ StartRun \/ ProgramStarts \/ Prints
  \/ BuildFails \/ TestsUnbuilt \/ Passes \/ Fails \/ EndsSilently \/ Stopped
Spec == Init /\ [][Next]_vars

-----------------------------------------------------------------------------
\* The variables keep their types, and a line that has not ended is the last
\* one shown.
ConsoleTypeOK ==
  /\ Len(lines) <= MaxLines
  /\ \A t \in Tests : chips[t] \in {None, "running", "pass", "fail"}
  /\ partial # None => lines # <<>> /\ lines[Len(lines)].text = partial.text /\ partial.fd \in {1, 2}
  /\ {spec, running, cut} \subseteq BOOLEAN /\ busy \in {None, "test", "only", "run", "build"}
  /\ running => busy \in {"test", "only", "run"}

\* What was said, one mark at a time: a line ends at a newline or before a note,
\* and belongs to the descriptor that began it.  The result is [ended, told, open]:
\* every line that has ended as [text, fd], the texts of those of the program,
\* and the line that has not ended.
Ended(r) ==
  IF r.open = None THEN r
  ELSE [ended |-> Append(r.ended, r.open), told |-> Append(r.told, r.open.text), open |-> None]
Begun(r, fd) == IF r.open = None THEN [r EXCEPT !.open = [text |-> <<>>, fd |-> fd]] ELSE r
ReadMark(r, m) ==
  IF m[1] = 0 THEN [Ended(r) EXCEPT !.ended = Append(@, [text |-> <<m[2]>>, fd |-> 0])]
  ELSE IF m[2] = NL THEN Ended(Begun(r, m[1]))
  ELSE [Begun(r, m[1]) EXCEPT !.open.text = Append(@, m[2])]
Reads(all) ==
  LET reads[k \in 0..Len(all)] ==
        IF k = 0 THEN [ended |-> <<>>, told |-> <<>>, open |-> None]
        ELSE ReadMark(reads[k - 1], all[k])
  IN  reads
Read == Reads(said)[Len(said)]

\* However the output was cut into pieces, the console shows its lines, the last
\* MaxLines of them, each with its kind (console.ts, write and append; the pieces
\* are cut by the batches of runner.worker.ts and by the program's writes).
AllLines(r) == IF r.open = None THEN r.ended ELSE Append(r.ended, r.open)
LinesAreTheText ==
  LET all == AllLines(Read)
  IN  /\ Len(lines) = IF Len(all) > MaxLines THEN MaxLines ELSE Len(all)
      /\ \A i \in 1..Len(lines) :
           LET line == all[i + (Len(all) - Len(lines))]
           IN  /\ lines[i].text = line.text
               /\ line.fd # 0 /\ ~(i = Len(lines) /\ partial # None) =>
                    lines[i].kind = Classify(line.text, line.fd)

\* "onLine fires for every complete line of program output" (console.ts:16), once
\* and in order; a note completes a line that had no newline.
ReportedOnce == reported = Read.told

\* A chip says what the last line about its test said since the page set the chips
\* itself, and what it said then if there was none: lines of a main, of a build or
\* of another test change nothing (CodePane.tsx, onLine and setTests).
About(text, t) ==
  text # <<>> /\ Head(text).test = t /\ (Head(text).say # "run" \/ Len(text) = 1)
Verdict(text) == IF Head(text).say = "run" THEN "running" ELSE Head(text).say
ChipsFollowLines ==
  \A t \in Tests :
    LET about == {k \in (basis.after + 1)..Len(reported) : About(reported[k], t)}
    IN  /\ about = {} => chips[t] = basis.chips[t]
        /\ \A k \in about : (\A j \in about : j <= k) => chips[t] = Verdict(reported[k])

\* After tests that were stopped, or that did not build, no chip runs until the next
\* run, whatever line the note has ended (CodePane.tsx:193,206-207).  Tests that end
\* in any other way may leave one that runs.
StopClears == busy = None /\ cut => \A t \in Tests : chips[t] # "running"

\* The greeting is never written below something else, nor twice, whenever the
\* spec comes ("Writing only into an empty console makes the effect safe to
\* re-run", CodePane.tsx:420-421).
GreetingFirst == \A i \in 2..Len(said) : said[i] # Says("greeting")

\* What the console shows, reports and marks is what was said.
ConsoleInv == ConsoleTypeOK /\ LinesAreTheText /\ ReportedOnce /\ ChipsFollowLines /\ StopClears /\ GreetingFirst
=============================================================================
