------------------------------ MODULE CodePane ------------------------------
(***************************************************************************)
(* The editor and its console (src/web/src/components/CodePane.tsx) with   *)
(* what it keeps in the browser (storage.ts).  One exercise; its pane is   *)
(* mounted and unmounted as the learner moves about, while builds and runs *)
(* it has started go on.  The toolchain answers builds in their order      *)
(* (module Toolchain) or dies and answers none, a run ends by itself or is *)
(* stopped (module Runner), and the storage may drop what is saved.        *)
(*                                                                         *)
(* A version of main.go is a member of Codes; Behaves says what becomes of *)
(* it and Formatted what gofmt makes of it.                                *)
(***************************************************************************)
EXTENDS Integers, Sequences, FiniteSets

CONSTANTS Codes,      \* versions of main.go
          Scaffolds,  \* the versions among them that the site has published
          Behaves,    \* code |-> "broken", "fails", "passes" or "loops"
          Formatted,  \* code |-> what gofmt makes of it
          None,       \* no saved code, no status, no diagnostics
          MaxPanes,   \* bound on how often the pane is mounted
          MaxJobs,    \* bound on the runs started
          MaxEdits,   \* bound on the edits
          MaxFaults   \* bound on what goes wrong or comes from outside: builds, tools and
                      \* storages that fail, other pages that save, new versions

ASSUME PaneAssumption ==
  /\ Scaffolds \subseteq Codes
  /\ None \notin Codes \cup [code : Codes, base : Scaffolds]
  /\ None \notin {"passed", "failed", "test", "run", "build"}
  /\ Behaves \in [Codes -> {"broken", "fails", "passes", "loops"}]
  /\ Formatted \in [Codes -> Codes]
  /\ MaxPanes \in Nat /\ MaxJobs \in Nat /\ MaxEdits \in Nat /\ MaxFaults \in Nat

VARIABLES
  scaffold,   \* the published main.go
  \* localStorage
  stored,     \* the code: None or [code, base]
  savedStatus,
  throws,     \* it throws when something is saved
  \* the app
  status,     \* the status of the exercise, as its next render shows it
  phase,      \* of the toolchain: "loading", "ready" or "error"
  \* the pane
  pane,       \* how often the pane was mounted
  mounted,
  seen,       \* statusRef.current: the status of the last render
  content,    \* the text of main.go in the editor
  saveTimer, checkTimer,  \* the debounced save and check are due
  inflight, again,        \* check.inflight and check.again
  stale,      \* the banner that the exercise has changed is shown
  markers,    \* the version whose diagnostics the editor shows
  busy,       \* None, or the kind of job that runs
  runRef,     \* 0, or the job whose run the Stop button reaches
  formats,    \* gofmt calls on their way: [src, pane]
  \* the builds and runs
  queue,      \* builds that wait for the toolchain
  jobs,       \* job |-> [kind, only, code, pane, at]
  \* history
  kept,       \* the storage has what this page saved or loaded last
  judged,     \* the version the status is about, None if it came too late
  overtaken,  \* jobs that went on while the text changed
  edits,      \* how many edits there were
  faults,     \* how much went wrong or came from outside
  refused     \* a build was rejected, or crashed

storage == <<stored, savedStatus, throws, kept>>
verdict == <<status, seen, judged>>
editor == <<content, saveTimer, checkTimer, stale>>
checking == <<inflight, again, markers>>
running == <<busy, runRef, queue, jobs>>
history == <<overtaken, edits, faults, refused>>
vars == <<scaffold, storage, verdict, phase, pane, mounted, editor, checking, running, formats, history>>

Plus(f, x, v) == [y \in DOMAIN f \cup {x} |-> IF y = x THEN v ELSE f[y]]

-----------------------------------------------------------------------------
\* Storage.

\* loadCode, or the scaffold without it.
Loaded(saved, base) == IF saved = None THEN base ELSE saved.code

\* set(): a storage that throws keeps what it had.
Written(old, new) == IF throws THEN old ELSE new

\* saveCode: code that is the scaffold is not kept.  clearCode removes it.
Saved(code) == IF code = scaffold THEN None ELSE [code |-> code, base |-> scaffold]
Store(new) == stored' = Written(stored, new) /\ kept' = (stored' = new)
SaveCode(code) == Store(Saved(code))

\* App.setStatus: the status is saved, and shown by the next render.
SetStatus(s) == status' = s /\ savedStatus' = Written(savedStatus, s)

\* Something goes wrong, or comes from outside, once more.
Fault == faults < MaxFaults /\ faults' = faults + 1

\* The storage is full, or works again.
StorageTurns ==
  /\ IF throws THEN UNCHANGED faults ELSE Fault
  /\ throws' = ~throws
  /\ UNCHANGED <<scaffold, stored, savedStatus, kept, verdict, phase, pane, mounted, editor, checking,
                 running, formats, overtaken, edits, refused>>

\* Another page with the same exercise saves its code or its status.
OtherPage ==
  /\ Fault
  /\ \/ /\ stored' \in {None} \cup [code : Codes, base : {scaffold}]
        /\ kept' = FALSE
        /\ UNCHANGED savedStatus
     \/ /\ savedStatus' \in {None, "passed", "failed"}
        /\ UNCHANGED <<stored, kept>>
  /\ UNCHANGED <<scaffold, throws, verdict, phase, pane, mounted, editor, checking, running, formats,
                 overtaken, edits, refused>>

-----------------------------------------------------------------------------
\* The live check.

\* request("check") goes to the toolchain, or to its place in again.  A mutant,
\* RunCheckDrops, does not remember it.
RunCheckDrops(text, q) ==
  IF inflight THEN UNCHANGED <<inflight, again>> /\ queue' = q
  ELSE /\ inflight' = TRUE /\ UNCHANGED again
       /\ queue' = Append(q, [what |-> "check", code |-> text, pane |-> pane, job |-> 0])
RunCheck(text, q) ==
  IF inflight THEN again' = TRUE /\ UNCHANGED inflight /\ queue' = q
  ELSE /\ inflight' = TRUE /\ UNCHANGED again
       /\ queue' = Append(q, [what |-> "check", code |-> text, pane |-> pane, job |-> 0])

CheckTimer ==
  /\ mounted /\ checkTimer
  /\ checkTimer' = FALSE
  /\ IF phase = "ready" THEN RunCheck(content, queue) ELSE UNCHANGED <<inflight, again, queue>>
  /\ UNCHANGED <<scaffold, storage, verdict, phase, pane, mounted, content, saveTimer, stale,
                 markers, busy, runRef, jobs, formats, history>>

\* A build is answered, is rejected, or the compiler crashes and has no
\* diagnostics of the code (go.ts).
Outcomes == {"answered", "rejected", "crashed"}
Shown(b, outcome) == CASE outcome = "answered" -> b.code
                       [] outcome = "rejected" -> markers
                       [] outcome = "crashed" -> None

\* The answer to a check: shown unless an edit asked for another one meanwhile,
\* which is sent if the toolchain is still there.  The check of a pane that is
\* gone has no editor to write to; the build it may still ask for is read by
\* nobody and left out.
CheckAnswers(b, outcome) ==
  LET repeat == again /\ phase = "ready"
  IN  /\ b.what = "check"
      /\ IF ~mounted \/ b.pane # pane
         THEN queue' = Tail(queue) /\ UNCHANGED <<inflight, again, markers>>
         ELSE /\ markers' = IF again THEN markers ELSE Shown(b, outcome)
              /\ again' = FALSE
              /\ inflight' = repeat
              /\ queue' = IF repeat
                          THEN Append(Tail(queue), [what |-> "check", code |-> content,
                                                    pane |-> pane, job |-> 0])
                          ELSE Tail(queue)
      /\ UNCHANGED <<storage, verdict, busy, runRef, jobs>>

-----------------------------------------------------------------------------
\* Edits, saving and formatting.

\* onDidChangeContent: a status that was rendered is of the old text and goes;
\* save in 300 ms and check in 500 ms from now.  StatusAfterKept is a mutant.
StatusAfterKept(text) == IF text = scaffold THEN None ELSE status
StatusAfterEdit(text) == IF seen # None THEN None ELSE status

EditStatus(text) == IF StatusAfterEdit(text) = status THEN UNCHANGED <<status, savedStatus>>
                    ELSE SetStatus(StatusAfterEdit(text))

\* The jobs that go on have another text than the one shown now; so has a
\* verdict that was not rendered before the text changed.
Going == {j \in DOMAIN jobs : jobs[j].at # "done"}
Overtakes == /\ overtaken' = overtaken \cup Going
             /\ judged' = IF status' = None \/ seen = None THEN None ELSE judged

Changed(text) ==
  /\ content' = text
  /\ seen' = None
  /\ saveTimer' = TRUE
  /\ checkTimer' = TRUE
  /\ Overtakes

Edit ==
  \E text \in Codes \ {content} :
    /\ mounted /\ edits < MaxEdits
    /\ EditStatus(text)
    /\ Changed(text)
    /\ edits' = edits + 1
    /\ UNCHANGED <<scaffold, stored, throws, kept, phase, pane, mounted, stale, checking, running,
                   formats, faults, refused>>

\* A render hands the status to the pane.
Render ==
  /\ mounted /\ seen # status
  /\ seen' = status
  /\ UNCHANGED <<scaffold, storage, status, judged, phase, pane, mounted, editor, checking, running,
                 formats, history>>

SaveTimer ==
  /\ mounted /\ saveTimer
  /\ saveTimer' = FALSE
  /\ SaveCode(content)
  /\ UNCHANGED <<scaffold, savedStatus, throws, verdict, phase, pane, mounted, content, checkTimer,
                 stale, checking, running, formats, history>>

Format ==
  /\ mounted /\ phase = "ready" /\ Cardinality(formats) < 1
  /\ formats' = formats \cup {[src |-> content, pane |-> pane]}
  /\ UNCHANGED <<scaffold, storage, verdict, phase, pane, mounted, editor, checking, running, history>>

\* gofmt has answered: the text is replaced if it is still the one sent and
\* gofmt changed it; it is saved in any case.  A disposed model throws.
\* StillFirst, a mutant, does not look.
StillFirst(src) == src \in Codes
StillSent(src) == content = src
FormatAnswers(f) ==
  /\ formats' = formats \ {f}
  /\ IF ~mounted \/ f.pane # pane
     THEN UNCHANGED <<storage, verdict, editor, history>>
     ELSE /\ IF StillSent(f.src) /\ Behaves[f.src] # "broken" /\ Formatted[f.src] # f.src
             THEN /\ EditStatus(Formatted[f.src])
                  /\ Changed(Formatted[f.src])
                  /\ UNCHANGED <<edits, faults, refused, stale>>
             ELSE UNCHANGED <<savedStatus, verdict, editor, history>>
          /\ SaveCode(content')
  /\ UNCHANGED <<scaffold, throws, phase, pane, mounted, checking, running>>

\* reset: the scaffold replaces the text, the saved code and the status go.
Reset ==
  /\ mounted /\ edits < MaxEdits
  /\ SetStatus(None)
  /\ Changed(scaffold)
  /\ Store(None)
  /\ stale' = FALSE
  /\ edits' = edits + 1
  /\ UNCHANGED <<scaffold, throws, phase, pane, mounted, checking, running, formats, faults, refused>>

\* The banner that the exercise has changed: keep mine saves against the new base.
Stale == stored # None /\ stored.base # scaffold /\ stored.code # scaffold
KeepMine ==
  /\ mounted /\ stale
  /\ SaveCode(content)
  /\ stale' = FALSE
  /\ UNCHANGED <<scaffold, savedStatus, throws, verdict, phase, pane, mounted, content, saveTimer,
                 checkTimer, checking, running, formats, history>>

-----------------------------------------------------------------------------
\* Builds and runs.

\* runTests, runMain and buildOnly: one at a time in a pane, with the sources as
\* they are now.
IsIdle == phase = "ready" /\ busy = None
Kinds == {"test", "run", "build"}
StartJob(kind, only) ==
  LET j == Cardinality(DOMAIN jobs) + 1
  IN  /\ mounted /\ IsIdle /\ j <= MaxJobs
      /\ busy' = kind
      /\ jobs' = Plus(jobs, j, [kind |-> kind, only |-> only, code |-> content,
                                pane |-> pane, at |-> "building"])
      /\ queue' = Append(queue, [what |-> "job", code |-> content, pane |-> pane, job |-> j])
      /\ UNCHANGED <<scaffold, storage, verdict, phase, pane, mounted, editor, checking, runRef,
                     formats, history>>

\* The pane of a job, if it is still there.
Here(j) == mounted /\ jobs[j].pane = pane

\* A job ends: its pane is no longer busy.  The verdict of all the tests goes to
\* the app, which is there also when the pane is not.
JobEnds(j, result) ==
  /\ jobs' = [jobs EXCEPT ![j].at = "done"]
  /\ busy' = IF Here(j) THEN None ELSE busy
  /\ runRef' = IF Here(j) THEN 0 ELSE runRef
  /\ UNCHANGED seen
  /\ IF result = None \/ jobs[j].kind # "test" \/ jobs[j].only
     THEN UNCHANGED <<status, savedStatus, judged>>
     ELSE /\ SetStatus(result)
          /\ judged' = IF j \in overtaken THEN None ELSE jobs[j].code

\* The build of a job: its diagnostics are shown, and a program that was built
\* is started - whether or not the pane is still there.
JobBuilt(b, outcome) ==
  LET j == b.job
      failed == outcome = "crashed" \/ Behaves[b.code] = "broken"
  IN  /\ b.what = "job"
      /\ queue' = Tail(queue)
      /\ markers' = IF Here(j) THEN Shown(b, outcome) ELSE markers
      /\ IF outcome = "rejected" \/ failed \/ jobs[j].kind = "build"
         THEN JobEnds(j, IF failed /\ outcome # "rejected" THEN "failed" ELSE None)
         ELSE /\ jobs' = [jobs EXCEPT ![j].at = "running"]
              /\ runRef' = IF Here(j) THEN j ELSE runRef
              /\ UNCHANGED <<savedStatus, verdict, busy>>
      /\ UNCHANGED <<stored, throws, kept, inflight, again>>

\* The toolchain answers the build that is first in line.
Builds ==
  /\ queue # <<>>
  /\ \E outcome \in Outcomes :
       /\ CheckAnswers(Head(queue), outcome) \/ JobBuilt(Head(queue), outcome)
       /\ IF outcome = "answered" THEN UNCHANGED <<faults, refused>> ELSE Fault /\ refused' = TRUE
  /\ UNCHANGED <<scaffold, phase, pane, mounted, editor, formats, overtaken, edits>>

\* A program ends by itself; one that loops does not.  A runner that fails exits
\* with 2, whatever the program would have done.
MayExit(j) == jobs[j].at = "running" /\ Behaves[jobs[j].code] # "loops"
Exits(j) ==
  /\ j \in DOMAIN jobs /\ MayExit(j)
  /\ \/ JobEnds(j, IF Behaves[jobs[j].code] = "passes" THEN "passed" ELSE "failed") /\ UNCHANGED faults
     \/ JobEnds(j, "failed") /\ Fault
  /\ UNCHANGED <<scaffold, stored, throws, kept, phase, pane, mounted, editor, checking, queue, formats,
                 overtaken, edits, refused>>

\* The Stop button: it reaches a run, and nothing while the build goes on.
Stop ==
  /\ mounted /\ runRef # 0
  /\ JobEnds(runRef, None)
  /\ UNCHANGED <<scaffold, stored, throws, kept, phase, pane, mounted, editor, checking, queue, formats,
                 history>>

-----------------------------------------------------------------------------
\* The pane comes and goes.

\* Mounting: the saved code is in the editor, and the effect of ready checks it.
Mount ==
  /\ ~mounted /\ pane < MaxPanes
  /\ pane' = pane + 1 /\ mounted' = TRUE
  /\ content' = Loaded(stored, scaffold) /\ kept' = TRUE
  /\ stale' = Stale
  /\ seen' = status
  /\ inflight' = (phase = "ready")
  /\ queue' = IF phase = "ready"
              THEN Append(queue, [what |-> "check", code |-> content', pane |-> pane', job |-> 0])
              ELSE queue
  /\ judged' = IF content' = content THEN judged ELSE None
  /\ overtaken' = IF content' = content THEN overtaken ELSE overtaken \cup Going
  /\ UNCHANGED <<scaffold, stored, savedStatus, throws, status, phase, saveTimer, checkTimer, again,
                 markers, busy, runRef, jobs, formats, edits, faults, refused>>

\* What the pane had, but for its text, is gone with it; the timers are cleared.
PaneGoes ==
  /\ mounted' = FALSE /\ seen' = None /\ stale' = FALSE
  /\ saveTimer' = FALSE /\ checkTimer' = FALSE
  /\ inflight' = FALSE /\ again' = FALSE /\ markers' = None
  /\ busy' = None /\ runRef' = 0

\* Unmounting: a due save is done now, the check is dropped, and the run, if
\* there is one already, is stopped.  UnsavedOnLeave is a mutant.
UnsavedOnLeave == UNCHANGED <<stored, kept>>
SaveOnLeave == IF saveTimer THEN SaveCode(content) ELSE UNCHANGED <<stored, kept>>
Unmount ==
  /\ mounted
  /\ PaneGoes
  /\ SaveOnLeave
  /\ jobs' = [j \in DOMAIN jobs |-> IF j = runRef THEN [jobs[j] EXCEPT !.at = "done"] ELSE jobs[j]]
  /\ UNCHANGED <<scaffold, savedStatus, throws, status, judged, phase, pane, content, queue, formats,
                 history>>

\* The toolchain gets ready: the effect checks the code.
GetsReady ==
  /\ phase = "loading" /\ phase' = "ready"
  /\ IF mounted THEN RunCheck(content, queue) ELSE UNCHANGED <<inflight, again, queue>>
  /\ UNCHANGED <<scaffold, storage, verdict, pane, mounted, editor, markers, busy, runRef, jobs,
                 formats, history>>

\* A download fails, or a tool dies: the page hears of an error, and no call that
\* is on its way need be answered.
ToolDies ==
  /\ Fault /\ phase # "error" /\ phase' = "error"
  /\ UNCHANGED <<scaffold, storage, verdict, pane, mounted, editor, checking, running, formats,
                 overtaken, edits, refused>>

\* The page is closed or reloaded, perhaps with a new version of the exercise:
\* nothing is saved on the way out and everything the page had is gone.
Reload ==
  /\ MaxFaults > 0
  /\ scaffold' \in Scaffolds
  /\ IF scaffold' = scaffold THEN UNCHANGED faults ELSE Fault
  /\ PaneGoes
  /\ phase' = "loading" /\ queue' = <<>> /\ formats' = {}
  /\ content' = Loaded(stored, scaffold') /\ kept' = TRUE
  /\ status' = savedStatus
  /\ jobs' = [j \in DOMAIN jobs |-> [jobs[j] EXCEPT !.at = "done"]]
  /\ judged' = IF content' = content /\ status' = status THEN judged ELSE None
  /\ UNCHANGED <<stored, savedStatus, throws, pane, overtaken, edits, refused>>

Init ==
  /\ scaffold \in Scaffolds /\ stored = None /\ kept = TRUE /\ throws = FALSE
  /\ status = None /\ savedStatus = None /\ seen = None
  /\ phase = "loading" /\ pane = 0 /\ mounted = FALSE
  /\ content = scaffold /\ stale = FALSE /\ saveTimer = FALSE /\ checkTimer = FALSE
  /\ inflight = FALSE /\ again = FALSE /\ markers = None
  /\ busy = None /\ runRef = 0 /\ queue = <<>> /\ jobs = << >> /\ formats = {}
  /\ edits = 0 /\ faults = 0 /\ judged = None /\ overtaken = {} /\ refused = FALSE

Learner == \/ Edit \/ Format \/ Reset \/ KeepMine \/ Stop \/ Mount \/ Unmount \/ Reload
           \/ \E kind \in Kinds : \E only \in {FALSE, kind = "test"} : StartJob(kind, only)
Page == Render \/ CheckTimer \/ SaveTimer \/ Builds \/ GetsReady \/ ToolDies
        \/ StorageTurns \/ OtherPage
Answers == \E f \in formats : FormatAnswers(f)
Programs == \E j \in 1..MaxJobs : Exits(j)

Next == Learner \/ Page \/ Answers \/ Programs
Spec == Init /\ [][Next]_vars

\* The check's timer fires, programs that end do so, and a toolchain that has not
\* died answers.  It need not get ready, and the learner may do nothing.
BuildsWhileWell == phase # "error" /\ Builds
Fairness == WF_vars(CheckTimer) /\ WF_vars(BuildsWhileWell) /\ WF_vars(Programs)
FairSpec == Spec /\ Fairness

-----------------------------------------------------------------------------
\* The variables keep their types.
PaneTypeOK ==
  /\ scaffold \in Scaffolds /\ content \in Codes
  /\ stored = None \/ stored \in [code : Codes, base : Scaffolds]
  /\ {status, seen, savedStatus} \subseteq {None, "passed", "failed"}
  /\ judged \in Codes \cup {None} /\ markers \in Codes \cup {None}
  /\ busy \in Kinds \cup {None} /\ phase \in {"loading", "ready", "error"}
  /\ {mounted, stale, saveTimer, checkTimer, inflight, again, throws, kept, refused} \subseteq BOOLEAN
  /\ DOMAIN jobs \subseteq 1..MaxJobs /\ runRef \in DOMAIN jobs \cup {0}
  /\ \A i \in 1..Len(queue) : queue[i].job \in DOMAIN jobs \cup {0} /\ queue[i].code \in Codes

\* Unless the storage dropped the last save or another page has saved since, what
\* a reload would show is what the editor shows, or the save timer is still set
\* (300 ms after a change, which a reload loses and leaving the pane does not).
\* So save, format, reset, keep mine and a changed exercise agree on what is
\* stored (storage.ts, saveCode; CodePane.tsx, the save timer and the cleanup).
NothingUnsaved == kept /\ ~saveTimer => Loaded(stored, scaffold) = content

\* The status is about the code shown: it was rendered before the text changed
\* and went with the change.  It may be about another text only if it came too
\* late, about a run that went on while the text changed (runTests) or not yet
\* rendered when it did (statusRef), or was read back with a text or a status
\* that the storage, another page or a new scaffold has replaced; the next
\* verdict is exact again.  A passed status is of code that passes.
VerdictFitsCode == status # None /\ judged # None =>
                     judged = content /\ (status = "passed" => Behaves[content] = "passes")

\* A pane is busy exactly while a job of it goes on, and there is one at most.
OneJob ==
  mounted =>
    LET mine == {j \in DOMAIN jobs : jobs[j].pane = pane /\ jobs[j].at # "done"}
    IN  /\ Cardinality(mine) <= 1
        /\ busy # None <=> mine # {}
        /\ runRef # 0 => runRef \in mine

\* A format never replaces a text that is not the one it was given: what the
\* learner types while gofmt runs stays.
FormatKeepsEdits ==
  [][\A f \in formats : f \notin formats' /\ mounted /\ mounted' /\ content' # content =>
       content' = Formatted[content]]_vars

\* "Runner worker (one per run, so Stop always works)" (web/README.md): a program
\* that runs can be stopped by the pane on the page.
StopReaches ==
  \A j \in DOMAIN jobs : jobs[j].at = "running" => mounted /\ runRef = j

\* The squiggles catch up: when the learner stops typing (edits are bounded), the
\* editor in the end shows the diagnostics of the text it shows, if the toolchain is
\* ready and no build was rejected or crashed: the check then is not repeated.
DiagnosticsCatchUp == []<>(~mounted \/ markers = content \/ phase # "ready" \/ refused)

\* A job comes to an end, but for a program that loops and a toolchain that died:
\* the page then shows an error and the pane stays busy (client.ts, onerror).
JobsEnd ==
  \A j \in 1..MaxJobs :
    (j \in DOMAIN jobs /\ jobs[j].at = "building") ~>
      (j \in DOMAIN jobs => \/ jobs[j].at = "done" \/ Behaves[jobs[j].code] = "loops"
                            \/ jobs[j].at = "building" /\ phase = "error")

\* The variables keep their types, a pane has one job, and what the learner typed
\* is stored.
PaneInv == PaneTypeOK /\ OneJob /\ NothingUnsaved
\* What the pane has begun comes to an end.
PaneSettles == JobsEnd /\ DiagnosticsCatchUp
=============================================================================
