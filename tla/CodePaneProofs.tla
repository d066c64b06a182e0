-------------------------- MODULE CodePaneProofs --------------------------
(***************************************************************************)
(* Proofs about the code pane (module CodePane), for any versions of       *)
(* main.go, any number of panes, jobs and edits, and whatever goes wrong   *)
(* with builds, tools, storage and reloads.  The invariant has three parts *)
(* besides the values: the jobs, the line they wait in and what the pane   *)
(* knows of them (Work), what is stored of the text (Text), and what the   *)
(* status is about (Verdict).                                              *)
(***************************************************************************)
EXTENDS CodePane, FiniteSetTheorems, TLAPS

Verdicts == {"passed", "failed"}
Job == [kind : Kinds, only : BOOLEAN, code : Codes, pane : Nat, at : {"building", "running", "done"}]
Build == [what : {"check", "job"}, code : Codes, pane : Nat, job : Nat]

\* The values the variables take.
Shows == {None} \cup Verdicts
Values ==
  /\ scaffold \in Scaffolds /\ content \in Codes /\ pane \in Nat
  /\ stored = None \/ stored \in [code : Codes, base : Scaffolds]
  /\ status \in Shows /\ seen \in Shows /\ savedStatus \in Shows
  /\ judged \in Codes \cup {None} /\ markers \in Codes \cup {None} /\ busy \in Kinds \cup {None}
  /\ phase \in {"loading", "ready", "error"}
  /\ \A f \in formats : f.src \in Codes
Flags ==
  /\ mounted \in BOOLEAN /\ stale \in BOOLEAN /\ saveTimer \in BOOLEAN /\ checkTimer \in BOOLEAN
  /\ inflight \in BOOLEAN /\ again \in BOOLEAN /\ throws \in BOOLEAN
  /\ kept \in BOOLEAN /\ refused \in BOOLEAN

\* The jobs are numbered without a gap, and each was started by a pane that was
\* there.
JobsAre ==
  /\ DOMAIN jobs = 1..Cardinality(DOMAIN jobs) /\ DOMAIN jobs \subseteq 1..MaxJobs
  /\ \A j \in DOMAIN jobs : jobs[j] \in Job /\ jobs[j].pane <= pane
  /\ runRef \in DOMAIN jobs \cup {0}

\* A job that waits for the toolchain is building, with the text it was started
\* with, and waits once.
Lined(q, js) ==
  /\ q \in Seq(Build)
  /\ \A i \in 1..Len(q) : q[i].what = "check" => q[i].job = 0
  /\ \A i \in 1..Len(q) : q[i].what = "job" =>
       q[i].job \in DOMAIN js /\ js[q[i].job].at = "building" /\ js[q[i].job].code = q[i].code
  /\ \A i, k \in 1..Len(q) : q[i].what = "job" /\ q[k].what = "job" /\ q[i].job = q[k].job => i = k

\* The pane on the page has one job, is busy with it, and the Stop button reaches
\* only what runs.
Mine(j) == jobs[j].pane = pane /\ jobs[j].at # "done"
OneMine ==
  mounted =>
    /\ \A i, j \in DOMAIN jobs : Mine(i) /\ Mine(j) => i = j
    /\ busy # None <=> \E j \in DOMAIN jobs : Mine(j)
    /\ runRef # 0 => Mine(runRef) /\ jobs[runRef].at = "running"

\* A pane that is gone is not busy.
Left == ~mounted => busy = None /\ runRef = 0

\* A job that goes on is about the text shown, unless that has changed since.
JobsFit == \A j \in DOMAIN jobs \ overtaken : jobs[j].at # "done" => jobs[j].code = content

Work == JobsAre /\ Lined(queue, jobs) /\ OneMine /\ Left
Text == NothingUnsaved
Verdict == JobsFit /\ VerdictFitsCode
IInv == Values /\ Flags /\ Work /\ Text /\ Verdict

-----------------------------------------------------------------------------
\* Lines of builds.

\* The line without its first build.
LEMMA LinedTail ==
  ASSUME NEW q, NEW js, Lined(q, js), q # <<>>
  PROVE  /\ Lined(Tail(q), js) /\ Head(q) \in Build
         /\ Head(q).what = "job" =>
              /\ Head(q).job \in DOMAIN js /\ js[Head(q).job].at = "building"
              /\ js[Head(q).job].code = Head(q).code
              /\ \A i \in 1..Len(Tail(q)) : Tail(q)[i].what = "job" => Tail(q)[i].job # Head(q).job
<1>1. q \in Seq(Build) /\ Len(q) \in Nat /\ Len(q) >= 1 /\ Head(q) = q[1] /\ 1 \in 1..Len(q)
  BY DEF Lined
<1>2. /\ Tail(q) \in Seq(Build) /\ Len(Tail(q)) = Len(q) - 1
      /\ \A i \in 1..Len(Tail(q)) : Tail(q)[i] = q[i + 1]
  BY <1>1
<1>3. \A i \in 1..Len(Tail(q)) : i + 1 \in 1..Len(q) /\ i + 1 # 1
  BY <1>1, <1>2
<1>4. Lined(Tail(q), js)
  BY <1>1, <1>2, <1>3 DEF Lined
<1>5. Head(q) \in Build
  BY <1>1
<1>6. Head(q).what = "job" =>
        /\ Head(q).job \in DOMAIN js /\ js[Head(q).job].at = "building"
        /\ js[Head(q).job].code = Head(q).code
        /\ \A i \in 1..Len(Tail(q)) : Tail(q)[i].what = "job" => Tail(q)[i].job # Head(q).job
  BY <1>1, <1>2, <1>3 DEF Lined
<1> QED BY <1>4, <1>5, <1>6

\* A build joins the line: a check, or a job that was not in it.
LEMMA LinedAppend ==
  ASSUME NEW q, NEW js, Lined(q, js), NEW b \in Build, b.what = "check" => b.job = 0,
         b.what = "job" =>
           /\ b.job \in DOMAIN js /\ js[b.job].at = "building" /\ js[b.job].code = b.code
           /\ \A i \in 1..Len(q) : q[i].what = "job" => q[i].job # b.job
  PROVE  Lined(Append(q, b), js)
<1>1. q \in Seq(Build) /\ Len(q) \in Nat
  BY DEF Lined
<1>2. /\ Append(q, b) \in Seq(Build) /\ Len(Append(q, b)) = Len(q) + 1
      /\ Append(q, b)[Len(q) + 1] = b
      /\ \A i \in 1..Len(q) : Append(q, b)[i] = q[i]
  BY <1>1
<1>3. \A i \in 1..Len(Append(q, b)) : i \in 1..Len(q) \/ i = Len(q) + 1
  BY <1>1, <1>2
<1> QED BY <1>1, <1>2, <1>3 DEF Lined

\* The line keeps while the jobs in it are the same.
LEMMA LinedKept ==
  ASSUME NEW q, NEW js, Lined(q, js), NEW ks,
         \A i \in 1..Len(q) : q[i].what = "job" =>
           q[i].job \in DOMAIN ks /\ ks[q[i].job] = js[q[i].job]
  PROVE  Lined(q, ks)
  BY DEF Lined

\* A job moves on.
LEMMA JobMoves ==
  ASSUME NEW js, NEW j \in DOMAIN js, js[j] \in Job, NEW a \in {"running", "done"},
         NEW ks, ks = [js EXCEPT ![j].at = a]
  PROVE  /\ DOMAIN ks = DOMAIN js /\ ks[j] \in Job /\ ks[j].at = a
         /\ ks[j].code = js[j].code /\ ks[j].pane = js[j].pane
         /\ \A x \in DOMAIN js : x # j => ks[x] = js[x]
<1>1. ks[j] = [js[j] EXCEPT !.at = a] /\ DOMAIN ks = DOMAIN js
  OBVIOUS
<1>2. ks[j] \in Job /\ ks[j].at = a /\ ks[j].code = js[j].code /\ ks[j].pane = js[j].pane
  BY <1>1 DEF Job
<1> QED BY <1>1, <1>2

\* The jobs are numbered from 1 without a gap, and so the next number is new.
LEMMA NextJob ==
  ASSUME NEW D, D = 1..Cardinality(D), D \subseteq 1..MaxJobs, NEW j, j = Cardinality(D) + 1
  PROVE  /\ j \in Nat /\ j >= 1 /\ j \notin D /\ D \cup {j} = 1..j /\ Cardinality(D \cup {j}) = j
<1> MaxJobs \in Int /\ 1 \in Int
  BY PaneAssumption
<1>1. IsFiniteSet(1..MaxJobs)
  BY FS_Interval
<1>2. IsFiniteSet(D)
  BY <1>1, FS_Subset
<1>3. Cardinality(D) \in Nat
  BY <1>2, FS_CardinalityType
<1>4. j \notin D /\ D \cup {j} = 1..j
  BY <1>3
<1>5. Cardinality(D \cup {j}) = Cardinality(D) + 1
  BY <1>2, <1>4, FS_AddElement
<1> QED BY <1>3, <1>4, <1>5

-----------------------------------------------------------------------------
\* Parts that a step leaves alone.

LEMMA SameWork ==
  ASSUME Work, UNCHANGED <<pane, mounted, busy, runRef, jobs>>, Lined(queue', jobs)
  PROVE  Work'
<1>1. JobsAre' /\ OneMine' /\ Left'
  BY DEF Work, JobsAre, OneMine, Mine, Left
<1> QED BY <1>1 DEF Work

LEMMA SameText ==
  ASSUME Text, UNCHANGED <<scaffold, stored, content, saveTimer, kept>>
  PROVE  Text'
  BY DEF Text, NothingUnsaved

LEMMA SameVerdict ==
  ASSUME Verdict, UNCHANGED <<content, status, judged, overtaken, jobs>>
  PROVE  Verdict'
  BY DEF Verdict, JobsFit, VerdictFitsCode

\* What is saved is what a reload loads.
LEMMA SavedIsLoaded ==
  ASSUME NEW c \in Codes, scaffold \in Scaffolds
  PROVE  /\ Loaded(Saved(c), scaffold) = c
         /\ Saved(c) = None \/ Saved(c) \in [code : Codes, base : Scaffolds]
<1>1. CASE c = scaffold
  BY <1>1 DEF Saved, Loaded
<1>2. CASE c # scaffold
  <2>1. PICK r : r = [code |-> c, base |-> scaffold]
    OBVIOUS
  <2>2. r \in [code : Codes, base : Scaffolds] /\ r.code = c
    BY <2>1
  <2>3. r # None
    BY <2>2, PaneAssumption
  <2> QED BY <1>2, <2>1, <2>2, <2>3 DEF Saved, Loaded
<1> QED BY <1>1, <1>2

LEMMA LoadedIsCode ==
  ASSUME NEW s, s = None \/ s \in [code : Codes, base : Scaffolds], NEW b \in Scaffolds
  PROVE  Loaded(s, b) \in Codes
  BY PaneAssumption DEF Loaded

\* A save that the storage took is what a reload loads.
LEMMA SavesCode ==
  ASSUME Values, NEW c \in Codes, SaveCode(c), scaffold' = scaffold
  PROVE  /\ stored' = None \/ stored' \in [code : Codes, base : Scaffolds]
         /\ kept' \in BOOLEAN
         /\ kept' => Loaded(stored', scaffold') = c
<1>1. /\ Loaded(Saved(c), scaffold) = c
      /\ Saved(c) = None \/ Saved(c) \in [code : Codes, base : Scaffolds]
  BY SavedIsLoaded DEF Values
<1>2. PICK w : w = Saved(c)
  OBVIOUS
<1>3. stored' \in {stored, w} /\ kept' = (stored' = w)
  BY <1>2 DEF SaveCode, Store, Written
<1>4. kept' => Loaded(stored', scaffold') = c
  BY <1>1, <1>2, <1>3
<1>5. stored' = None \/ stored' \in [code : Codes, base : Scaffolds]
  BY <1>1, <1>2, <1>3 DEF Values
<1>6. kept' \in BOOLEAN
  BY <1>3, Zenon
<1> QED BY <1>4, <1>5, <1>6

\* The status is set, and perhaps saved.
LEMMA StatusSet ==
  ASSUME Values, NEW v \in Shows, SetStatus(v)
  PROVE  status' = v /\ savedStatus' \in Shows
  BY DEF Values, SetStatus, Written

LEMMA StatusEdited ==
  ASSUME Values, NEW c, EditStatus(c)
  PROVE  status' \in Shows /\ savedStatus' \in Shows /\ (seen # None => status' = None)
<1>1. PICK v : v = StatusAfterEdit(c)
  OBVIOUS
<1>2. v \in Shows /\ (seen # None => v = None)
  BY <1>1 DEF StatusAfterEdit, Values, Shows
<1>3. CASE v = status
  BY <1>1, <1>2, <1>3 DEF EditStatus, Values
<1>4. CASE v # status
  BY <1>1, <1>2, <1>4, StatusSet DEF EditStatus
<1> QED BY <1>3, <1>4

\* The text changed: the jobs that go on are overtaken, and so is a verdict that
\* was not rendered; one that was is gone.
LEMMA TextChanges ==
  ASSUME Values, NEW c \in Codes, Changed(c), UNCHANGED jobs, seen # None => status' = None
  PROVE  /\ Verdict' /\ content' = c /\ seen' = None /\ judged' \in Codes \cup {None}
         /\ saveTimer' = TRUE /\ checkTimer' = TRUE
<1>1. /\ content' = c /\ seen' = None /\ saveTimer' = TRUE /\ checkTimer' = TRUE
      /\ overtaken' = overtaken \cup Going
      /\ judged' = IF status' = None \/ seen = None THEN None ELSE judged
  BY DEF Changed, Overtakes
<1>2. judged' \in Codes \cup {None}
  BY <1>1 DEF Values
<1>3. VerdictFitsCode'
  BY <1>1 DEF VerdictFitsCode
<1>4. JobsFit'
  BY <1>1 DEF JobsFit, Going
<1> QED BY <1>1, <1>2, <1>3, <1>4 DEF Verdict

-----------------------------------------------------------------------------
LEMMA PaneInit == Init => IInv
<1> SUFFICES ASSUME Init PROVE IInv
  OBVIOUS
<1>1. DOMAIN jobs = {} /\ Cardinality(DOMAIN jobs) = 0
  BY FS_EmptySet DEF Init
<1>2. Values /\ Flags
  BY PaneAssumption DEF Init, Values, Flags, Shows
<1>3. Work
  <2>1. JobsAre
    BY <1>1 DEF Init, JobsAre
  <2>2. queue = <<>> /\ <<>> \in Seq(Build) /\ Len(<<>>) = 0
    BY DEF Init
  <2>3. Lined(queue, jobs)
    BY <2>2 DEF Lined
  <2>4. OneMine /\ Left
    BY DEF Init, OneMine, Left
  <2> QED BY <2>1, <2>3, <2>4 DEF Work
<1>4. Text
  BY DEF Init, Text, NothingUnsaved, Loaded
<1>5. Verdict
  BY <1>1 DEF Init, Verdict, JobsFit, VerdictFitsCode
<1> QED BY <1>2, <1>3, <1>4, <1>5 DEF IInv

-----------------------------------------------------------------------------
\* Checks.

\* A build that checks a text.
LEMMA CheckIsBuild ==
  ASSUME NEW c \in Codes, NEW p \in Nat, NEW b, b = [what |-> "check", code |-> c, pane |-> p, job |-> 0]
  PROVE  b \in Build /\ b.what = "check" /\ b.job = 0
  BY DEF Build

\* A check is asked for, or its place in again is taken.
LEMMA RunCheckKeeps ==
  ASSUME Values, Flags, Lined(queue, jobs), RunCheck(content, queue)
  PROVE  Lined(queue', jobs) /\ inflight' \in BOOLEAN /\ again' \in BOOLEAN
<1>1. CASE inflight
  BY <1>1 DEF RunCheck, Flags
<1>2. CASE ~inflight
  <2>1. PICK b : b = [what |-> "check", code |-> content, pane |-> pane, job |-> 0]
    OBVIOUS
  <2>2. b \in Build /\ b.what = "check" /\ b.job = 0
    BY <2>1, CheckIsBuild DEF Values
  <2>3. queue' = Append(queue, b) /\ inflight' = TRUE /\ again' = again
    BY <1>2, <2>1 DEF RunCheck
  <2> QED BY <2>2, <2>3, LinedAppend DEF Flags
<1> QED BY <1>1, <1>2

LEMMA CheckTimerKeeps == ASSUME IInv, CheckTimer PROVE IInv'
<1>1. /\ checkTimer' = FALSE
      /\ UNCHANGED <<scaffold, stored, savedStatus, throws, kept, status, seen, judged, phase, pane,
                     mounted, content, saveTimer, stale, markers, busy, runRef, jobs, formats,
                     overtaken, refused>>
  BY DEF CheckTimer, storage, verdict, history
<1>2. Lined(queue', jobs) /\ inflight' \in BOOLEAN /\ again' \in BOOLEAN
  BY RunCheckKeeps DEF CheckTimer, IInv, Work, Flags
<1>3. Values'
  BY <1>1 DEF IInv, Values
<1>4. Flags'
  <2>1. Flags
    BY DEF IInv
  <2> QED BY <1>1, <1>2, <2>1, Zenon DEF Flags
<1>5. Work' /\ Text' /\ Verdict'
  BY <1>1, <1>2, SameWork, SameText, SameVerdict DEF IInv
<1> QED BY <1>3, <1>4, <1>5 DEF IInv

LEMMA GetsReadyKeeps == ASSUME IInv, GetsReady PROVE IInv'
<1>1. /\ phase' = "ready"
      /\ UNCHANGED <<scaffold, stored, savedStatus, throws, kept, status, seen, judged, pane, mounted,
                     content, saveTimer, checkTimer, stale, markers, busy, runRef, jobs, formats,
                     overtaken, refused>>
  BY DEF GetsReady, storage, verdict, editor, history
<1>2. Lined(queue', jobs) /\ inflight' \in BOOLEAN /\ again' \in BOOLEAN
  BY RunCheckKeeps DEF GetsReady, IInv, Work, Flags
<1>3. Values'
  BY <1>1 DEF IInv, Values
<1>4. Flags'
  <2>1. Flags
    BY DEF IInv
  <2> QED BY <1>1, <1>2, <2>1, Zenon DEF Flags
<1>5. Work' /\ Text' /\ Verdict'
  BY <1>1, <1>2, SameWork, SameText, SameVerdict DEF IInv
<1> QED BY <1>3, <1>4, <1>5 DEF IInv

\* The toolchain dies, the storage fails or works again, a render: the pane's text
\* and its work are the same.
LEMMA ToolDiesKeeps == ASSUME IInv, ToolDies \/ StorageTurns \/ Render PROVE IInv'
<1>1. /\ UNCHANGED <<scaffold, stored, savedStatus, kept, status, judged, pane, mounted, content,
                     saveTimer, checkTimer, stale, inflight, again, markers, busy, runRef, queue, jobs,
                     formats, overtaken, refused>>
      /\ phase' \in {phase, "error"} /\ seen' \in {seen, status}
  BY DEF ToolDies, StorageTurns, Render, storage, verdict, editor, checking, running, history
<1>2. throws' \in BOOLEAN
  BY DEF ToolDies, StorageTurns, Render, storage, IInv, Flags
<1>3. Values'
  BY <1>1 DEF IInv, Values
<1>4. Flags'
  <2>1. Flags
    BY DEF IInv
  <2> QED BY <1>1, <1>2, <2>1, Zenon DEF Flags
<1>5. Work' /\ Text' /\ Verdict'
  BY <1>1, SameWork, SameText, SameVerdict DEF IInv, Work
<1> QED BY <1>3, <1>4, <1>5 DEF IInv

\* Another page saves: what this page shows is the same.
LEMMA OtherPageKeeps == ASSUME IInv, OtherPage PROVE IInv'
<1>1. /\ UNCHANGED <<scaffold, throws, status, seen, judged, phase, pane, mounted, content, saveTimer,
                     checkTimer, stale, inflight, again, markers, busy, runRef, queue, jobs, formats,
                     overtaken, refused>>
      /\ \/ /\ stored' \in {None} \cup [code : Codes, base : {scaffold}]
            /\ kept' = FALSE /\ savedStatus' = savedStatus
         \/ /\ savedStatus' \in {None, "passed", "failed"}
            /\ stored' = stored /\ kept' = kept
  BY DEF OtherPage, verdict, editor, checking, running
<1>2. Values'
  <2>1. stored' = None \/ stored' \in [code : Codes, base : Scaffolds]
    BY <1>1 DEF IInv, Values
  <2>2. savedStatus' \in Shows
    BY <1>1 DEF IInv, Values, Shows, Verdicts
  <2> QED BY <1>1, <2>1, <2>2 DEF IInv, Values
<1>3. Flags'
  <2>1. Flags
    BY DEF IInv
  <2>2. kept' \in BOOLEAN
    BY <1>1, <2>1, Zenon DEF Flags
  <2> QED BY <1>1, <2>1, <2>2, Zenon DEF Flags
<1>4. Text'
  BY <1>1 DEF IInv, Text, NothingUnsaved
<1>5. Work' /\ Verdict'
  BY <1>1, SameWork, SameVerdict DEF IInv, Work
<1> QED BY <1>2, <1>3, <1>4, <1>5 DEF IInv

\* The answer to a check takes it out of the line, and may put another one in.
LEMMA ShownIs ==
  ASSUME Values, NEW b \in Build, NEW outcome \in Outcomes
  PROVE  Shown(b, outcome) \in Codes \cup {None}
  BY DEF Values, Shown, Outcomes, Build

LEMMA CheckAnswersKeeps ==
  ASSUME IInv, queue # <<>>, NEW outcome \in Outcomes, CheckAnswers(Head(queue), outcome),
         UNCHANGED <<scaffold, phase, pane, mounted, editor, formats, overtaken>>,
         refused' \in {refused, TRUE}
  PROVE  IInv'
<1>1. UNCHANGED <<scaffold, stored, savedStatus, throws, kept, status, seen, judged, phase, pane, mounted,
                  content, saveTimer, checkTimer, stale, busy, runRef, jobs, formats, overtaken>>
  BY DEF CheckAnswers, storage, verdict, editor
<1>2. Lined(Tail(queue), jobs) /\ Head(queue) \in Build
  BY LinedTail DEF IInv, Work
<1>3. Lined(queue', jobs)
  <2>1. CASE queue' = Tail(queue)
    BY <1>2, <2>1
  <2>2. CASE queue' # Tail(queue)
    <3>1. PICK b : b = [what |-> "check", code |-> content, pane |-> pane, job |-> 0]
      OBVIOUS
    <3>2. b \in Build /\ b.what = "check" /\ b.job = 0
      BY <3>1, CheckIsBuild DEF IInv, Values
    <3>3. queue' = Append(Tail(queue), b)
      BY <2>2, <3>1 DEF CheckAnswers
    <3> QED BY <1>2, <3>2, <3>3, LinedAppend
  <2> QED BY <2>1, <2>2
<1>4. markers' \in Codes \cup {None}
  <2>1. PICK m \in Codes \cup {None} : m = Shown(Head(queue), outcome)
    BY <1>2, ShownIs DEF IInv
  <2>2. markers' \in {markers, m}
    BY <2>1 DEF CheckAnswers
  <2> QED BY <2>2 DEF IInv, Values
<1>5. Values'
  BY <1>1, <1>4 DEF IInv, Values
<1>6. Flags'
  <2>1. Flags
    BY DEF IInv
  <2>2. \/ inflight' = inflight /\ again' = again
        \/ again' = FALSE /\ inflight' = (again /\ phase = "ready")
    BY DEF CheckAnswers
  <2>3. inflight' \in BOOLEAN /\ again' \in BOOLEAN
    BY <2>1, <2>2, Zenon DEF Flags
  <2>4. refused' \in BOOLEAN
    BY <2>1, Zenon DEF Flags
  <2> QED BY <1>1, <2>1, <2>3, <2>4, Zenon DEF Flags
<1>7. Work' /\ Text' /\ Verdict'
  BY <1>1, <1>3, SameWork, SameText, SameVerdict DEF IInv
<1> QED BY <1>5, <1>6, <1>7 DEF IInv

-----------------------------------------------------------------------------
\* Edits, saving and formatting: the jobs go on.

LEMMA EditKeeps == ASSUME IInv, Edit PROVE IInv'
<1>1. PICK text \in Codes :
        /\ EditStatus(text) /\ Changed(text)
        /\ UNCHANGED <<scaffold, stored, throws, kept, phase, pane, mounted, stale, inflight, again,
                       markers, busy, runRef, queue, jobs, formats, refused>>
  BY DEF Edit, checking, running
<1>2. status' \in Shows /\ savedStatus' \in Shows /\ (seen # None => status' = None)
  BY <1>1, StatusEdited DEF IInv
<1>3. /\ Verdict' /\ content' = text /\ seen' = None /\ judged' \in Codes \cup {None}
      /\ saveTimer' = TRUE /\ checkTimer' = TRUE
  BY <1>1, <1>2, TextChanges DEF IInv
<1>4. Values'
  BY <1>1, <1>2, <1>3 DEF IInv, Values, Shows
<1>5. Flags'
  <2>1. Flags
    BY DEF IInv
  <2> QED BY <1>1, <1>3, <2>1, Zenon DEF Flags
<1>6. Work'
  BY <1>1, SameWork DEF IInv, Work
<1>7. Text'
  BY <1>3 DEF Text, NothingUnsaved
<1> QED BY <1>3, <1>4, <1>5, <1>6, <1>7 DEF IInv

LEMMA ResetKeeps == ASSUME IInv, Reset PROVE IInv'
<1>1. /\ SetStatus(None) /\ Changed(scaffold) /\ Store(None) /\ stale' = FALSE
      /\ UNCHANGED <<scaffold, throws, phase, pane, mounted, inflight, again, markers, busy, runRef,
                     queue, jobs, formats, refused>>
  BY DEF Reset, checking, running
<1>2. status' = None /\ savedStatus' \in Shows
  BY <1>1, StatusSet DEF IInv, Shows
<1>3. /\ Verdict' /\ content' = scaffold /\ seen' = None /\ judged' \in Codes \cup {None}
      /\ saveTimer' = TRUE /\ checkTimer' = TRUE
  <2>1. scaffold \in Codes
    BY PaneAssumption DEF IInv, Values
  <2> QED BY <1>1, <1>2, <2>1, TextChanges DEF IInv
<1>4. stored' \in {stored, None} /\ kept' = (stored' = None)
  BY <1>1 DEF Store, Written
<1>5. Values'
  <2>1. content' \in Codes
    BY <1>3, PaneAssumption DEF IInv, Values
  <2> QED BY <1>1, <1>2, <1>3, <1>4, <2>1 DEF IInv, Values, Shows
<1>6. Flags'
  <2>1. Flags
    BY DEF IInv
  <2>2. kept' \in BOOLEAN
    BY <1>4, Zenon
  <2> QED BY <1>1, <1>3, <2>1, <2>2, Zenon DEF Flags
<1>7. Work'
  BY <1>1, SameWork DEF IInv, Work
<1>8. Text'
  BY <1>3 DEF Text, NothingUnsaved
<1> QED BY <1>3, <1>5, <1>6, <1>7, <1>8 DEF IInv

LEMMA SaveTimerKeeps == ASSUME IInv, SaveTimer \/ KeepMine PROVE IInv'
<1>1. /\ SaveCode(content)
      /\ UNCHANGED <<scaffold, savedStatus, throws, status, seen, judged, phase, pane, mounted, content,
                     checkTimer, inflight, again, markers, busy, runRef, queue, jobs, formats,
                     overtaken, refused>>
      /\ saveTimer' \in {FALSE, saveTimer} /\ stale' \in {FALSE, stale}
  BY DEF SaveTimer, KeepMine, verdict, checking, running, history
<1>2. content \in Codes
  BY DEF IInv, Values
<1>3. /\ stored' = None \/ stored' \in [code : Codes, base : Scaffolds]
      /\ kept' \in BOOLEAN
      /\ kept' => Loaded(stored', scaffold') = content
  BY <1>1, <1>2, SavesCode DEF IInv
<1>4. Values'
  BY <1>1, <1>3 DEF IInv, Values
<1>5. Flags'
  <2>1. Flags
    BY DEF IInv
  <2>2. saveTimer' \in BOOLEAN /\ stale' \in BOOLEAN
    BY <1>1, <2>1, Zenon DEF Flags
  <2> QED BY <1>1, <1>3, <2>1, <2>2, Zenon DEF Flags
<1>6. Work' /\ Verdict'
  BY <1>1, SameWork, SameVerdict DEF IInv, Work
<1>7. Text'
  BY <1>1, <1>3 DEF Text, NothingUnsaved
<1> QED BY <1>4, <1>5, <1>6, <1>7 DEF IInv

LEMMA FormatKeeps == ASSUME IInv, Format PROVE IInv'
<1>1. PICK f : f = [src |-> content, pane |-> pane]
  OBVIOUS
<1>2. /\ formats' = formats \cup {f}
      /\ UNCHANGED <<scaffold, stored, savedStatus, throws, kept, status, seen, judged, phase, pane,
                     mounted, content, saveTimer, checkTimer, stale, inflight, again, markers, busy,
                     runRef, queue, jobs, overtaken, refused>>
  BY <1>1 DEF Format, storage, verdict, editor, checking, running, history
<1>3. f.src \in Codes
  BY <1>1 DEF IInv, Values
<1>4. Values'
  BY <1>2, <1>3 DEF IInv, Values
<1>5. Flags'
  <2>1. Flags
    BY DEF IInv
  <2> QED BY <1>2, <2>1, Zenon DEF Flags
<1>6. Work' /\ Text' /\ Verdict'
  BY <1>2, SameWork, SameText, SameVerdict DEF IInv, Work
<1> QED BY <1>4, <1>5, <1>6 DEF IInv

LEMMA FormatAnswersKeeps == ASSUME IInv, NEW f \in formats, FormatAnswers(f) PROVE IInv'
<1>1. /\ formats' = formats \ {f}
      /\ UNCHANGED <<scaffold, phase, pane, mounted, inflight, again, markers, busy, runRef, queue, jobs>>
  BY DEF FormatAnswers, checking, running
<1>2. Work'
  BY <1>1, SameWork DEF IInv, Work
<1>3. CASE UNCHANGED <<storage, verdict, editor, history>>
  <2>1. UNCHANGED <<stored, savedStatus, throws, kept, status, seen, judged, content, saveTimer,
                    checkTimer, stale, overtaken, refused>>
    BY <1>3 DEF storage, verdict, editor, history
  <2>2. Values'
    BY <1>1, <2>1 DEF IInv, Values
  <2>3. Flags'
    <3>1. Flags
      BY DEF IInv
    <3> QED BY <1>1, <2>1, <3>1, Zenon DEF Flags
  <2>4. Text' /\ Verdict'
    BY <1>1, <2>1, SameText, SameVerdict DEF IInv
  <2> QED BY <1>2, <2>2, <2>3, <2>4 DEF IInv
<1>4. CASE ~(~mounted \/ f.pane # pane)
  <2>1. SaveCode(content') /\ throws' = throws
    BY <1>4 DEF FormatAnswers
  <2>2. /\ Verdict' /\ content' \in Codes /\ judged' \in Codes \cup {None}
        /\ status' \in Shows /\ savedStatus' \in Shows /\ seen' \in Shows
        /\ saveTimer' \in {saveTimer, TRUE} /\ checkTimer' \in {checkTimer, TRUE}
        /\ UNCHANGED <<stale, refused>>
    <3>1. CASE /\ EditStatus(Formatted[f.src]) /\ Changed(Formatted[f.src])
               /\ UNCHANGED <<edits, faults, refused, stale>>
      <4>1. PICK c : c = Formatted[f.src]
        OBVIOUS
      <4>2. c \in Codes /\ EditStatus(c) /\ Changed(c)
        BY <3>1, <4>1, PaneAssumption DEF IInv, Values
      <4>3. status' \in Shows /\ savedStatus' \in Shows /\ (seen # None => status' = None)
        BY <4>2, StatusEdited DEF IInv
      <4>4. /\ Verdict' /\ content' = c /\ seen' = None /\ judged' \in Codes \cup {None}
            /\ saveTimer' = TRUE /\ checkTimer' = TRUE
        BY <1>1, <4>2, <4>3, TextChanges DEF IInv
      <4> QED BY <3>1, <4>2, <4>3, <4>4 DEF Shows
    <3>2. CASE UNCHANGED <<savedStatus, verdict, editor, history>>
      <4>1. UNCHANGED <<savedStatus, status, seen, judged, content, saveTimer, checkTimer, stale,
                        overtaken, refused>>
        BY <3>2 DEF verdict, editor, history
      <4>2. Verdict'
        BY <1>1, <4>1, SameVerdict DEF IInv
      <4> QED BY <4>1, <4>2 DEF IInv, Values
    <3> QED BY <1>4, <3>1, <3>2 DEF FormatAnswers
  <2>3. PICK c \in Codes : c = content'
    BY <2>2
  <2>4. /\ stored' = None \/ stored' \in [code : Codes, base : Scaffolds]
        /\ kept' \in BOOLEAN
        /\ kept' => Loaded(stored', scaffold') = content'
    BY <1>1, <2>1, <2>3, SavesCode DEF IInv
  <2>5. Values'
    BY <1>1, <2>2, <2>4 DEF IInv, Values
  <2>6. Flags'
    <3>1. Flags
      BY DEF IInv
    <3>2. saveTimer' \in BOOLEAN /\ checkTimer' \in BOOLEAN
      BY <2>2, <3>1, Zenon DEF Flags
    <3> QED BY <1>1, <2>1, <2>2, <2>4, <3>1, <3>2, Zenon DEF Flags
  <2>7. Text'
    BY <2>4 DEF Text, NothingUnsaved
  <2> QED BY <1>2, <2>2, <2>5, <2>6, <2>7 DEF IInv
<1> QED BY <1>3, <1>4 DEF FormatAnswers

-----------------------------------------------------------------------------
\* Builds and runs.

LEMMA StartJobKeeps ==
  ASSUME IInv, NEW kind \in Kinds, NEW only \in BOOLEAN, StartJob(kind, only) PROVE IInv'
<1>1. PICK j, r, b :
        /\ j = Cardinality(DOMAIN jobs) + 1
        /\ r = [kind |-> kind, only |-> only, code |-> content, pane |-> pane, at |-> "building"]
        /\ b = [what |-> "job", code |-> content, pane |-> pane, job |-> j]
  OBVIOUS
<1>2. /\ mounted /\ busy = None /\ j <= MaxJobs
      /\ busy' = kind /\ jobs' = Plus(jobs, j, r) /\ queue' = Append(queue, b)
      /\ UNCHANGED <<scaffold, stored, savedStatus, throws, kept, status, seen, judged, phase, pane,
                     mounted, content, saveTimer, checkTimer, stale, inflight, again, markers, runRef,
                     formats, overtaken, refused>>
  BY <1>1 DEF StartJob, IsIdle, storage, verdict, editor, checking, history
<1>3. /\ j \in Nat /\ j >= 1 /\ j \notin DOMAIN jobs /\ DOMAIN jobs \cup {j} = 1..j
      /\ Cardinality(DOMAIN jobs \cup {j}) = j
  BY <1>1, NextJob DEF IInv, Work, JobsAre
<1>4. /\ DOMAIN jobs' = DOMAIN jobs \cup {j} /\ jobs'[j] = r
      /\ \A x \in DOMAIN jobs : jobs'[x] = jobs[x]
  BY <1>2, <1>3 DEF Plus
<1>5. content \in Codes /\ pane \in Nat
  BY DEF IInv, Values
<1>6. /\ r \in Job /\ r.pane = pane /\ r.at = "building" /\ r.code = content
      /\ b \in Build /\ b.what = "job" /\ b.job = j /\ b.code = content
  BY <1>1, <1>3, <1>5 DEF Job, Build
<1>7. JobsAre'
  <2>1. DOMAIN jobs' = 1..Cardinality(DOMAIN jobs')
    BY <1>3, <1>4
  <2>2. DOMAIN jobs' \subseteq 1..MaxJobs
    BY <1>2, <1>3, <1>4, PaneAssumption
  <2>3. \A x \in DOMAIN jobs' : jobs'[x] \in Job /\ jobs'[x].pane <= pane'
    BY <1>2, <1>4, <1>5, <1>6 DEF IInv, Work, JobsAre
  <2>4. runRef' \in DOMAIN jobs' \cup {0}
    BY <1>2, <1>4 DEF IInv, Work, JobsAre
  <2> QED BY <2>1, <2>2, <2>3, <2>4 DEF JobsAre
<1>8. Lined(queue', jobs')
  <2>1. Lined(queue, jobs)
    BY DEF IInv, Work
  <2>2. \A i \in 1..Len(queue) : queue[i].what = "job" => queue[i].job \in DOMAIN jobs
    BY <2>1 DEF Lined
  <2>3. Lined(queue, jobs')
    BY <1>4, <2>1, <2>2, LinedKept
  <2>4. \A i \in 1..Len(queue) : queue[i].what = "job" => queue[i].job # b.job
    BY <1>3, <1>6, <2>2
  <2> QED BY <1>2, <1>4, <1>6, <2>3, <2>4, LinedAppend
<1>9. OneMine'
  <2>1. runRef = 0 /\ \A x \in DOMAIN jobs : ~Mine(x)
    BY <1>2 DEF IInv, Work, OneMine, JobsAre
  <2>2. \A x \in DOMAIN jobs' : Mine(x)' <=> x = j
    BY <1>2, <1>3, <1>4, <1>6, <2>1 DEF Mine
  <2>3. busy' # None
    BY <1>2, PaneAssumption DEF Kinds
  <2> QED BY <1>2, <1>4, <2>1, <2>2, <2>3 DEF OneMine
<1>10. Values' /\ Flags' /\ Left'
  <2>1. Flags
    BY DEF IInv
  <2>2. Flags'
    BY <1>2, <2>1, Zenon DEF Flags
  <2>3. Values'
    BY <1>2 DEF IInv, Values
  <2>4. Left'
    BY <1>2 DEF Left
  <2> QED BY <2>2, <2>3, <2>4
<1>11. Text'
  BY <1>2, SameText DEF IInv
<1>12. Verdict'
  <2>1. JobsFit'
    BY <1>2, <1>4, <1>6 DEF IInv, Verdict, JobsFit
  <2>2. VerdictFitsCode'
    BY <1>2 DEF IInv, Verdict, VerdictFitsCode
  <2> QED BY <2>1, <2>2 DEF Verdict
<1> QED BY <1>7, <1>8, <1>9, <1>10, <1>11, <1>12 DEF IInv, Work

\* A job that goes on ends: its pane, if it is there, has no job any more, and a
\* verdict is about the text the job was started with.
LEMMA JobEndsKeeps ==
  ASSUME IInv, NEW j \in DOMAIN jobs, jobs[j].at # "done", NEW result \in Shows,
         JobEnds(j, result), UNCHANGED <<pane, mounted, content, overtaken>>,
         result = "passed" => Behaves[jobs[j].code] = "passes"
  PROVE  /\ JobsAre' /\ OneMine' /\ Left' /\ Verdict'
         /\ status' \in Shows /\ savedStatus' \in Shows /\ seen' = seen
         /\ judged' \in Codes \cup {None} /\ busy' \in Kinds \cup {None}
         /\ DOMAIN jobs' = DOMAIN jobs /\ \A x \in DOMAIN jobs : x # j => jobs'[x] = jobs[x]
<1>1. /\ jobs' = [jobs EXCEPT ![j].at = "done"]
      /\ busy' = IF Here(j) THEN None ELSE busy
      /\ runRef' = IF Here(j) THEN 0 ELSE runRef
      /\ seen' = seen
  BY DEF JobEnds
<1>2. jobs[j] \in Job
  BY DEF IInv, Work, JobsAre
<1>3. /\ DOMAIN jobs' = DOMAIN jobs /\ jobs'[j] \in Job /\ jobs'[j].at = "done"
      /\ jobs'[j].code = jobs[j].code /\ jobs'[j].pane = jobs[j].pane
      /\ \A x \in DOMAIN jobs : x # j => jobs'[x] = jobs[x]
  BY <1>1, <1>2, JobMoves
<1>4. JobsAre'
  BY <1>1, <1>3 DEF IInv, Work, JobsAre
<1>5. OneMine'
  <2>1. \A x \in DOMAIN jobs : Mine(x)' <=> Mine(x) /\ x # j
    BY <1>3 DEF Mine
  <2> SUFFICES ASSUME mounted'
               PROVE  /\ \A i, k \in DOMAIN jobs' : Mine(i)' /\ Mine(k)' => i = k
                      /\ busy' # None <=> \E k \in DOMAIN jobs' : Mine(k)'
                      /\ runRef' # 0 => Mine(runRef)' /\ jobs'[runRef'].at = "running"
    BY DEF OneMine
  <2>2. /\ \A i, k \in DOMAIN jobs : Mine(i) /\ Mine(k) => i = k
        /\ busy # None <=> \E k \in DOMAIN jobs : Mine(k)
        /\ runRef # 0 => Mine(runRef) /\ jobs[runRef].at = "running" /\ runRef \in DOMAIN jobs
    BY DEF IInv, Work, OneMine, JobsAre
  <2>3. Here(j) <=> Mine(j)
    BY DEF Here, Mine
  <2>4. CASE Mine(j)
    <3>1. \A x \in DOMAIN jobs : ~Mine(x)'
      BY <2>1, <2>2, <2>4
    <3> QED BY <1>1, <1>3, <2>3, <2>4, <3>1
  <2>5. CASE ~Mine(j)
    <3>1. busy' = busy /\ runRef' = runRef
      BY <1>1, <2>3, <2>5
    <3>2. runRef # 0 => jobs'[runRef] = jobs[runRef] /\ Mine(runRef)'
      BY <1>3, <2>2, <2>5, <3>1 DEF Mine
    <3> QED BY <1>3, <2>1, <2>2, <2>5, <3>1, <3>2
  <2> QED BY <2>4, <2>5
<1>6. jobs[j].code \in Codes
  BY <1>2 DEF Job
<1>7. Left' /\ busy' \in Kinds \cup {None}
  BY <1>1 DEF IInv, Work, Left, Here, Values
<1>8. JobsFit'
  BY <1>3 DEF IInv, Verdict, JobsFit
<1>9. CASE result = None \/ jobs[j].kind # "test" \/ jobs[j].only
  <2>1. UNCHANGED <<status, savedStatus, judged>>
    BY <1>9 DEF JobEnds
  <2>2. VerdictFitsCode'
    BY <2>1 DEF IInv, Verdict, VerdictFitsCode
  <2> QED BY <1>1, <1>3, <1>4, <1>5, <1>7, <1>8, <2>1, <2>2 DEF IInv, Values, Verdict
<1>10. CASE ~(result = None \/ jobs[j].kind # "test" \/ jobs[j].only)
  <2>1. SetStatus(result) /\ judged' = IF j \in overtaken THEN None ELSE jobs[j].code
    BY <1>10 DEF JobEnds
  <2>2. status' = result /\ savedStatus' \in Shows
    BY <2>1, StatusSet DEF IInv
  <2>3. j \notin overtaken => jobs[j].code = content
    BY DEF IInv, Verdict, JobsFit
  <2>4. VerdictFitsCode'
    BY <2>1, <2>2, <2>3 DEF VerdictFitsCode
  <2>5. judged' \in Codes \cup {None}
    BY <1>6, <2>1
  <2> QED BY <1>1, <1>3, <1>4, <1>5, <1>7, <1>8, <2>2, <2>4, <2>5 DEF Verdict
<1> QED BY <1>9, <1>10

\* A job that was running ends: the line is the same.
LEMMA RunEndsKeeps ==
  ASSUME IInv, NEW j \in DOMAIN jobs, jobs[j].at = "running", NEW result \in Shows,
         JobEnds(j, result), result = "passed" => Behaves[jobs[j].code] = "passes",
         UNCHANGED <<scaffold, stored, throws, kept, phase, pane, mounted, editor, checking, queue, formats,
                     overtaken, refused>>
  PROVE  IInv'
<1>1. UNCHANGED <<content, saveTimer, checkTimer, stale, inflight, again, markers>>
  BY DEF editor, checking
<1>2. /\ JobsAre' /\ OneMine' /\ Left' /\ Verdict'
      /\ status' \in Shows /\ savedStatus' \in Shows /\ seen' = seen
      /\ judged' \in Codes \cup {None} /\ busy' \in Kinds \cup {None}
      /\ DOMAIN jobs' = DOMAIN jobs /\ \A x \in DOMAIN jobs : x # j => jobs'[x] = jobs[x]
  BY <1>1, JobEndsKeeps
<1>3. Lined(queue', jobs')
  <2>1. Lined(queue, jobs)
    BY DEF IInv, Work
  <2>2. \A i \in 1..Len(queue) : queue[i].what = "job" => queue[i].job \in DOMAIN jobs /\ queue[i].job # j
    BY <2>1 DEF Lined
  <2>3. Lined(queue, jobs')
    BY <1>2, <2>1, <2>2, LinedKept
  <2> QED BY <2>3
<1>4. Values'
  BY <1>1, <1>2 DEF IInv, Values
<1>5. Flags'
  <2>1. Flags
    BY DEF IInv
  <2> QED BY <1>1, <2>1, Zenon DEF Flags
<1>6. Text'
  BY <1>1, SameText DEF IInv
<1> QED BY <1>2, <1>3, <1>4, <1>5, <1>6 DEF IInv, Work

LEMMA ExitsKeeps == ASSUME IInv, NEW j, Exits(j) PROVE IInv'
<1>1. PICK result \in Verdicts :
        JobEnds(j, result) /\ (result = "passed" => Behaves[jobs[j].code] = "passes")
  BY DEF Verdicts, Exits
<1>2. j \in DOMAIN jobs /\ jobs[j].at = "running" /\ result \in Shows
  BY DEF Exits, MayExit, Shows
<1>3. UNCHANGED <<scaffold, stored, throws, kept, phase, pane, mounted, editor, checking, queue, formats,
                  overtaken, refused>>
  BY DEF Exits
<1> QED BY <1>1, <1>2, <1>3, RunEndsKeeps

LEMMA StopKeeps == ASSUME IInv, Stop PROVE IInv'
<1>1. PICK j : j = runRef
  OBVIOUS
<1>2. /\ mounted /\ j # 0 /\ JobEnds(j, None)
      /\ UNCHANGED <<scaffold, stored, throws, kept, phase, pane, mounted, editor, checking, queue,
                     formats, overtaken, refused>>
  BY <1>1 DEF Stop, history
<1>3. j \in DOMAIN jobs /\ jobs[j].at = "running"
  BY <1>1, <1>2 DEF IInv, Work, JobsAre, OneMine
<1>4. None \in Shows /\ None # "passed"
  BY PaneAssumption DEF Shows
<1> QED BY <1>2, <1>3, <1>4, RunEndsKeeps

\* The build of a job is answered: the job ends, or its program is started.
LEMMA JobBuiltKeeps ==
  ASSUME IInv, queue # <<>>, NEW outcome \in Outcomes, JobBuilt(Head(queue), outcome),
         UNCHANGED <<scaffold, phase, pane, mounted, editor, formats, overtaken>>,
         refused' \in {refused, TRUE}
  PROVE  IInv'
<1>1. PICK b : b = Head(queue)
  OBVIOUS
<1>2. PICK j : j = b.job
  OBVIOUS
<1>3. PICK failed : failed = (outcome = "crashed" \/ Behaves[b.code] = "broken")
  OBVIOUS
<1>4. /\ b.what = "job" /\ queue' = Tail(queue)
      /\ markers' = IF Here(j) THEN Shown(b, outcome) ELSE markers
      /\ IF outcome = "rejected" \/ failed \/ jobs[j].kind = "build"
         THEN JobEnds(j, IF failed /\ outcome # "rejected" THEN "failed" ELSE None)
         ELSE /\ jobs' = [jobs EXCEPT ![j].at = "running"]
              /\ runRef' = IF Here(j) THEN j ELSE runRef
              /\ UNCHANGED <<savedStatus, verdict, busy>>
      /\ UNCHANGED <<stored, throws, kept, inflight, again>>
  BY <1>1, <1>2, <1>3 DEF JobBuilt
<1>5. UNCHANGED <<content, saveTimer, checkTimer, stale>>
  BY DEF editor
<1>6. Lined(queue, jobs)
  BY DEF IInv, Work
<1>7. /\ Lined(Tail(queue), jobs) /\ b \in Build
      /\ j \in DOMAIN jobs /\ jobs[j].at = "building" /\ jobs[j].code = b.code
      /\ \A i \in 1..Len(Tail(queue)) : Tail(queue)[i].what = "job" => Tail(queue)[i].job # j
  BY <1>1, <1>2, <1>4, <1>6, LinedTail
<1>8. jobs[j] \in Job /\ b.code \in Codes
  BY <1>7 DEF IInv, Work, JobsAre, Build
<1>9. /\ JobsAre' /\ OneMine' /\ Left' /\ Verdict'
      /\ status' \in Shows /\ savedStatus' \in Shows /\ seen' = seen
      /\ judged' \in Codes \cup {None} /\ busy' \in Kinds \cup {None}
      /\ DOMAIN jobs' = DOMAIN jobs /\ \A x \in DOMAIN jobs : x # j => jobs'[x] = jobs[x]
  <2>1. CASE outcome = "rejected" \/ failed \/ jobs[j].kind = "build"
    <3>1. PICK result \in Shows : result = IF failed /\ outcome # "rejected" THEN "failed" ELSE None
      BY DEF Shows, Verdicts
    <3>2. JobEnds(j, result)
      BY <1>4, <2>1, <3>1
    <3>3. result # "passed"
      BY <3>1, PaneAssumption
    <3> QED BY <1>5, <1>7, <3>2, <3>3, JobEndsKeeps
  <2>2. CASE ~(outcome = "rejected" \/ failed \/ jobs[j].kind = "build")
    <3>1. /\ jobs' = [jobs EXCEPT ![j].at = "running"]
          /\ runRef' = IF Here(j) THEN j ELSE runRef
          /\ UNCHANGED <<status, savedStatus, seen, judged, busy>>
      BY <1>4, <2>2 DEF verdict
    <3>2. /\ DOMAIN jobs' = DOMAIN jobs /\ jobs'[j] \in Job /\ jobs'[j].at = "running"
          /\ jobs'[j].code = jobs[j].code /\ jobs'[j].pane = jobs[j].pane
          /\ \A x \in DOMAIN jobs : x # j => jobs'[x] = jobs[x]
      BY <1>7, <1>8, <3>1, JobMoves
    <3>3. JobsAre'
      BY <1>7, <3>1, <3>2 DEF IInv, Work, JobsAre
    <3>4. OneMine'
      <4>1. \A x \in DOMAIN jobs : Mine(x)' <=> Mine(x)
        BY <1>7, <3>1, <3>2 DEF Mine
      <4>2. Here(j) <=> mounted /\ Mine(j)
        BY <1>7 DEF Here, Mine
      <4> SUFFICES ASSUME mounted
                   PROVE  /\ \A i, k \in DOMAIN jobs' : Mine(i)' /\ Mine(k)' => i = k
                          /\ busy' # None <=> \E k \in DOMAIN jobs' : Mine(k)'
                          /\ runRef' # 0 => Mine(runRef)' /\ jobs'[runRef'].at = "running"
        BY <3>1 DEF OneMine
      <4>3. /\ \A i, k \in DOMAIN jobs : Mine(i) /\ Mine(k) => i = k
            /\ busy # None <=> \E k \in DOMAIN jobs : Mine(k)
            /\ runRef # 0 => Mine(runRef) /\ jobs[runRef].at = "running" /\ runRef \in DOMAIN jobs
        BY DEF IInv, Work, OneMine, JobsAre
      <4>4. runRef' # 0 => Mine(runRef)' /\ jobs'[runRef'].at = "running"
        BY <1>7, <3>1, <3>2, <4>2, <4>3 DEF Mine
      <4> QED BY <3>1, <3>2, <4>1, <4>3, <4>4
    <3>5. Verdict'
      BY <1>5, <1>7, <3>1, <3>2 DEF IInv, Verdict, JobsFit, VerdictFitsCode
    <3>6. Left'
      BY <3>1 DEF IInv, Work, Left, Here
    <3> QED BY <3>1, <3>2, <3>3, <3>4, <3>5, <3>6 DEF IInv, Values
  <2> QED BY <2>1, <2>2
<1>10. Lined(queue', jobs')
  <2>1. PICK q : q = Tail(queue)
    OBVIOUS
  <2>2. Lined(q, jobs) /\ \A i \in 1..Len(q) : q[i].what = "job" => q[i].job # j
    BY <1>7, <2>1
  <2>3. \A i \in 1..Len(q) : q[i].what = "job" => q[i].job \in DOMAIN jobs
    BY <2>2 DEF Lined
  <2>4. \A i \in 1..Len(q) : q[i].what = "job" => q[i].job \in DOMAIN jobs' /\ jobs'[q[i].job] = jobs[q[i].job]
    BY <1>9, <2>2, <2>3
  <2>5. Lined(q, jobs')
    BY <2>2, <2>4, LinedKept
  <2> QED BY <1>4, <2>1, <2>5
<1>11. Values'
  <2>1. PICK m \in Codes \cup {None} : m = Shown(b, outcome)
    BY <1>7, ShownIs DEF IInv
  <2>2. markers' \in Codes \cup {None}
    BY <1>4, <2>1 DEF IInv, Values
  <2> QED BY <1>4, <1>5, <1>9, <2>2 DEF IInv, Values
<1>12. Flags'
  <2>1. Flags
    BY DEF IInv
  <2>2. refused' \in BOOLEAN
    BY <2>1, Zenon DEF Flags
  <2> QED BY <1>4, <1>5, <2>1, <2>2, Zenon DEF Flags
<1>13. Text'
  BY <1>4, <1>5, SameText DEF IInv
<1> QED BY <1>9, <1>10, <1>11, <1>12, <1>13 DEF IInv, Work

LEMMA BuildsKeep == ASSUME IInv, Builds PROVE IInv'
<1>1. queue # <<>> /\ UNCHANGED <<scaffold, phase, pane, mounted, editor, formats, overtaken>>
  BY DEF Builds
<1>2. PICK outcome \in Outcomes :
        /\ CheckAnswers(Head(queue), outcome) \/ JobBuilt(Head(queue), outcome)
        /\ IF outcome = "answered" THEN UNCHANGED <<faults, refused>> ELSE Fault /\ refused' = TRUE
  BY DEF Builds
<1>3. refused' \in {refused, TRUE}
  BY <1>2
<1> QED BY <1>1, <1>2, <1>3, CheckAnswersKeeps, JobBuiltKeeps

-----------------------------------------------------------------------------
\* The pane comes and goes.

LEMMA MountKeeps == ASSUME IInv, Mount PROVE IInv'
<1>1. /\ ~mounted /\ pane' = pane + 1 /\ mounted' = TRUE
      /\ content' = Loaded(stored, scaffold) /\ kept' = TRUE /\ stale' = Stale /\ seen' = status
      /\ inflight' = (phase = "ready")
      /\ judged' = IF content' = content THEN judged ELSE None
      /\ overtaken' = IF content' = content THEN overtaken ELSE overtaken \cup Going
      /\ UNCHANGED <<scaffold, stored, savedStatus, throws, status, phase, saveTimer, checkTimer, again,
                     markers, busy, runRef, jobs, formats, refused>>
  BY DEF Mount
<1>2. pane \in Nat /\ pane + 1 \in Nat /\ busy = None /\ runRef = 0
  BY <1>1 DEF IInv, Values, Work, Left
<1>3. PICK c \in Codes : c = content'
  <2>1. Loaded(stored, scaffold) \in Codes
    BY LoadedIsCode DEF IInv, Values
  <2> QED BY <1>1, <2>1
<1>4. Values'
  BY <1>1, <1>2, <1>3 DEF IInv, Values
<1>5. Flags'
  <2>1. Flags
    BY DEF IInv
  <2>2. stale' \in BOOLEAN /\ inflight' \in BOOLEAN
    BY <1>1, Zenon DEF Stale
  <2> QED BY <1>1, <2>1, <2>2, Zenon DEF Flags
<1>6. JobsAre'
  BY <1>1, <1>2 DEF IInv, Work, JobsAre, Job
<1>7. OneMine' /\ Left'
  <2>1. \A x \in DOMAIN jobs : jobs[x].pane # pane + 1
    BY <1>2 DEF IInv, Work, JobsAre, Job
  <2> QED BY <1>1, <1>2, <2>1 DEF OneMine, Mine, Left
<1>8. Lined(queue', jobs')
  <2>1. Lined(queue, jobs) /\ jobs' = jobs
    BY <1>1 DEF IInv, Work
  <2>2. PICK b : b = [what |-> "check", code |-> c, pane |-> pane + 1, job |-> 0]
    OBVIOUS
  <2>3. b \in Build /\ b.what = "check" /\ b.job = 0
    BY <1>2, <2>2, CheckIsBuild
  <2>4. queue' = IF phase = "ready" THEN Append(queue, b) ELSE queue
    BY <1>1, <1>3, <2>2 DEF Mount
  <2> QED BY <2>1, <2>3, <2>4, LinedAppend
<1>9. Text'
  BY <1>1 DEF Text, NothingUnsaved
<1>10. Verdict'
  <2>1. CASE content' = content
    BY <1>1, <2>1, SameVerdict DEF IInv
  <2>2. CASE content' # content
    BY <1>1, <2>2 DEF Verdict, JobsFit, VerdictFitsCode, Going
  <2> QED BY <2>1, <2>2
<1> QED BY <1>4, <1>5, <1>6, <1>7, <1>8, <1>9, <1>10 DEF IInv, Work

LEMMA UnmountKeeps == ASSUME IInv, Unmount PROVE IInv'
<1>1. /\ mounted /\ PaneGoes /\ SaveOnLeave
      /\ jobs' = [j \in DOMAIN jobs |-> IF j = runRef THEN [jobs[j] EXCEPT !.at = "done"] ELSE jobs[j]]
      /\ UNCHANGED <<scaffold, savedStatus, throws, status, judged, phase, pane, content, queue, formats,
                     overtaken, refused>>
  BY DEF Unmount, history
<1>2. /\ mounted' = FALSE /\ seen' = None /\ stale' = FALSE
      /\ saveTimer' = FALSE /\ checkTimer' = FALSE
      /\ inflight' = FALSE /\ again' = FALSE /\ markers' = None /\ busy' = None /\ runRef' = 0
  BY <1>1 DEF PaneGoes
<1>3. /\ stored' = None \/ stored' \in [code : Codes, base : Scaffolds]
      /\ kept' \in BOOLEAN
      /\ kept' => Loaded(stored', scaffold') = content
  <2>1. CASE saveTimer
    <3>1. SaveCode(content) /\ content \in Codes
      BY <1>1, <2>1 DEF SaveOnLeave, IInv, Values
    <3> QED BY <1>1, <3>1, SavesCode DEF IInv
  <2>2. CASE ~saveTimer
    <3>1. stored' = stored /\ kept' = kept
      BY <1>1, <2>2 DEF SaveOnLeave
    <3>2. kept => Loaded(stored, scaffold) = content
      BY <2>2 DEF IInv, Text, NothingUnsaved
    <3>3. kept \in BOOLEAN
      BY DEF IInv, Flags
    <3>4. kept' \in BOOLEAN
      BY <3>1, <3>3
    <3> QED BY <1>1, <3>1, <3>2, <3>4 DEF IInv, Values
  <2> QED BY <2>1, <2>2
<1>4. Values'
  BY <1>1, <1>2, <1>3 DEF IInv, Values, Shows
<1>5. Flags'
  <2>1. Flags
    BY DEF IInv
  <2> QED BY <1>1, <1>2, <1>3, <2>1, Zenon DEF Flags
<1>6. /\ DOMAIN jobs' = DOMAIN jobs
      /\ \A x \in DOMAIN jobs : x # runRef => jobs'[x] = jobs[x]
      /\ \A x \in DOMAIN jobs : /\ jobs'[x] \in Job /\ jobs'[x].pane = jobs[x].pane /\ jobs'[x].code = jobs[x].code
                                /\ jobs'[x].at # "done" => jobs[x].at # "done"
  <2>1. \A x \in DOMAIN jobs : jobs[x] \in Job
    BY DEF IInv, Work, JobsAre
  <2> QED BY <1>1, <2>1 DEF Job
<1>7. JobsAre'
  BY <1>1, <1>2, <1>6 DEF IInv, Work, JobsAre
<1>8. Lined(queue', jobs')
  <2>1. Lined(queue, jobs) /\ queue' = queue
    BY <1>1 DEF IInv, Work
  <2>2. \A i \in 1..Len(queue) : queue[i].what = "job" =>
          queue[i].job \in DOMAIN jobs /\ jobs[queue[i].job].at = "building"
    BY <2>1 DEF Lined
  <2>3. runRef \in DOMAIN jobs => jobs[runRef].at = "running"
    BY <1>1 DEF IInv, Work, JobsAre, OneMine
  <2>4. \A i \in 1..Len(queue) : queue[i].what = "job" => queue[i].job # runRef
    BY <2>2, <2>3
  <2>5. Lined(queue, jobs')
    BY <1>6, <2>1, <2>2, <2>4, LinedKept
  <2> QED BY <2>1, <2>5
<1>9. OneMine' /\ Left'
  BY <1>2 DEF OneMine, Left
<1>10. Text'
  BY <1>1, <1>3 DEF Text, NothingUnsaved
<1>11. Verdict'
  BY <1>1, <1>6 DEF IInv, Verdict, JobsFit, VerdictFitsCode
<1> QED BY <1>4, <1>5, <1>7, <1>8, <1>9, <1>10, <1>11 DEF IInv, Work

\* After a reload nothing goes on; a verdict is about the text only if both are
\* the same as before.
LEMMA ReloadKeeps == ASSUME IInv, Reload PROVE IInv'
<1>1. /\ scaffold' \in Scaffolds /\ PaneGoes
      /\ phase' = "loading" /\ queue' = <<>> /\ formats' = {}
      /\ content' = Loaded(stored, scaffold') /\ kept' = TRUE
      /\ status' = savedStatus
      /\ jobs' = [j \in DOMAIN jobs |-> [jobs[j] EXCEPT !.at = "done"]]
      /\ judged' = IF content' = content /\ status' = status THEN judged ELSE None
      /\ UNCHANGED <<stored, savedStatus, throws, pane, refused>>
  BY DEF Reload
<1>2. /\ mounted' = FALSE /\ seen' = None /\ stale' = FALSE
      /\ saveTimer' = FALSE /\ checkTimer' = FALSE
      /\ inflight' = FALSE /\ again' = FALSE /\ markers' = None /\ busy' = None /\ runRef' = 0
  BY <1>1 DEF PaneGoes
<1>3. content' \in Codes
  <2>1. PICK b \in Scaffolds : b = scaffold'
    BY <1>1
  <2>2. Loaded(stored, b) \in Codes
    BY LoadedIsCode DEF IInv, Values
  <2> QED BY <1>1, <2>1, <2>2
<1>4. Values'
  BY <1>1, <1>2, <1>3 DEF IInv, Values, Shows
<1>5. Flags'
  <2>1. Flags
    BY DEF IInv
  <2> QED BY <1>1, <1>2, <2>1, Zenon DEF Flags
<1>6. DOMAIN jobs' = DOMAIN jobs /\ \A x \in DOMAIN jobs :
        jobs'[x] \in Job /\ jobs'[x].pane = jobs[x].pane /\ jobs'[x].at = "done"
  <2>1. \A x \in DOMAIN jobs : jobs[x] \in Job
    BY DEF IInv, Work, JobsAre
  <2> QED BY <1>1, <2>1 DEF Job
<1>7. JobsAre'
  BY <1>1, <1>2, <1>6 DEF IInv, Work, JobsAre
<1>8. Lined(queue', jobs')
  BY <1>1 DEF Lined
<1>9. OneMine' /\ Left'
  BY <1>2 DEF OneMine, Left
<1>10. Text'
  BY <1>1 DEF Text, NothingUnsaved
<1>11. Verdict'
  BY <1>1, <1>6 DEF IInv, Verdict, JobsFit, VerdictFitsCode
<1> QED BY <1>4, <1>5, <1>7, <1>8, <1>9, <1>10, <1>11 DEF IInv, Work

-----------------------------------------------------------------------------
LEMMA PaneStutter == ASSUME IInv, UNCHANGED vars PROVE IInv'
<1>1. UNCHANGED <<scaffold, stored, savedStatus, throws, kept, status, seen, judged, phase, pane, mounted,
                  content, saveTimer, checkTimer, stale, inflight, again, markers, busy, runRef, queue,
                  jobs, formats, overtaken, refused>>
  BY DEF vars, storage, verdict, editor, checking, running, history
<1>2. Values'
  BY <1>1 DEF IInv, Values
<1>3. Flags'
  <2>1. Flags
    BY DEF IInv
  <2> QED BY <1>1, <2>1, Zenon DEF Flags
<1>4. Work' /\ Text' /\ Verdict'
  BY <1>1, SameWork, SameText, SameVerdict DEF IInv, Work
<1> QED BY <1>2, <1>3, <1>4 DEF IInv

LEMMA PaneNext == IInv /\ [Next]_vars => IInv'
<1> SUFFICES ASSUME IInv, [Next]_vars PROVE IInv'
  OBVIOUS
<1>1. CASE Learner
  <2>1. ASSUME NEW kind \in Kinds, NEW only \in {FALSE, kind = "test"}, StartJob(kind, only)
        PROVE  IInv'
    <3>1. only \in BOOLEAN
      OBVIOUS
    <3> QED BY <2>1, <3>1, StartJobKeeps
  <2> QED BY <1>1, <2>1, EditKeeps, FormatKeeps, ResetKeeps, SaveTimerKeeps, StopKeeps, MountKeeps,
             UnmountKeeps, ReloadKeeps DEF Learner
<1>2. CASE Page
  BY <1>2, CheckTimerKeeps, SaveTimerKeeps, BuildsKeep, GetsReadyKeeps, ToolDiesKeeps, OtherPageKeeps
     DEF Page
<1>3. CASE Answers
  BY <1>3, FormatAnswersKeeps DEF Answers
<1>4. CASE Programs
  BY <1>4, ExitsKeeps DEF Programs
<1>5. CASE UNCHANGED vars
  BY <1>5, PaneStutter
<1> QED BY <1>1, <1>2, <1>3, <1>4, <1>5 DEF Next

LEMMA PaneInvariant == Spec => []IInv
  BY PaneInit, PaneNext, PTL DEF Spec

\* The variables keep their types, a pane is busy exactly while its one job goes
\* on, and - unless the storage dropped the last save, another page saved since,
\* or the save timer is set - what a reload would show is what the editor shows
\* (CodePane.tsx, busy and runRef, the save timer and the cleanup; storage.ts,
\* set and saveCode).
THEOREM PaneKeepsItsWork == Spec => []PaneInv
<1>1. IInv => PaneTypeOK
  <2> SUFFICES ASSUME IInv PROVE PaneTypeOK
    OBVIOUS
  <2>1. \A i \in 1..Len(queue) : queue[i].job \in DOMAIN jobs \cup {0} /\ queue[i].code \in Codes
    <3>1. Lined(queue, jobs)
      BY DEF IInv, Work
    <3>2. \A i \in 1..Len(queue) : queue[i] \in Build
      BY <3>1 DEF Lined
    <3> QED BY <3>1, <3>2 DEF Lined, Build
  <2> QED BY <2>1 DEF IInv, Work, JobsAre, Values, Flags, Shows, Verdicts, PaneTypeOK
<1>2. IInv => OneJob
  <2> SUFFICES ASSUME IInv, mounted,
                      NEW mine, mine = {j \in DOMAIN jobs : jobs[j].pane = pane /\ jobs[j].at # "done"}
               PROVE  /\ Cardinality(mine) <= 1
                      /\ busy # None <=> mine # {}
                      /\ runRef # 0 => runRef \in mine
    BY DEF OneJob
  <2>1. /\ \A i, j \in mine : i = j
        /\ busy # None <=> mine # {}
        /\ runRef # 0 => runRef \in mine
    BY DEF IInv, Work, OneMine, JobsAre, Mine
  <2>2. Cardinality(mine) <= 1
    <3>1. CASE mine = {}
      BY <3>1, FS_EmptySet
    <3>2. CASE mine # {}
      <4>1. PICK j : j \in mine
        BY <3>2
      <4>2. mine = {j}
        BY <2>1, <4>1
      <4>3. Cardinality({j}) = 1
        BY FS_Singleton
      <4> QED BY <4>2, <4>3
    <3> QED BY <3>1, <3>2
  <2> QED BY <2>1, <2>2
<1>3. IInv => NothingUnsaved
  BY DEF IInv, Text
<1> QED BY <1>1, <1>2, <1>3, PaneInvariant, PTL DEF PaneInv

\* A status that is shown is about the text that is shown, unless its verdict came
\* too late: of a run during which the text changed, or not rendered when it did;
\* or the storage brought back another text or status (CodePane.tsx, runTests and
\* onDidChangeContent; App.tsx, setStatus).
THEOREM VerdictsFit == Spec => []VerdictFitsCode
<1>1. IInv => VerdictFitsCode
  BY DEF IInv, Verdict
<1> QED BY <1>1, PaneInvariant, PTL

\* A format that comes back never replaces a text that it was not given
\* (CodePane.tsx, format).
THEOREM FormatsKeepEdits == Spec => FormatKeepsEdits
<1>1. ASSUME [Next]_vars, NEW f \in formats, f \notin formats', mounted, mounted', content' # content
      PROVE  content' = Formatted[content]
  <2>1. formats' # formats
    BY <1>1
  <2>2. CASE Answers
    <3>1. PICK g \in formats : FormatAnswers(g)
      BY <2>2 DEF Answers
    <3> QED BY <1>1, <3>1 DEF FormatAnswers, Changed, StillSent, editor
  <2>3. ~Reload
    BY <1>1 DEF Reload, PaneGoes
  <2>4. CASE Learner
    <3>1. ~Format
      BY <1>1 DEF Format
    <3> QED BY <2>1, <2>3, <2>4, <3>1 DEF Learner, Edit, Reset, KeepMine, Stop, Mount, Unmount, StartJob
  <2>5. CASE Page
    BY <2>1, <2>5 DEF Page, Render, CheckTimer, SaveTimer, Builds, GetsReady,
                         ToolDies, StorageTurns, OtherPage
  <2>6. CASE Programs
    BY <2>1, <2>6 DEF Programs, Exits
  <2>7. CASE UNCHANGED vars
    BY <2>1, <2>7 DEF vars
  <2> QED BY <1>1, <2>2, <2>4, <2>5, <2>6, <2>7 DEF Next
<1>2. [Next]_vars => [\A f \in formats : f \notin formats' /\ mounted /\ mounted' /\ content' # content =>
                        content' = Formatted[content]]_vars
  BY <1>1
<1> QED BY <1>2, PTL DEF Spec, FormatKeepsEdits
=============================================================================
