----------------------------- MODULE Toolchain -----------------------------
(***************************************************************************)
(* The page's toolchain (src/web/src/runner): GoClient sends requests to   *)
(* one worker and settles their promises by id (client.ts); the worker     *)
(* answers them when the assets have come (toolchain.worker.ts); Toolchain *)
(* runs builds one after another on one filesystem and starts a formatter  *)
(* once (toolchain.ts); and a Go program takes its filesystem from a       *)
(* global that startGo set before it awaited the instance (go.ts).         *)
(*                                                                         *)
(* JavaScript runs to the next await, so an action is the code between two *)
(* awaits.  A build is a sequence of tools; what a tool makes of the files *)
(* is the outcome its request was made with (field breaks).                *)
(***************************************************************************)
EXTENDS Integers, Sequences, FiniteSets

CONSTANTS Requests,   \* [mode, breaks]: what a call asks for and which tool rejects it
          MaxId,      \* bound on the number of calls
          Traps       \* whether a tool may die in a callback, as out of memory

ASSUME ToolchainAssumption ==
  /\ Requests \subseteq [mode : {"check", "run", "test", "format"},
                         breaks : {"none", "compile", "testmain", "link", "nomain"}]
  /\ MaxId \in Nat /\ Traps \in BOOLEAN

VARIABLES
  \* the page (GoClient)
  phase,      \* state.phase: "loading", "ready" or "error"
  pending,    \* ids of calls whose promise is open
  settled,    \* id |-> [outcome, of]
  req,        \* id |-> its request, for every call made
  \* the two message queues
  inbox,      \* to the worker: ids
  outbox,     \* to the page: records
  \* the worker
  assets,     \* the toolchain promise: "loading", "ready" or "failed"
  gofmt,      \* the formatter's module: "loading", "ready" or "failed"
  stage,      \* id |-> [at, tool]: where the handler of the call waits
  line,       \* the chain of builds: the first one runs
  formatter,  \* Toolchain.formatter is set
  \* the worker's globals and the build filesystem
  globalFs,   \* whose filesystem the global fs is: "none", "build" or "gofmt"
  ranOn,      \* id |-> the filesystem its current tool took
  files       \* the call whose files are in the build directory, 0 for none

page == <<phase, pending, settled, req>>
worker == <<assets, gofmt, stage, line, formatter>>
host == <<globalFs, ranOn, files>>
vars == <<page, inbox, outbox, worker, host>>

Ids == 1..MaxId
Made == DOMAIN req
nextId == Cardinality(Made) + 1
Outcomes == {"ok", "failed", "threw"}

Plus(f, x, v) == [y \in DOMAIN f \cup {x} |-> IF y = x THEN v ELSE f[y]]

\* The tools of a build, in order.
Tools(mode) == CASE mode = "check" -> <<"compile">>
                 [] mode = "run"   -> <<"compile", "link">>
                 [] mode = "test"  -> <<"compile", "testmain", "link">>
                 [] OTHER          -> <<>>

-----------------------------------------------------------------------------
\* The page.

\* build and format: the promise is filed under the id before the message goes.
Call ==
  \E r \in Requests :
    /\ nextId <= MaxId
    /\ req' = Plus(req, nextId, r)
    /\ pending' = pending \cup {nextId}
    /\ inbox' = Append(inbox, nextId)
    /\ UNCHANGED <<phase, settled, outbox, worker, host>>

\* The promise is settled and forgotten.
Settled(id, outcome, of) ==
  /\ pending' = pending \ {id}
  /\ settled' = Plus(settled, id, [outcome |-> outcome, of |-> of])

\* worker.onmessage: a state is kept, an answer settles the promise of its id,
\* and an answer to nobody is dropped.  worker.onerror only sets the state.
PageReceives ==
  LET m == Head(outbox)
  IN  /\ outbox # <<>>
      /\ outbox' = Tail(outbox)
      /\ phase' = IF m.type = "state" THEN m.phase ELSE phase
      /\ IF m.type = "answer" /\ m.id \in pending
         THEN Settled(m.id, m.outcome, m.of)
         ELSE UNCHANGED <<pending, settled>>
      /\ UNCHANGED <<req, inbox, worker, host>>

-----------------------------------------------------------------------------
\* The worker: assets and messages.

PostState(p) == outbox' = Append(outbox, [type |-> "state", phase |-> p])
Post(id, outcome, of) ==
  outbox' = Append(outbox, [type |-> "answer", id |-> id, outcome |-> outcome, of |-> of])

\* The compiler, the linker and the library have come, or one has not.
AssetsCome ==
  /\ assets = "loading"
  /\ \E a \in {"ready", "failed"} :
       /\ assets' = a
       /\ PostState(IF a = "ready" THEN "ready" ELSE "error")
  /\ UNCHANGED <<page, inbox, gofmt, stage, line, formatter, host>>

\* The formatter's download starts when the others are there; nobody waits.
GofmtComes ==
  /\ assets = "ready" /\ gofmt = "loading"
  /\ gofmt' \in {"ready", "failed"}
  /\ UNCHANGED <<page, inbox, outbox, assets, stage, line, formatter, host>>

\* self.onmessage starts a handler, which waits for the toolchain.
WorkerReceives ==
  /\ inbox # <<>>
  /\ inbox' = Tail(inbox)
  /\ stage' = Plus(stage, Head(inbox), [at |-> "await", tool |-> 0])
  /\ UNCHANGED <<page, outbox, assets, gofmt, line, formatter, host>>

At(id, where) == id \in DOMAIN stage /\ stage[id].at = where
Stage(id, where, tool) == stage' = Plus(stage, id, [at |-> where, tool |-> tool])
\* The handler's last act.
Answered(id, outcome, of) == Post(id, outcome, of) /\ Stage(id, "answered", 0)

\* await toolchain has an answer: a failed download rejects every call; a build
\* joins the chain, and format looks for the formatter.
HandlerGoesOn(id) ==
  /\ At(id, "await")
  /\ \/ /\ assets = "failed"
        /\ Answered(id, "threw", id)
        /\ UNCHANGED <<line, formatter>>
     \/ /\ assets = "ready" /\ req[id].mode # "format"
        /\ line' = Append(line, id)
        /\ Stage(id, "queued", 0)
        /\ UNCHANGED <<outbox, formatter>>
     \/ /\ assets = "ready" /\ req[id].mode = "format"
        /\ IF formatter THEN Answered(id, "ok", id)
                        ELSE Stage(id, "gofmt", 0) /\ UNCHANGED outbox
        /\ UNCHANGED <<line, formatter>>
  /\ UNCHANGED <<page, inbox, assets, gofmt, host>>

-----------------------------------------------------------------------------
\* StartGoOnly, a mutant, sets the globals for the formatter alone.
\* startGo, the part before its await: the globals point at the program's
\* filesystem.  The part after it runs the program, which takes the globals.
StartGoOnly(fs) == globalFs' = IF fs = "gofmt" THEN fs ELSE globalFs
StartGo(fs) == globalFs' = fs
RunsOn == globalFs

\* build_ begins when the build before it has ended: it empties the build
\* directory, writes its own files and starts the first tool.
\* A mutant: builds do not wait for each other.
MayBeginAtOnce(id) == id \in Ids
MayBegin(id) == line # <<>> /\ Head(line) = id
BuildBegins(id) ==
  /\ At(id, "queued") /\ MayBegin(id)
  /\ files' = id
  /\ StartGo("build")
  /\ Stage(id, "starting", 1)
  /\ UNCHANGED <<page, inbox, outbox, assets, gofmt, line, formatter, ranOn>>

\* The instance is there, and the tool runs on what the global fs is now.
ToolStarts(id) ==
  /\ At(id, "starting")
  /\ ranOn' = Plus(ranOn, id, RunsOn)
  /\ Stage(id, "running", stage[id].tool)
  /\ UNCHANGED <<page, inbox, outbox, assets, gofmt, line, formatter, globalFs, files>>

\* build_ ends, and with it the link of the chain: the next build may begin,
\* also after one that threw.
\* LeavesUnlessBroken, a mutant, stops the chain at a build that was rejected.
LeavesUnlessBroken(id) == line' = IF req[id].breaks = "none" THEN Tail(line) ELSE line
Leaves(id) == id \in Ids /\ line' = Tail(line)

\* A tool exits.  It fails on files it rejects and on a filesystem that does not
\* have them; then the build is over.  A check needs only the first tool, and a
\* test without a main has nothing more to build.
Rejects(id, tool) == req[files].breaks = tool \/ ranOn[id] # "build"

ToolExits(id) ==
  LET tools == Tools(req[id].mode)
      k     == stage[id].tool
      stops == Rejects(id, tools[k]) \/ (req[id].breaks = "nomain" /\ req[id].mode = "test")
  IN  /\ At(id, "running")
      /\ IF stops \/ k = Len(tools)
         THEN /\ Answered(id, IF stops THEN "failed" ELSE "ok", files)
              /\ Leaves(id)
              /\ UNCHANGED host
         ELSE /\ StartGo("build")
              /\ Stage(id, "starting", k + 1)
              /\ UNCHANGED <<outbox, line, ranOn, files>>
      /\ UNCHANGED <<page, inbox, assets, gofmt, formatter>>

\* The instance cannot be made: build_ throws and the handler reports it.
ToolThrows(id) ==
  /\ At(id, "starting")
  /\ Answered(id, "threw", id)
  /\ Leaves(id)
  /\ UNCHANGED <<page, inbox, assets, gofmt, formatter, host>>

\* A tool dies in a callback: no promise settles, and the page only hears of an
\* error in the worker.
ToolTraps(id) ==
  /\ Traps /\ At(id, "running")
  /\ PostState("error")
  /\ Stage(id, "dead", 0)
  /\ UNCHANGED <<page, inbox, assets, gofmt, line, formatter, host>>

-----------------------------------------------------------------------------
\* format with no formatter yet: it awaits the module, starts the program, and
\* takes the function that program has put into the globals.
FormatterModule(id) ==
  /\ At(id, "gofmt") /\ gofmt # "loading"
  /\ IF gofmt = "failed"
     THEN Answered(id, "threw", id) /\ UNCHANGED globalFs
     ELSE /\ StartGo("gofmt")
          /\ Stage(id, "formatting", 0)
          /\ UNCHANGED outbox
  /\ UNCHANGED <<page, inbox, assets, gofmt, line, formatter, ranOn, files>>

FormatterStarts(id) ==
  /\ At(id, "formatting")
  /\ ranOn' = Plus(ranOn, id, RunsOn)
  /\ formatter' = TRUE
  /\ Answered(id, "ok", id)
  /\ UNCHANGED <<page, inbox, assets, gofmt, line, globalFs, files>>

-----------------------------------------------------------------------------
Init ==
  /\ phase = "loading" /\ pending = {} /\ settled = << >> /\ req = << >>
  /\ inbox = <<>> /\ outbox = <<>>
  /\ assets = "loading" /\ gofmt = "loading" /\ stage = << >> /\ line = <<>>
  /\ formatter = FALSE
  /\ globalFs = "none" /\ ranOn = << >> /\ files = 0

\* What the worker does by itself, for the call id.
Serve(id) ==
  \/ HandlerGoesOn(id) \/ BuildBegins(id) \/ ToolStarts(id) \/ ToolExits(id)
  \/ FormatterModule(id) \/ FormatterStarts(id)

Next ==
  \/ Call \/ PageReceives \/ AssetsCome \/ GofmtComes \/ WorkerReceives
  \/ \E id \in Ids : Serve(id) \/ ToolThrows(id) \/ ToolTraps(id)

\* Messages arrive, downloads end one way or the other, and a started tool
\* ends: the event loops of the page and of the worker run what is due.
Fairness ==
  /\ WF_vars(PageReceives) /\ WF_vars(WorkerReceives)
  /\ WF_vars(AssetsCome) /\ WF_vars(GofmtComes)
  /\ \A id \in Ids : WF_vars(Serve(id))

Spec == Init /\ [][Next]_vars
FairSpec == Spec /\ Fairness

-----------------------------------------------------------------------------
\* The variables keep their types.
ToolTypeOK ==
  /\ phase \in {"loading", "ready", "error"}
  /\ Made = 1..Cardinality(Made) /\ Made \subseteq Ids
  /\ \A id \in Made : req[id] \in Requests
  /\ pending \subseteq Made /\ DOMAIN settled \subseteq Made \ pending
  /\ \A id \in DOMAIN stage : id \in Made
  /\ assets \in {"loading", "ready", "failed"} /\ gofmt \in {"loading", "ready", "failed"}
  /\ formatter \in BOOLEAN
  /\ globalFs \in {"none", "build", "gofmt"}
  /\ \A id \in DOMAIN ranOn : ranOn[id] \in {"none", "build", "gofmt"}
  /\ files \in Made \cup {0}

\* "Builds share one filesystem and one build directory, so they run one at a
\* time" (toolchain.ts): while a build has a tool started or starting, the
\* files in the build directory are its own.
OneBuild ==
  \A id \in DOMAIN stage : stage[id].at \in {"starting", "running"} =>
    files = id /\ Head(line) = id

\* What a build prints is what go build would print (toolchain.ts,
\* BuildResult.output): it fails only for files that a tool of its mode
\* rejects, and it succeeds only for files that none rejects.
AnswersAreReal ==
  \A id \in DOMAIN settled :
    LET r == req[id]
        bad == \/ r.breaks \in {Tools(r.mode)[k] : k \in 1..Len(Tools(r.mode))}
               \/ r.mode = "test" /\ r.breaks = "nomain"
    IN  r.mode # "format" /\ settled[id].outcome # "threw" =>
          (settled[id].outcome = "ok" <=> ~bad)

\* That much is true of a page that never formats, whatever tools die: builds do
\* not disturb each other, although they share the globals and the directory.
BuildsAreReal == (\A id \in Made : req[id].mode # "format") => AnswersAreReal

\* The worker answers like the abstract service: each call once, about its own
\* files.
Service == INSTANCE Calls
CallsSpec == Service!Spec

\* Every call is answered, also when the download failed or a build before it
\* threw; only a tool that dies leaves calls open, and then the page shows an
\* error (client.ts, onerror, which rejects nobody).
EveryCallEnds ==
  \A id \in Ids : id \in pending ~> (id \notin pending \/ phase = "error")
=============================================================================
