-------------------------- MODULE ToolchainProofs --------------------------
(***************************************************************************)
(* Proofs about the toolchain (module Toolchain), for any requests, any    *)
(* number of calls, and tools that may trap.  The invariant has three      *)
(* parts: what the page and the worker remember (ToolTypeOK), the messages *)
(* under way (Messages), and the chain of builds (Chain): the builds that  *)
(* wait are behind the one that is started, whose files are in the build   *)
(* directory.  From it the worker answers as the service Calls promises.   *)
(***************************************************************************)
EXTENDS Toolchain, FiniteSetTheorems, TLAPS

Phases == {"loading", "ready", "error"}
States == [type : {"state"}, phase : Phases]
Answers == {a \in [type : {"answer"}, id : Ids, outcome : Outcomes, of : Ids] : a.of = a.id}

\* A call that is under way to the worker has no handler yet, and every answer
\* under way is about the files of its own call.
Messages ==
  /\ inbox \in Seq(Ids) /\ outbox \in Seq(States \cup Answers)
  /\ \A i \in 1..Len(inbox) : inbox[i] \in Made /\ inbox[i] \notin DOMAIN stage
  /\ \A i, j \in 1..Len(inbox) : inbox[i] = inbox[j] => i = j

InLine == {"queued", "starting", "running", "dead"}
Started == {"starting", "running"}

\* The chain of builds: each is in it once, all but the first one wait, and a
\* build that is started is the first one and has its files in the directory.
Chain ==
  /\ line \in Seq(Ids)
  /\ \A i \in 1..Len(line) : line[i] \in DOMAIN stage /\ stage[line[i]].at \in InLine
  /\ \A i, j \in 1..Len(line) : line[i] = line[j] => i = j
  /\ \A i \in 2..Len(line) : stage[line[i]].at = "queued"
  /\ \A id \in DOMAIN stage : stage[id].at \in Started => line # <<>> /\ line[1] = id /\ files = id

IInv == ToolTypeOK /\ Messages /\ Chain

-----------------------------------------------------------------------------
\* What Plus makes of a function (Map.set).
LEMMA PlusIs ==
  ASSUME NEW f, NEW x, NEW v
  PROVE  /\ DOMAIN Plus(f, x, v) = DOMAIN f \cup {x}
         /\ Plus(f, x, v)[x] = v
         /\ \A y \in DOMAIN f : y # x => Plus(f, x, v)[y] = f[y]
  BY DEF Plus

\* The calls made are numbered from 1 without a gap, and so the next number is new.
LEMMA NextIsNew ==
  ASSUME ToolTypeOK
  PROVE  /\ Cardinality(Made) \in Nat
         /\ \A id \in Made : id \in Nat /\ id >= 1 /\ id < nextId
         /\ nextId \in Nat /\ nextId >= 1 /\ nextId \notin Made
         /\ Made \cup {nextId} = 1..nextId
         /\ Cardinality(Made \cup {nextId}) = nextId
<1>1. MaxId \in Int /\ 1 \in Int
  BY ToolchainAssumption
<1>2. IsFiniteSet(Ids)
  BY <1>1, FS_Interval DEF Ids
<1>3. IsFiniteSet(Made)
  BY <1>2, FS_Subset DEF ToolTypeOK
<1>4. Cardinality(Made) \in Nat
  BY <1>3, FS_CardinalityType
<1>5. nextId \notin Made
  BY <1>4 DEF nextId, ToolTypeOK
<1>6. Made \cup {nextId} = 1..nextId
  BY <1>4 DEF nextId, ToolTypeOK
<1>7. Cardinality(Made \cup {nextId}) = Cardinality(Made) + 1
  BY <1>3, <1>5, FS_AddElement
<1> QED BY <1>4, <1>5, <1>6, <1>7 DEF nextId, ToolTypeOK

-----------------------------------------------------------------------------
LEMMA InitHolds == Init => IInv
<1> SUFFICES ASSUME Init PROVE IInv
  OBVIOUS
<1>1. Made = {} /\ DOMAIN stage = {} /\ DOMAIN settled = {} /\ DOMAIN ranOn = {}
  BY DEF Init, Made
<1>2. Cardinality(Made) = 0
  BY <1>1, FS_EmptySet
<1>3. ToolTypeOK
  <2>1. Made = 1..Cardinality(Made)
    BY <1>1, <1>2
  <2>2. pending \subseteq Made /\ DOMAIN settled \subseteq Made \ pending
    BY <1>1 DEF Init
  <2> QED BY <1>1, <2>1, <2>2 DEF Init, ToolTypeOK
<1>4. Messages /\ Chain
  BY <1>1 DEF Init, Messages, Chain
<1> QED BY <1>3, <1>4 DEF IInv

-----------------------------------------------------------------------------
\* The page.

LEMMA CallKeeps == ASSUME IInv, Call PROVE IInv'
<1>1. PICK r \in Requests :
        /\ nextId <= MaxId
        /\ req' = Plus(req, nextId, r)
        /\ pending' = pending \cup {nextId}
        /\ inbox' = Append(inbox, nextId)
        /\ UNCHANGED <<phase, settled, outbox, worker, host>>
  BY DEF Call
<1>2. Made' = Made \cup {nextId}
  BY <1>1, PlusIs DEF Made
<1>3. /\ nextId \in Nat /\ nextId >= 1 /\ nextId \notin Made /\ Made \cup {nextId} = 1..nextId
      /\ Cardinality(Made \cup {nextId}) = nextId
  BY NextIsNew DEF IInv
<1>4. Cardinality(Made') = nextId /\ nextId \in Ids
  BY <1>1, <1>2, <1>3, ToolchainAssumption DEF Ids
<1>5. \A id \in Made' : req'[id] \in Requests
  <2>1. req'[nextId] = r /\ \A id \in Made : id # nextId => req'[id] = req[id]
    BY <1>1 DEF Plus, Made
  <2> QED BY <1>2, <2>1 DEF IInv, ToolTypeOK
<1>6. ToolTypeOK'
  <2>1. Made' = 1..Cardinality(Made') /\ Made' \subseteq Ids
    BY <1>2, <1>3, <1>4 DEF IInv, ToolTypeOK
  <2>2. pending' \subseteq Made' /\ DOMAIN settled' \subseteq Made' \ pending'
    BY <1>1, <1>2, <1>3 DEF IInv, ToolTypeOK
  <2>3. (\A id \in DOMAIN stage' : id \in Made') /\ files' \in Made' \cup {0}
    BY <1>1, <1>2 DEF IInv, ToolTypeOK, worker, host
  <2>4. UNCHANGED <<phase, assets, gofmt, formatter, globalFs, ranOn>>
    BY <1>1 DEF worker, host
  <2> QED BY <2>1, <2>2, <2>3, <2>4, <1>5 DEF IInv, ToolTypeOK
<1>7. Messages'
  <2>1. inbox \in Seq(Ids) /\ inbox' = Append(inbox, nextId) /\ stage' = stage
    BY <1>1 DEF IInv, Messages, worker
  <2>2. nextId \notin DOMAIN stage /\ \A i \in 1..Len(inbox) : inbox[i] # nextId
    BY <1>3 DEF IInv, Messages, ToolTypeOK
  <2>3. /\ inbox' \in Seq(Ids) /\ Len(inbox') = Len(inbox) + 1 /\ inbox'[Len(inbox) + 1] = nextId
        /\ \A i \in 1..Len(inbox) : inbox'[i] = inbox[i]
    BY <2>1, <1>4
  <2>4. Len(inbox) \in Nat
    BY <2>1
  <2>5. \A i \in 1..Len(inbox') : inbox'[i] \in Made' /\ inbox'[i] \notin DOMAIN stage'
    BY <2>1, <2>2, <2>3, <2>4, <1>2 DEF IInv, Messages
  <2>6. ASSUME NEW i \in 1..Len(inbox'), NEW j \in 1..Len(inbox'), inbox'[i] = inbox'[j]
        PROVE  i = j
    <3>1. \A k \in 1..Len(inbox') : k \in 1..Len(inbox) \/ k = Len(inbox) + 1
      BY <2>3, <2>4
    <3>2. \A k \in 1..Len(inbox) : inbox'[k] # nextId
      BY <2>2, <2>3
    <3>3. CASE i \in 1..Len(inbox) /\ j \in 1..Len(inbox)
      BY <2>3, <2>6, <3>3 DEF IInv, Messages
    <3>4. CASE i = Len(inbox) + 1 \/ j = Len(inbox) + 1
      <4>1. inbox'[i] = nextId /\ inbox'[j] = nextId
        BY <2>3, <2>6, <3>4
      <4> QED BY <3>1, <3>2, <4>1
    <3> QED BY <3>1, <3>3, <3>4
  <2> QED BY <2>3, <2>5, <2>6, <1>1 DEF IInv, Messages
<1>8. Chain'
  BY <1>1 DEF IInv, Chain, worker, host
<1> QED BY <1>6, <1>7, <1>8 DEF IInv

LEMMA PageReceivesKeeps == ASSUME IInv, PageReceives PROVE IInv'
<1> DEFINE m == Head(outbox)
<1>1. /\ outbox # <<>> /\ outbox' = Tail(outbox)
      /\ phase' = IF m.type = "state" THEN m.phase ELSE phase
      /\ IF m.type = "answer" /\ m.id \in pending
         THEN Settled(m.id, m.outcome, m.of) ELSE UNCHANGED <<pending, settled>>
      /\ UNCHANGED <<req, inbox, worker, host>>
  BY DEF PageReceives
<1>2. outbox \in Seq(States \cup Answers)
  BY DEF IInv, Messages
<1>3. m \in States \cup Answers /\ outbox' \in Seq(States \cup Answers)
  BY <1>1, <1>2
<1>4. phase' \in Phases
  BY <1>1, <1>3 DEF States, Answers, IInv, ToolTypeOK, Phases
<1>5. pending' \subseteq pending /\ DOMAIN settled' \subseteq DOMAIN settled \cup (pending \ pending')
  <2>1. CASE m.type = "answer" /\ m.id \in pending
    <3>1. Settled(m.id, m.outcome, m.of)
      BY <2>1, <1>1
    <3>2. DOMAIN settled' = DOMAIN settled \cup {m.id}
      BY <3>1 DEF Settled, Plus
    <3>3. pending' = pending \ {m.id}
      BY <3>1 DEF Settled
    <3> QED BY <3>2, <3>3, <2>1
  <2>2. CASE ~(m.type = "answer" /\ m.id \in pending)
    BY <2>2, <1>1
  <2> QED BY <2>1, <2>2
<1>6. Made' = Made
  BY <1>1 DEF Made
<1>7. ToolTypeOK'
  BY <1>1, <1>4, <1>5, <1>6 DEF IInv, ToolTypeOK, Phases, worker, host
<1>8. Messages'
  BY <1>1, <1>3, <1>6 DEF IInv, Messages, worker
<1>9. Chain'
  BY <1>1 DEF IInv, Chain, worker, host
<1> QED BY <1>7, <1>8, <1>9 DEF IInv

-----------------------------------------------------------------------------
\* Messages of the worker: an answer about its own files, or a state.
LEMMA PostKeeps ==
  ASSUME outbox \in Seq(States \cup Answers), NEW id \in Ids, NEW outcome \in Outcomes, Post(id, outcome, id)
  PROVE  outbox' \in Seq(States \cup Answers)
<1>1. [type |-> "answer", id |-> id, outcome |-> outcome, of |-> id] \in Answers
  BY DEF Answers
<1> QED BY <1>1 DEF Post

LEMMA PostStateKeeps ==
  ASSUME outbox \in Seq(States \cup Answers), NEW p \in Phases, PostState(p)
  PROVE  outbox' \in Seq(States \cup Answers)
<1>1. [type |-> "state", phase |-> p] \in States
  BY DEF States
<1> QED BY <1>1 DEF PostState

\* Downloads end.
LEMMA AssetsKeep == ASSUME IInv, AssetsCome \/ GofmtComes PROVE IInv'
<1>1. UNCHANGED <<page, inbox, stage, line, formatter, host>>
  BY DEF AssetsCome, GofmtComes
<1>2. assets' \in {"loading", "ready", "failed"} /\ gofmt' \in {"loading", "ready", "failed"}
  BY DEF AssetsCome, GofmtComes, IInv, ToolTypeOK
<1>3. outbox \in Seq(States \cup Answers)
  BY DEF IInv, Messages
<1>4. outbox' \in Seq(States \cup Answers)
  <2>1. CASE AssetsCome
    <3>1. PICK a \in {"ready", "failed"} : PostState(IF a = "ready" THEN "ready" ELSE "error")
      BY <2>1 DEF AssetsCome
    <3>2. (IF a = "ready" THEN "ready" ELSE "error") \in Phases
      BY DEF Phases
    <3> QED BY <3>1, <3>2, <1>3, PostStateKeeps
  <2>2. CASE GofmtComes
    BY <2>2, <1>3 DEF GofmtComes
  <2> QED BY <2>1, <2>2
<1>5. Made' = Made
  BY <1>1 DEF Made, page
<1>6. ToolTypeOK'
  BY <1>1, <1>2, <1>5 DEF IInv, ToolTypeOK, page, host
<1>7. Messages' /\ Chain'
  BY <1>1, <1>4, <1>5 DEF IInv, Messages, Chain, host
<1> QED BY <1>6, <1>7 DEF IInv

-----------------------------------------------------------------------------
\* What a step of a handler does to the stages: the call id is at the place p,
\* and no other call moves.
Moves(id, p) ==
  /\ DOMAIN stage' = DOMAIN stage \cup {id} /\ stage'[id].at = p
  /\ \A x \in DOMAIN stage : x # id => stage'[x] = stage[x]

LEMMA StageMoves ==
  ASSUME NEW id, NEW p, NEW k, Stage(id, p, k)
  PROVE  Moves(id, p)
<1> DEFINE v == [at |-> p, tool |-> k]
<1>1. v.at = p
  OBVIOUS
<1>2. stage' = Plus(stage, id, v)
  BY DEF Stage
<1> HIDE DEF v
<1>3. /\ DOMAIN stage' = DOMAIN stage \cup {id} /\ stage'[id] = v
      /\ \A x \in DOMAIN stage : x # id => stage'[x] = stage[x]
  BY <1>2 DEF Plus
<1> QED BY <1>1, <1>3 DEF Moves

\* A call outside the chain moves to a place outside it.
LEMMA ChainOutside ==
  ASSUME Chain, NEW id, NEW p, Moves(id, p), p \notin InLine,
         id \in DOMAIN stage => stage[id].at \notin InLine,
         UNCHANGED <<line, files>>
  PROVE  Chain'
<1>1. \A i \in 1..Len(line) : line[i] # id /\ line[i] \in DOMAIN stage
  BY DEF Chain
<1>2. \A i \in 1..Len(line) : line[i] \in DOMAIN stage' /\ stage'[line[i]] = stage[line[i]]
  BY <1>1 DEF Moves
<1>3. \A x \in DOMAIN stage' : stage'[x].at \in Started => line # <<>> /\ line[1] = x /\ files = x
  BY DEF Moves, Chain, Started, InLine
<1>4. Len(line) \in Nat
  BY DEF Chain
<1> QED BY <1>2, <1>3, <1>4 DEF Chain

\* The build at the head of the chain moves and its files are in the directory.
LEMMA ChainHead ==
  ASSUME Chain, NEW id \in DOMAIN stage, NEW p \in InLine, Moves(id, p),
         line # <<>>, line[1] = id, files' = id, line' = line
  PROVE  Chain'
<1>1. Len(line) \in Nat /\ Len(line) >= 1
  BY DEF Chain
<1>2. \A i \in 2..Len(line) : line[i] # id
  BY <1>1 DEF Chain
<1>3. \A i \in 1..Len(line) : line[i] \in DOMAIN stage' /\ stage'[line[i]].at \in InLine
  BY DEF Chain, Moves
<1>4. \A i \in 2..Len(line) : stage'[line[i]].at = "queued"
  BY <1>1, <1>2 DEF Chain, Moves
<1>5. \A x \in DOMAIN stage : stage[x].at \in Started => x = id
  BY DEF Chain
<1>6. \A x \in DOMAIN stage' : stage'[x].at \in Started => x = id
  BY <1>5 DEF Moves
<1> QED BY <1>3, <1>4, <1>6 DEF Chain

\* The build at the head of the chain leaves it.
LEMMA ChainLeaves ==
  ASSUME Chain, NEW id \in DOMAIN stage, NEW p, p \notin InLine, Moves(id, p),
         line # <<>>, line[1] = id, line' = Tail(line)
  PROVE  Chain'
<1>1. Len(line) \in Nat /\ Len(line) >= 1 /\ line \in Seq(Ids)
  BY DEF Chain
<1>2. /\ line' \in Seq(Ids) /\ Len(line') = Len(line) - 1
      /\ \A i \in 1..Len(line') : line'[i] = line[i + 1]
  BY <1>1
<1>3. \A i \in 1..Len(line') : i + 1 \in 2..Len(line) /\ i + 1 \in 1..Len(line)
  BY <1>1, <1>2
<1>4. \A i \in 1..Len(line') : line'[i] \in DOMAIN stage /\ stage[line'[i]].at = "queued" /\ line'[i] # id
  BY <1>1, <1>2, <1>3 DEF Chain
<1>5. \A i \in 1..Len(line') : line'[i] \in DOMAIN stage' /\ stage'[line'[i]].at = "queued"
  BY <1>4 DEF Moves
<1>6. \A i, j \in 1..Len(line') : line'[i] = line'[j] => i = j
  BY <1>1, <1>2, <1>3 DEF Chain
<1>7. \A x \in DOMAIN stage' : stage'[x].at \notin Started
  <2>1. \A x \in DOMAIN stage : stage[x].at \in Started => x = id
    BY DEF Chain
  <2> QED BY <2>1 DEF Moves, InLine, Started
<1>8. Len(line') \in Nat
  BY <1>1, <1>2
<1> QED BY <1>2, <1>5, <1>6, <1>7, <1>8 DEF Chain, InLine
\* A build joins the chain behind the others.
LEMMA ChainJoins ==
  ASSUME Chain, NEW id \in DOMAIN stage, id \in Ids, Moves(id, "queued"),
         stage[id].at \notin InLine, line' = Append(line, id), files' = files
  PROVE  Chain'
<1>1. Len(line) \in Nat /\ line \in Seq(Ids)
  BY DEF Chain
<1>2. /\ line' \in Seq(Ids) /\ Len(line') = Len(line) + 1 /\ line'[Len(line) + 1] = id
      /\ \A i \in 1..Len(line) : line'[i] = line[i]
  BY <1>1
<1>3. \A i \in 1..Len(line) : line[i] # id /\ line[i] \in DOMAIN stage
  BY DEF Chain
<1>4. stage'[id].at = "queued" /\ id \in DOMAIN stage'
  BY DEF Moves
<1>5. \A i \in 1..Len(line) : line[i] \in DOMAIN stage' /\ stage'[line[i]] = stage[line[i]]
  BY <1>3 DEF Moves
<1>6. \A i \in 1..Len(line') : i \in 1..Len(line) \/ i = Len(line) + 1
  BY <1>1, <1>2
<1>7. \A i \in 1..Len(line') : line'[i] \in DOMAIN stage' /\ stage'[line'[i]].at \in InLine
  BY <1>2, <1>4, <1>5, <1>6 DEF Chain, InLine
<1>8. \A i, j \in 1..Len(line') : line'[i] = line'[j] => i = j
  BY <1>2, <1>3, <1>6 DEF Chain
<1>9. \A i \in 2..Len(line') : stage'[line'[i]].at = "queued"
  <2>1. \A i \in 2..Len(line') : i \in 2..Len(line) \/ i = Len(line) + 1
    BY <1>1, <1>2
  <2> QED BY <1>1, <1>2, <1>4, <1>5, <2>1 DEF Chain
<1>10. \A x \in DOMAIN stage' : stage'[x].at \in Started =>
         line' # <<>> /\ line'[1] = x /\ files' = x
  <2> SUFFICES ASSUME NEW x \in DOMAIN stage', stage'[x].at \in Started
               PROVE  line' # <<>> /\ line'[1] = x /\ files' = x
    OBVIOUS
  <2>1. x # id /\ x \in DOMAIN stage
    BY <1>4 DEF Moves, Started
  <2>2. stage[x].at \in Started
    BY <2>1 DEF Moves
  <2>3. line # <<>> /\ line[1] = x /\ files = x
    BY <2>1, <2>2 DEF Chain
  <2>4. 1 \in 1..Len(line)
    BY <1>1, <2>3
  <2> QED BY <1>1, <1>2, <2>3, <2>4
<1> QED BY <1>2, <1>7, <1>8, <1>9, <1>10 DEF Chain

-----------------------------------------------------------------------------
\* A step of the handler of a call that has one keeps types and messages, when
\* what it posts is an answer about its own files or a state.
LEMMA HandlerTypes ==
  ASSUME IInv, DOMAIN stage' = DOMAIN stage, UNCHANGED <<page, inbox, assets, gofmt>>,
         outbox' \in Seq(States \cup Answers), formatter' \in BOOLEAN,
         globalFs' \in {"none", "build", "gofmt"}, files' \in Made \cup {0},
         \A x \in DOMAIN ranOn' : ranOn'[x] \in {"none", "build", "gofmt"}
  PROVE  ToolTypeOK' /\ Messages'
<1>1. Made' = Made /\ UNCHANGED <<phase, pending, settled, req>>
  BY DEF page, Made
<1>2. ToolTypeOK'
  BY <1>1 DEF IInv, ToolTypeOK
<1>3. Messages'
  BY <1>1 DEF IInv, Messages
<1> QED BY <1>2, <1>3

\* What the handlers may use of the invariant.
LEMMA TypesOf ==
  ASSUME IInv
  PROVE  /\ outbox \in Seq(States \cup Answers) /\ formatter \in BOOLEAN
         /\ globalFs \in {"none", "build", "gofmt"} /\ files \in Made \cup {0}
         /\ \A x \in DOMAIN ranOn : ranOn[x] \in {"none", "build", "gofmt"}
         /\ \A id \in DOMAIN stage : id \in Made /\ id \in Ids
         /\ Chain
  BY DEF IInv, ToolTypeOK, Messages

\* A program takes the global filesystem.
LEMMA RanOnKeeps ==
  ASSUME IInv, NEW id, ranOn' = Plus(ranOn, id, RunsOn)
  PROVE  \A x \in DOMAIN ranOn' : ranOn'[x] \in {"none", "build", "gofmt"}
<1>1. globalFs \in {"none", "build", "gofmt"}
  BY TypesOf
<1> QED BY <1>1, TypesOf DEF Plus, RunsOn

LEMMA WorkerReceivesKeeps == ASSUME IInv, WorkerReceives PROVE IInv'
<1> DEFINE id == Head(inbox)
<1>1. inbox # <<>> /\ inbox' = Tail(inbox) /\ UNCHANGED <<page, outbox, assets, gofmt, line, formatter, host>>
  BY DEF WorkerReceives
<1>2. Moves(id, "await")
  <2>1. Stage(id, "await", 0)
    BY DEF WorkerReceives, Stage
  <2> QED BY <2>1, StageMoves
<1>3. inbox \in Seq(Ids) /\ Len(inbox) \in Nat /\ Len(inbox) >= 1 /\ id = inbox[1] /\ 1 \in 1..Len(inbox)
  BY <1>1 DEF IInv, Messages
<1>4. id \in Made /\ id \notin DOMAIN stage
  BY <1>3 DEF IInv, Messages
<1>5. Made' = Made
  BY <1>1 DEF Made, page
<1>6. ToolTypeOK'
  <2>1. \A x \in DOMAIN stage' : x \in Made'
    BY <1>2, <1>4, <1>5 DEF IInv, ToolTypeOK, Moves
  <2>2. UNCHANGED <<phase, pending, settled, req, assets, gofmt, formatter, globalFs, ranOn, files>>
    BY <1>1 DEF page, host
  <2> QED BY <2>1, <2>2, <1>5 DEF IInv, ToolTypeOK
<1>7. Messages'
  <2>1. /\ inbox' \in Seq(Ids) /\ Len(inbox') = Len(inbox) - 1
        /\ \A i \in 1..Len(inbox') : inbox'[i] = inbox[i + 1]
    BY <1>1, <1>3
  <2>2. \A i \in 1..Len(inbox') : i + 1 \in 1..Len(inbox) /\ i + 1 # 1
    BY <1>3, <2>1
  <2>3. \A i \in 1..Len(inbox') : inbox'[i] \in Made /\ inbox'[i] \notin DOMAIN stage /\ inbox'[i] # id
    BY <1>3, <2>1, <2>2 DEF IInv, Messages
  <2>4. \A i, j \in 1..Len(inbox') : inbox'[i] = inbox'[j] => i = j
    BY <1>3, <2>1, <2>2 DEF IInv, Messages
  <2>5. DOMAIN stage' = DOMAIN stage \cup {id}
    BY <1>2 DEF Moves
  <2>6. outbox' \in Seq(States \cup Answers)
    BY <1>1 DEF IInv, Messages
  <2>7. \A i \in 1..Len(inbox') : inbox'[i] \in Made' /\ inbox'[i] \notin DOMAIN stage'
    BY <2>3, <2>5, <1>5
  <2> QED BY <2>1, <2>4, <2>6, <2>7 DEF Messages
<1>8. Chain'
  <2>1. Chain /\ "await" \notin InLine /\ UNCHANGED <<line, files>>
    BY <1>1 DEF IInv, InLine, host
  <2> HIDE DEF id
  <2> QED BY <2>1, <1>2, <1>4, ChainOutside
<1> QED BY <1>6, <1>7, <1>8 DEF IInv
\* The last act of a handler: it is at its end, and its answer is about its files.
LEMMA AnsweredIs ==
  ASSUME IInv, NEW id \in DOMAIN stage, NEW outcome \in Outcomes, Answered(id, outcome, id)
  PROVE  /\ Moves(id, "answered") /\ DOMAIN stage' = DOMAIN stage
         /\ outbox' \in Seq(States \cup Answers) /\ "answered" \notin InLine
<1>1. Post(id, outcome, id) /\ Stage(id, "answered", 0)
  BY DEF Answered
<1>2. Moves(id, "answered")
  BY <1>1, StageMoves
<1>3. id \in Ids /\ outbox \in Seq(States \cup Answers)
  BY TypesOf
<1>4. outbox' \in Seq(States \cup Answers)
  BY <1>1, <1>3, PostKeeps
<1>5. DOMAIN stage' = DOMAIN stage
  BY <1>2 DEF Moves
<1> QED BY <1>2, <1>4, <1>5 DEF InLine

\* A stage that is not the last.
LEMMA StagedIs ==
  ASSUME NEW id \in DOMAIN stage, NEW p, NEW k, Stage(id, p, k)
  PROVE  Moves(id, p) /\ DOMAIN stage' = DOMAIN stage
<1>1. Moves(id, p)
  BY StageMoves
<1> QED BY <1>1 DEF Moves

\* A build that is started is the first of the chain.
LEMMA StartedIsFirst ==
  ASSUME IInv, NEW id, At(id, "starting") \/ At(id, "running")
  PROVE  id \in DOMAIN stage /\ line # <<>> /\ line[1] = id /\ files = id
<1>1. id \in DOMAIN stage /\ stage[id].at \in Started
  BY DEF At, Started
<1> QED BY <1>1 DEF IInv, Chain

LEMMA HandlerGoesOnKeeps == ASSUME IInv, NEW id \in Ids, HandlerGoesOn(id) PROVE IInv'
<1>1. /\ id \in DOMAIN stage /\ stage[id].at = "await" /\ stage[id].at \notin InLine
      /\ UNCHANGED <<page, inbox, assets, gofmt, host>>
  BY DEF HandlerGoesOn, At, InLine
<1>2. UNCHANGED <<globalFs, ranOn, files>>
  BY <1>1 DEF host
<1>3. CASE /\ UNCHANGED <<line, formatter>>
           /\ \/ Answered(id, "threw", id)
              \/ Answered(id, "ok", id)
              \/ Stage(id, "gofmt", 0) /\ UNCHANGED outbox
  <2>1. PICK p : p \notin InLine /\ Moves(id, p) /\ DOMAIN stage' = DOMAIN stage
                 /\ outbox' \in Seq(States \cup Answers)
    <3>1. CASE Answered(id, "threw", id)
      <4>1. "threw" \in Outcomes
        BY DEF Outcomes
      <4> QED BY <3>1, <4>1, <1>1, AnsweredIs
    <3>2. CASE Answered(id, "ok", id)
      <4>1. "ok" \in Outcomes
        BY DEF Outcomes
      <4> QED BY <3>2, <4>1, <1>1, AnsweredIs
    <3>3. CASE Stage(id, "gofmt", 0) /\ UNCHANGED outbox
      <4>1. Moves(id, "gofmt") /\ DOMAIN stage' = DOMAIN stage
        BY <3>3, <1>1, StagedIs
      <4>2. "gofmt" \notin InLine
        BY DEF InLine
      <4> QED BY <3>3, <4>1, <4>2, TypesOf
    <3> QED BY <1>3, <3>1, <3>2, <3>3
  <2>2. ToolTypeOK' /\ Messages'
    BY <1>1, <1>2, <1>3, <2>1, TypesOf, HandlerTypes
  <2>3. Chain'
    BY <1>1, <1>2, <1>3, <2>1, TypesOf, ChainOutside
  <2> QED BY <2>2, <2>3 DEF IInv
<1>4. CASE /\ line' = Append(line, id) /\ Stage(id, "queued", 0)
           /\ UNCHANGED <<outbox, formatter>>
  <2>1. Moves(id, "queued") /\ DOMAIN stage' = DOMAIN stage
    BY <1>4, <1>1, StagedIs
  <2>2. ToolTypeOK' /\ Messages'
    BY <1>1, <1>2, <1>4, <2>1, TypesOf, HandlerTypes
  <2>3. Chain'
    BY <1>1, <1>2, <1>4, <2>1, TypesOf, ChainJoins
  <2> QED BY <2>2, <2>3 DEF IInv
<1> QED BY <1>3, <1>4 DEF HandlerGoesOn

\* The builds: the one at the head of the chain moves on, or leaves.
LEMMA BuildBeginsKeeps == ASSUME IInv, NEW id \in Ids, BuildBegins(id) PROVE IInv'
<1>1. /\ id \in DOMAIN stage /\ line # <<>> /\ line[1] = id
      /\ files' = id /\ globalFs' = "build"
      /\ UNCHANGED <<page, inbox, outbox, assets, gofmt, line, formatter, ranOn>>
  BY DEF BuildBegins, At, MayBegin, StartGo
<1>2. Moves(id, "starting") /\ DOMAIN stage' = DOMAIN stage
  BY <1>1, StagedIs DEF BuildBegins
<1>3. ToolTypeOK' /\ Messages'
  BY <1>1, <1>2, TypesOf, HandlerTypes
<1>4. Chain'
  <2>1. "starting" \in InLine
    BY DEF InLine
  <2> QED BY <1>1, <1>2, <2>1, TypesOf, ChainHead
<1> QED BY <1>3, <1>4 DEF IInv

LEMMA ToolStartsKeeps == ASSUME IInv, NEW id \in Ids, ToolStarts(id) PROVE IInv'
<1>1. /\ ranOn' = Plus(ranOn, id, RunsOn)
      /\ UNCHANGED <<page, inbox, outbox, assets, gofmt, line, formatter, globalFs, files>>
  BY DEF ToolStarts
<1>2. id \in DOMAIN stage /\ line # <<>> /\ line[1] = id /\ files = id
  BY StartedIsFirst DEF ToolStarts
<1>3. Moves(id, "running") /\ DOMAIN stage' = DOMAIN stage
  BY <1>2, StagedIs DEF ToolStarts
<1>4. \A x \in DOMAIN ranOn' : ranOn'[x] \in {"none", "build", "gofmt"}
  BY <1>1, RanOnKeeps
<1>5. ToolTypeOK' /\ Messages'
  BY <1>1, <1>3, <1>4, TypesOf, HandlerTypes
<1>6. Chain'
  <2>1. "running" \in InLine
    BY DEF InLine
  <2> QED BY <1>1, <1>2, <1>3, <2>1, TypesOf, ChainHead
<1> QED BY <1>5, <1>6 DEF IInv

LEMMA ToolExitsKeeps == ASSUME IInv, NEW id \in Ids, ToolExits(id) PROVE IInv'
<1>1. id \in DOMAIN stage /\ line # <<>> /\ line[1] = id /\ files = id
  BY StartedIsFirst DEF ToolExits
<1>2. UNCHANGED <<page, inbox, assets, gofmt, formatter>>
  BY DEF ToolExits
<1>3. CASE /\ \E outcome \in Outcomes : Answered(id, outcome, files)
           /\ Leaves(id) /\ UNCHANGED host
  <2>1. PICK outcome \in Outcomes : Answered(id, outcome, id)
    BY <1>1, <1>3
  <2>2. /\ Moves(id, "answered") /\ DOMAIN stage' = DOMAIN stage
        /\ outbox' \in Seq(States \cup Answers) /\ "answered" \notin InLine
    BY <1>1, <2>1, AnsweredIs
  <2>3. line' = Tail(line) /\ UNCHANGED <<globalFs, ranOn, files>>
    BY <1>3 DEF Leaves, host
  <2>4. ToolTypeOK' /\ Messages'
    BY <1>2, <2>2, <2>3, TypesOf, HandlerTypes
  <2>5. Chain'
    BY <1>1, <2>2, <2>3, TypesOf, ChainLeaves
  <2> QED BY <2>4, <2>5 DEF IInv
<1>4. CASE /\ globalFs' = "build" /\ \E k : Stage(id, "starting", k)
           /\ UNCHANGED <<outbox, line, ranOn, files>>
  <2>1. Moves(id, "starting") /\ DOMAIN stage' = DOMAIN stage
    BY <1>1, <1>4, StagedIs
  <2>2. ToolTypeOK' /\ Messages'
    BY <1>2, <1>4, <2>1, TypesOf, HandlerTypes
  <2>3. Chain'
    <3>1. "starting" \in InLine
      BY DEF InLine
    <3> QED BY <1>1, <1>4, <2>1, <3>1, TypesOf, ChainHead
  <2> QED BY <2>2, <2>3 DEF IInv
<1>5. "ok" \in Outcomes /\ "failed" \in Outcomes
  BY DEF Outcomes
<1> QED BY <1>3, <1>4, <1>5 DEF ToolExits, StartGo

LEMMA ToolThrowsKeeps == ASSUME IInv, NEW id \in Ids, ToolThrows(id) PROVE IInv'
<1>1. id \in DOMAIN stage /\ line # <<>> /\ line[1] = id
  BY StartedIsFirst DEF ToolThrows
<1>2. "threw" \in Outcomes /\ Answered(id, "threw", id)
  BY DEF ToolThrows, Outcomes
<1>3. /\ line' = Tail(line)
      /\ UNCHANGED <<page, inbox, assets, gofmt, formatter, globalFs, ranOn, files>>
  BY DEF ToolThrows, Leaves, host
<1>4. /\ Moves(id, "answered") /\ DOMAIN stage' = DOMAIN stage
      /\ outbox' \in Seq(States \cup Answers) /\ "answered" \notin InLine
  BY <1>1, <1>2, AnsweredIs
<1>5. ToolTypeOK' /\ Messages'
  BY <1>3, <1>4, TypesOf, HandlerTypes
<1>6. Chain'
  BY <1>1, <1>3, <1>4, TypesOf, ChainLeaves
<1> QED BY <1>5, <1>6 DEF IInv

LEMMA ToolTrapsKeeps == ASSUME IInv, NEW id \in Ids, ToolTraps(id) PROVE IInv'
<1>1. id \in DOMAIN stage /\ line # <<>> /\ line[1] = id /\ files = id
  BY StartedIsFirst DEF ToolTraps
<1>2. /\ PostState("error") /\ Stage(id, "dead", 0)
      /\ UNCHANGED <<page, inbox, assets, gofmt, line, formatter, globalFs, ranOn, files>>
  BY DEF ToolTraps, host
<1>3. Moves(id, "dead") /\ DOMAIN stage' = DOMAIN stage
  BY <1>1, <1>2, StagedIs
<1>4. outbox' \in Seq(States \cup Answers)
  <2>1. "error" \in Phases /\ outbox \in Seq(States \cup Answers)
    BY TypesOf DEF Phases
  <2> QED BY <1>2, <2>1, PostStateKeeps
<1>5. ToolTypeOK' /\ Messages'
  BY <1>2, <1>3, <1>4, TypesOf, HandlerTypes
<1>6. Chain'
  <2>1. "dead" \in InLine
    BY DEF InLine
  <2> QED BY <1>1, <1>2, <1>3, <2>1, TypesOf, ChainHead
<1> QED BY <1>5, <1>6 DEF IInv
\* The formatter is outside the chain.
LEMMA FormatterKeeps ==
  ASSUME IInv, NEW id \in Ids, FormatterModule(id) \/ FormatterStarts(id) PROVE IInv'
<1>1. /\ id \in DOMAIN stage /\ stage[id].at \notin InLine
      /\ UNCHANGED <<page, inbox, assets, gofmt, line, files>>
  BY DEF FormatterModule, FormatterStarts, At, InLine
<1>2. /\ formatter' \in BOOLEAN /\ globalFs' \in {"none", "build", "gofmt"}
      /\ \A x \in DOMAIN ranOn' : ranOn'[x] \in {"none", "build", "gofmt"}
  <2>1. CASE FormatterModule(id)
    BY <2>1, TypesOf DEF FormatterModule, StartGo
  <2>2. CASE FormatterStarts(id)
    <3>1. ranOn' = Plus(ranOn, id, RunsOn) /\ formatter' = TRUE /\ globalFs' = globalFs
      BY <2>2 DEF FormatterStarts
    <3> QED BY <3>1, RanOnKeeps, TypesOf
  <2> QED BY <2>1, <2>2
<1>3. PICK p : p \notin InLine /\ Moves(id, p) /\ DOMAIN stage' = DOMAIN stage
               /\ outbox' \in Seq(States \cup Answers)
  <2>1. CASE \E outcome \in Outcomes : Answered(id, outcome, id)
    BY <2>1, <1>1, AnsweredIs
  <2>2. CASE Stage(id, "formatting", 0) /\ UNCHANGED outbox
    <3>1. Moves(id, "formatting") /\ DOMAIN stage' = DOMAIN stage
      BY <2>2, <1>1, StagedIs
    <3>2. "formatting" \notin InLine
      BY DEF InLine
    <3> QED BY <2>2, <3>1, <3>2, TypesOf
  <2>3. "ok" \in Outcomes /\ "threw" \in Outcomes
    BY DEF Outcomes
  <2> QED BY <2>1, <2>2, <2>3 DEF FormatterModule, FormatterStarts
<1>4. ToolTypeOK' /\ Messages'
  BY <1>1, <1>2, <1>3, TypesOf, HandlerTypes
<1>5. Chain'
  BY <1>1, <1>3, TypesOf, ChainOutside
<1> QED BY <1>4, <1>5 DEF IInv

LEMMA StutterKeeps == ASSUME IInv, UNCHANGED vars PROVE IInv'
<1>1. ToolTypeOK'
  BY DEF IInv, ToolTypeOK, vars, page, worker, host, Made
<1>2. Messages'
  BY DEF IInv, Messages, vars, page, worker, host, Made
<1>3. Chain'
  BY DEF IInv, Chain, vars, page, worker, host
<1> QED BY <1>1, <1>2, <1>3 DEF IInv

LEMMA NextKeeps == IInv /\ [Next]_vars => IInv'
<1> SUFFICES ASSUME IInv, [Next]_vars PROVE IInv'
  OBVIOUS
<1>1. CASE Call
  BY <1>1, CallKeeps
<1>2. CASE PageReceives
  BY <1>2, PageReceivesKeeps
<1>3. CASE AssetsCome \/ GofmtComes
  BY <1>3, AssetsKeep
<1>4. CASE WorkerReceives
  BY <1>4, WorkerReceivesKeeps
<1>5. ASSUME NEW id \in Ids, Serve(id) \/ ToolThrows(id) \/ ToolTraps(id)
      PROVE  IInv'
  BY <1>5, HandlerGoesOnKeeps, BuildBeginsKeeps, ToolStartsKeeps, ToolExitsKeeps, FormatterKeeps,
     ToolThrowsKeeps, ToolTrapsKeeps DEF Serve
<1>6. CASE UNCHANGED vars
  BY <1>6, StutterKeeps
<1> QED BY <1>1, <1>2, <1>3, <1>4, <1>5, <1>6 DEF Next

\* Types, messages and the chain are an invariant of the toolchain.
THEOREM ToolchainInvariant == Spec => []IInv
<1>1. Init => IInv
  BY InitHolds
<1>2. IInv /\ [Next]_vars => IInv'
  BY NextKeeps
<1> QED BY <1>1, <1>2, PTL DEF Spec

\* The variables keep their types: every call under way was made, is pending or
\* settled and not both (GoClient.call, onmessage).
THEOREM ToolTypes == Spec => []ToolTypeOK
<1>1. IInv => ToolTypeOK
  BY DEF IInv
<1> QED BY <1>1, ToolchainInvariant, PTL

\* While a build has a tool started or starting, the files in the build
\* directory are its own (toolchain.ts, build and build_).
THEOREM BuildsTakeTurns == Spec => []OneBuild
<1>1. IInv => OneBuild
  <2> SUFFICES ASSUME IInv, NEW id \in DOMAIN stage, stage[id].at \in {"starting", "running"}
               PROVE  files = id /\ Head(line) = id
    BY DEF OneBuild
  <2>1. line # <<>> /\ line[1] = id /\ files = id
    BY DEF IInv, Chain, Started
  <2> QED BY <2>1
<1> QED BY <1>1, ToolchainInvariant, PTL

-----------------------------------------------------------------------------
\* What builds print, on a page that never formats.  The invariant follows each
\* build: it has the globals while it is started, its tool runs on the build
\* filesystem, the tools before it took its files; and every answer under way or
\* given says of its files what they deserve.

NoFormat == \A id \in Made : req[id].mode # "format"
NoMain(r) == r.breaks = "nomain" /\ r.mode = "test"
Bad(r) == NoMain(r) \/ \E k \in 1..Len(Tools(r.mode)) : Tools(r.mode)[k] = r.breaks

\* The answer says what the files deserve.
RealAnswer(id, outcome) == outcome # "threw" => (outcome = "ok" <=> ~Bad(req[id]))

\* How far the build id has come.
OnCourse(id) ==
  LET tools == Tools(req[id].mode)
      k     == stage[id].tool
  IN  /\ stage[id].at \notin {"gofmt", "formatting"}
      /\ stage[id].at \in Started =>
           /\ globalFs = "build" /\ k \in 1..Len(tools)
           /\ \A j \in 1..Len(tools) : j < k => tools[j] # req[id].breaks
           /\ k > 1 => ~NoMain(req[id])
      /\ stage[id].at = "running" => id \in DOMAIN ranOn /\ ranOn[id] = "build"

Course == ~formatter /\ \A id \in DOMAIN stage : OnCourse(id)
RealPosts ==
  \A i \in 1..Len(outbox) : outbox[i].type = "answer" => RealAnswer(outbox[i].id, outbox[i].outcome)
RealResults == \A id \in DOMAIN settled : RealAnswer(id, settled[id].outcome)

\* An answer is under way only to a call that was made.
PostsMade == \A i \in 1..Len(outbox) : outbox[i].type = "answer" => outbox[i].id \in Made
RealInv == PostsMade /\ (NoFormat => Course /\ RealPosts /\ RealResults)

LEMMA RealInit == Init => RealInv
  BY DEF Init, RealInv, PostsMade, Course, RealPosts, RealResults

\* A stage with its tool.
LEMMA StageIs ==
  ASSUME NEW id, NEW p, NEW k, Stage(id, p, k)
  PROVE  /\ DOMAIN stage' = DOMAIN stage \cup {id} /\ stage'[id].at = p /\ stage'[id].tool = k
         /\ \A x \in DOMAIN stage : x # id => stage'[x] = stage[x]
<1>1. PICK v : v = [at |-> p, tool |-> k]
  OBVIOUS
<1>2. stage' = Plus(stage, id, v)
  BY <1>1 DEF Stage
<1>3. /\ DOMAIN stage' = DOMAIN stage \cup {id} /\ stage'[id] = v
      /\ \A x \in DOMAIN stage : x # id => stage'[x] = stage[x]
  BY <1>2 DEF Plus
<1> QED BY <1>1, <1>3

\* A build stays on its course while others move.
LEMMA OthersOnCourse ==
  ASSUME NEW x \in DOMAIN stage, OnCourse(x), stage'[x] = stage[x], req'[x] = req[x],
         globalFs' \in {globalFs, "build"},
         x \in DOMAIN ranOn => x \in DOMAIN ranOn' /\ ranOn'[x] = ranOn[x]
  PROVE  OnCourse(x)'
  BY DEF OnCourse

\* The messages after a post: an answer that is real, or a state.
LEMMA AnswerIsReal ==
  ASSUME IInv, RealInv, NEW id \in DOMAIN stage, NEW outcome \in Outcomes, Answered(id, outcome, id),
         UNCHANGED page, NoFormat => RealAnswer(id, outcome)
  PROVE  PostsMade' /\ (NoFormat => RealPosts')
<1>1. outbox \in Seq(States \cup Answers) /\ id \in Made
  BY TypesOf
<1>2. PICK a : a = [type |-> "answer", id |-> id, outcome |-> outcome, of |-> id]
  OBVIOUS
<1>3. outbox' = Append(outbox, a)
  BY <1>2 DEF Answered, Post
<1>4. /\ Len(outbox') = Len(outbox) + 1 /\ outbox'[Len(outbox) + 1] = a /\ Len(outbox) \in Nat
      /\ \A i \in 1..Len(outbox) : outbox'[i] = outbox[i]
  BY <1>1, <1>3
<1>5. \A i \in 1..Len(outbox') : i \in 1..Len(outbox) \/ i = Len(outbox) + 1
  BY <1>4
<1>6. a.id = id /\ a.outcome = outcome
  BY <1>2
<1>7. req' = req /\ Made' = Made
  BY DEF page, Made
<1>8. PostsMade'
  BY <1>1, <1>4, <1>5, <1>6, <1>7 DEF RealInv, PostsMade
<1>9. ASSUME NoFormat PROVE RealPosts'
  <2>1. RealPosts /\ RealAnswer(id, outcome)
    BY <1>9 DEF RealInv
  <2> QED BY <2>1, <1>4, <1>5, <1>6, <1>7 DEF RealPosts, RealAnswer
<1> QED BY <1>8, <1>9

LEMMA StatesAreNoAnswers ==
  ASSUME IInv, RealInv, NEW p, PostState(p), UNCHANGED page
  PROVE  PostsMade' /\ (NoFormat => RealPosts')
<1>1. outbox \in Seq(States \cup Answers)
  BY TypesOf
<1>2. PICK a : a = [type |-> "state", phase |-> p]
  OBVIOUS
<1>3. outbox' = Append(outbox, a) /\ a.type # "answer"
  BY <1>2 DEF PostState
<1>4. /\ Len(outbox') = Len(outbox) + 1 /\ outbox'[Len(outbox) + 1] = a /\ Len(outbox) \in Nat
      /\ \A i \in 1..Len(outbox) : outbox'[i] = outbox[i]
  BY <1>1, <1>3
<1>5. \A i \in 1..Len(outbox') : i \in 1..Len(outbox) \/ i = Len(outbox) + 1
  BY <1>4
<1>6. req' = req /\ Made' = Made
  BY DEF page, Made
<1>7. \A i \in 1..Len(outbox') : outbox'[i].type = "answer" => i \in 1..Len(outbox) /\ outbox'[i] = outbox[i]
  BY <1>3, <1>4, <1>5
<1> QED BY <1>6, <1>7 DEF RealInv, PostsMade, RealPosts, RealAnswer

LEMMA SamePosts ==
  ASSUME RealInv, UNCHANGED <<page, outbox>>
  PROVE  PostsMade' /\ (NoFormat => RealPosts')
<1>1. req' = req /\ Made' = Made
  BY DEF page, Made
<1> QED BY <1>1 DEF RealInv, PostsMade, RealPosts, RealAnswer

\* A step of the worker: the results are the same, and the posts are real.
LEMMA WorkerStep ==
  ASSUME IInv, RealInv, UNCHANGED page, PostsMade', NoFormat => RealPosts', NoFormat => Course'
  PROVE  RealInv'
<1>1. settled' = settled /\ req' = req /\ Made' = Made
  BY DEF page, Made
<1>2. NoFormat' <=> NoFormat
  BY <1>1 DEF NoFormat
<1>3. ASSUME NoFormat PROVE RealResults'
  BY <1>1, <1>3 DEF RealInv, RealResults, RealAnswer
<1> QED BY <1>2, <1>3 DEF RealInv

\* The call id moves out of the started builds and the others keep their course.
LEMMA CourseLeft ==
  ASSUME Course, NEW id, NEW p, Moves(id, p), p \notin Started \cup {"gofmt", "formatting"},
         UNCHANGED <<page, formatter, globalFs, ranOn>>
  PROVE  Course'
<1>1. req' = req
  BY DEF page
<1>2. ASSUME NEW x \in DOMAIN stage' PROVE OnCourse(x)'
  <2>1. CASE x = id
    BY <2>1 DEF OnCourse, Moves, Started
  <2>2. CASE x # id
    <3>1. x \in DOMAIN stage /\ stage'[x] = stage[x]
      BY <2>2 DEF Moves
    <3> QED BY <3>1, <1>1, OthersOnCourse DEF Course
  <2> QED BY <2>1, <2>2
<1> QED BY <1>2 DEF Course

-----------------------------------------------------------------------------
LEMMA CallReal == ASSUME IInv, RealInv, Call PROVE RealInv'
<1>1. PICK r \in Requests :
        /\ req' = Plus(req, nextId, r)
        /\ UNCHANGED <<phase, settled, outbox, worker, host>>
  BY DEF Call
<1>2. nextId \notin Made /\ DOMAIN stage \subseteq Made /\ DOMAIN settled \subseteq Made
  BY NextIsNew DEF IInv, ToolTypeOK
<1>3. Made' = Made \cup {nextId} /\ \A x \in Made : req'[x] = req[x]
  BY <1>1, <1>2 DEF Made, Plus
<1>4. UNCHANGED <<settled, outbox, stage, formatter, globalFs, ranOn>>
  BY <1>1 DEF worker, host
<1>5. PostsMade'
  BY <1>3, <1>4 DEF RealInv, PostsMade
<1>6. ASSUME NoFormat' PROVE Course' /\ RealPosts' /\ RealResults'
  <2>1. NoFormat
    BY <1>3, <1>6 DEF NoFormat
  <2>2. PostsMade /\ Course /\ RealPosts /\ RealResults
    BY <2>1 DEF RealInv
  <2>3. Course'
    BY <1>2, <1>3, <1>4, <2>2, OthersOnCourse DEF Course
  <2>4. RealPosts'
    BY <1>3, <1>4, <2>2 DEF PostsMade, RealPosts, RealAnswer
  <2>5. RealResults'
    BY <1>2, <1>3, <1>4, <2>2 DEF RealResults, RealAnswer
  <2> QED BY <2>3, <2>4, <2>5
<1> QED BY <1>5, <1>6 DEF RealInv

LEMMA PageReceivesReal == ASSUME IInv, RealInv, PageReceives PROVE RealInv'
<1>1. PICK m : m = Head(outbox)
  OBVIOUS
<1>2. /\ outbox # <<>> /\ outbox' = Tail(outbox)
      /\ IF m.type = "answer" /\ m.id \in pending
         THEN Settled(m.id, m.outcome, m.of) ELSE UNCHANGED <<pending, settled>>
      /\ UNCHANGED <<req, worker, host>>
  BY <1>1 DEF PageReceives
<1>3. outbox \in Seq(States \cup Answers)
  BY TypesOf
<1>4. /\ Len(outbox) \in Nat /\ Len(outbox) >= 1 /\ m = outbox[1] /\ Len(outbox') = Len(outbox) - 1
      /\ \A i \in 1..Len(outbox') : outbox'[i] = outbox[i + 1]
  BY <1>1, <1>2, <1>3
<1>5. /\ 1 \in 1..Len(outbox)
      /\ \A i \in 1..Len(outbox') : i + 1 \in 1..Len(outbox) /\ outbox'[i] = outbox[i + 1]
  BY <1>4
<1>6. Made' = Made /\ req' = req /\ UNCHANGED <<stage, formatter, globalFs, ranOn>>
  BY <1>2 DEF Made, worker, host
<1>7. PostsMade'
  BY <1>5, <1>6 DEF RealInv, PostsMade
<1>8. ASSUME NoFormat' PROVE Course' /\ RealPosts' /\ RealResults'
  <2>1. Course /\ RealPosts /\ RealResults
    BY <1>6, <1>8 DEF RealInv, NoFormat
  <2>2. Course'
    BY <1>6, <2>1, OthersOnCourse DEF Course
  <2>3. RealPosts'
    BY <1>5, <1>6, <2>1 DEF RealPosts, RealAnswer
  <2>4. RealResults'
    <3>1. CASE m.type = "answer" /\ m.id \in pending
      <4>1. PICK v : v = [outcome |-> m.outcome, of |-> m.of]
        OBVIOUS
      <4>2. settled' = Plus(settled, m.id, v) /\ v.outcome = m.outcome
        BY <1>2, <3>1, <4>1 DEF Settled
      <4>3. /\ DOMAIN settled' = DOMAIN settled \cup {m.id} /\ settled'[m.id] = v
            /\ \A x \in DOMAIN settled : x # m.id => settled'[x] = settled[x]
        BY <4>2 DEF Plus
      <4>4. RealAnswer(m.id, m.outcome)
        BY <1>4, <1>5, <2>1, <3>1 DEF RealPosts
      <4> QED BY <4>2, <4>3, <4>4, <2>1, <1>6 DEF RealResults, RealAnswer
    <3>2. CASE ~(m.type = "answer" /\ m.id \in pending)
      BY <1>2, <1>6, <2>1, <3>2 DEF RealResults, RealAnswer
    <3> QED BY <3>1, <3>2
  <2> QED BY <2>2, <2>3, <2>4
<1> QED BY <1>7, <1>8 DEF RealInv

LEMMA AssetsReal == ASSUME IInv, RealInv, AssetsCome \/ GofmtComes PROVE RealInv'
<1>1. UNCHANGED page /\ UNCHANGED <<stage, formatter, globalFs, ranOn, req>>
  BY DEF AssetsCome, GofmtComes, host, page
<1>2. PostsMade' /\ (NoFormat => RealPosts')
  BY <1>1, SamePosts, StatesAreNoAnswers DEF AssetsCome, GofmtComes
<1>3. NoFormat => Course'
  BY <1>1, OthersOnCourse DEF RealInv, Course
<1> QED BY <1>1, <1>2, <1>3, WorkerStep

LEMMA WorkerReceivesReal == ASSUME IInv, RealInv, WorkerReceives PROVE RealInv'
<1>1. PICK id : id = Head(inbox)
  OBVIOUS
<1>2. UNCHANGED page /\ UNCHANGED <<outbox, formatter, globalFs, ranOn>> /\ Stage(id, "await", 0)
  BY <1>1 DEF WorkerReceives, host, Stage
<1>3. Moves(id, "await")
  BY <1>2, StageMoves
<1>4. NoFormat => Course'
  BY <1>2, <1>3, CourseLeft DEF RealInv, Started
<1> QED BY <1>2, <1>4, SamePosts, WorkerStep

LEMMA HandlerGoesOnReal == ASSUME IInv, RealInv, NEW id \in Ids, HandlerGoesOn(id) PROVE RealInv'
<1>1. id \in DOMAIN stage /\ id \in Made /\ UNCHANGED page /\ UNCHANGED <<globalFs, ranOn>>
  BY TypesOf DEF HandlerGoesOn, At, host
<1>2. CASE Answered(id, "threw", id) /\ UNCHANGED <<line, formatter>>
  <2>1. "threw" \in Outcomes /\ RealAnswer(id, "threw")
    BY DEF Outcomes, RealAnswer
  <2>2. Moves(id, "answered")
    BY <2>1, <1>1, <1>2, AnsweredIs
  <2>3. NoFormat => Course'
    BY <1>1, <1>2, <2>2, CourseLeft DEF RealInv, Started
  <2> QED BY <1>1, <1>2, <2>1, <2>3, AnswerIsReal, WorkerStep
<1>3. CASE Stage(id, "queued", 0) /\ UNCHANGED <<outbox, formatter>>
  <2>1. Moves(id, "queued")
    BY <1>3, StageMoves
  <2>2. NoFormat => Course'
    BY <1>1, <1>3, <2>1, CourseLeft DEF RealInv, Started
  <2> QED BY <1>1, <1>3, <2>2, SamePosts, WorkerStep
<1>4. CASE /\ req[id].mode = "format" /\ UNCHANGED <<line, formatter>>
           /\ \/ Answered(id, "ok", id)
              \/ Stage(id, "gofmt", 0) /\ UNCHANGED outbox
  <2>1. ~NoFormat
    BY <1>1, <1>4 DEF NoFormat
  <2>2. "ok" \in Outcomes
    BY DEF Outcomes
  <2>3. PostsMade'
    BY <1>1, <1>4, <2>1, <2>2, SamePosts, AnswerIsReal
  <2> QED BY <1>1, <2>1, <2>3, WorkerStep
<1> QED BY <1>2, <1>3, <1>4 DEF HandlerGoesOn

\* A build that is started, and its request.
LEMMA ToolsOf ==
  ASSUME IInv, NEW id \in DOMAIN stage, NoFormat
  PROVE  Len(Tools(req[id].mode)) \in Nat /\ Len(Tools(req[id].mode)) >= 1
<1>1. id \in Made /\ req[id] \in Requests /\ req[id].mode # "format"
  BY TypesOf DEF IInv, ToolTypeOK, NoFormat
<1>2. req[id].mode \in {"check", "run", "test"}
  BY <1>1, ToolchainAssumption
<1> QED BY <1>2 DEF Tools

\* The build id is at a tool that has not seen its files, and the others keep
\* their course.
LEMMA CourseGoesOn ==
  ASSUME Course, NEW id \in DOMAIN stage, NEW p \in Started, NEW k, Stage(id, p, k),
         UNCHANGED <<page, formatter>>, globalFs' = "build",
         k \in 1..Len(Tools(req[id].mode)), k > 1 => ~NoMain(req[id]),
         \A j \in 1..Len(Tools(req[id].mode)) : j < k => Tools(req[id].mode)[j] # req[id].breaks,
         p = "running" => id \in DOMAIN ranOn' /\ ranOn'[id] = "build",
         \A x \in DOMAIN ranOn : x # id => x \in DOMAIN ranOn' /\ ranOn'[x] = ranOn[x]
  PROVE  Course'
<1>1. req' = req
  BY DEF page
<1>2. /\ DOMAIN stage' = DOMAIN stage /\ stage'[id].at = p /\ stage'[id].tool = k
      /\ \A x \in DOMAIN stage : x # id => stage'[x] = stage[x]
  BY StageIs
<1>3. ASSUME NEW x \in DOMAIN stage' PROVE OnCourse(x)'
  <2>1. CASE x = id
    BY <2>1, <1>1, <1>2 DEF OnCourse, Started
  <2>2. CASE x # id
    BY <2>2, <1>1, <1>2, OthersOnCourse DEF Course
  <2> QED BY <2>1, <2>2
<1> QED BY <1>3 DEF Course

LEMMA BuildBeginsReal == ASSUME IInv, RealInv, NEW id \in Ids, BuildBegins(id) PROVE RealInv'
<1>1. /\ id \in DOMAIN stage /\ globalFs' = "build" /\ Stage(id, "starting", 1)
      /\ UNCHANGED page /\ UNCHANGED <<outbox, formatter, ranOn>>
  BY DEF BuildBegins, At, StartGo
<1>2. ASSUME NoFormat PROVE Course'
  <2>1. Course /\ Len(Tools(req[id].mode)) \in Nat /\ Len(Tools(req[id].mode)) >= 1
    BY <1>1, <1>2, ToolsOf DEF RealInv
  <2>2. /\ 1 \in 1..Len(Tools(req[id].mode)) /\ "starting" \in Started
        /\ \A j \in 1..Len(Tools(req[id].mode)) : ~(j < 1)
    BY <2>1 DEF Started
  <2> QED BY <1>1, <2>1, <2>2, CourseGoesOn
<1> QED BY <1>1, <1>2, SamePosts, WorkerStep

LEMMA ToolStartsReal == ASSUME IInv, RealInv, NEW id \in Ids, ToolStarts(id) PROVE RealInv'
<1>1. /\ id \in DOMAIN stage /\ stage[id].at = "starting"
      /\ ranOn' = Plus(ranOn, id, globalFs) /\ Stage(id, "running", stage[id].tool)
      /\ UNCHANGED page /\ UNCHANGED <<outbox, formatter, globalFs>>
  BY DEF ToolStarts, At, RunsOn
<1>2. /\ id \in DOMAIN ranOn' /\ ranOn'[id] = globalFs
      /\ \A x \in DOMAIN ranOn : x # id => x \in DOMAIN ranOn' /\ ranOn'[x] = ranOn[x]
  BY <1>1 DEF Plus
<1>3. ASSUME NoFormat PROVE Course'
  <2>1. Course /\ OnCourse(id) /\ stage[id].at \in Started /\ "running" \in Started
    BY <1>1, <1>3 DEF RealInv, Course, Started
  <2>2. PICK k : k = stage[id].tool
    OBVIOUS
  <2>3. /\ globalFs = "build" /\ k \in 1..Len(Tools(req[id].mode)) /\ (k > 1 => ~NoMain(req[id]))
        /\ \A j \in 1..Len(Tools(req[id].mode)) : j < k => Tools(req[id].mode)[j] # req[id].breaks
    BY <2>1, <2>2 DEF OnCourse
  <2>4. Stage(id, "running", k)
    BY <1>1, <2>2
  <2> QED BY <1>1, <1>2, <2>1, <2>3, <2>4, CourseGoesOn
<1> QED BY <1>1, <1>3, SamePosts, WorkerStep

\* A tool that exits has seen the files of its own build: the tools before it
\* took them, and it rejects them if it is the one they break.
LEMMA ToolExitsReal == ASSUME IInv, RealInv, NEW id \in Ids, ToolExits(id) PROVE RealInv'
<1>1. id \in DOMAIN stage /\ files = id /\ stage[id].at = "running"
  BY StartedIsFirst DEF ToolExits, At
<1>2. UNCHANGED page /\ formatter' = formatter /\ stage[id].at \in Started
  BY <1>1 DEF ToolExits, Started
<1>3. PICK k, tools : k = stage[id].tool /\ tools = Tools(req[id].mode)
  OBVIOUS
<1>4. PICK stops \in BOOLEAN : stops <=> (Rejects(id, tools[k]) \/ NoMain(req[id]))
  OBVIOUS
<1>5. /\ stops \/ k = Len(tools) =>
           /\ Answered(id, IF stops THEN "failed" ELSE "ok", id) /\ UNCHANGED <<globalFs, ranOn>>
      /\ ~(stops \/ k = Len(tools)) =>
           globalFs' = "build" /\ Stage(id, "starting", k + 1) /\ UNCHANGED <<outbox, ranOn>>
  BY <1>1, <1>3, <1>4 DEF ToolExits, NoMain, StartGo, host
<1>6. ASSUME NoFormat
      PROVE  /\ Course /\ Len(tools) \in Nat /\ k \in 1..Len(tools)
             /\ \A j \in 1..Len(tools) : j < k => tools[j] # req[id].breaks
             /\ stops <=> (req[id].breaks = tools[k] \/ NoMain(req[id]))
  <2>1. Course /\ OnCourse(id)
    BY <1>1, <1>6 DEF RealInv, Course
  <2>2. Len(tools) \in Nat
    BY <1>1, <1>3, <1>6, ToolsOf
  <2> QED BY <1>1, <1>2, <1>3, <1>4, <2>1, <2>2 DEF OnCourse, Rejects
<1>7. CASE stops \/ k = Len(tools)
  <2>1. PICK outcome \in Outcomes : /\ outcome = "failed" <=> stops
                                    /\ outcome = "ok" <=> ~stops
                                    /\ Answered(id, outcome, id)
    BY <1>5, <1>7 DEF Outcomes
  <2>2. ASSUME NoFormat PROVE RealAnswer(id, outcome)
    <3>1. CASE stops
      <4>1. Bad(req[id])
        BY <1>3, <1>6, <2>2, <3>1 DEF Bad
      <4> QED BY <2>1, <3>1, <4>1 DEF RealAnswer
    <3>2. CASE ~stops
      <4>1. \A j \in 1..Len(tools) : j < k \/ j = k
        BY <1>6, <1>7, <2>2, <3>2
      <4>2. ~Bad(req[id])
        BY <1>3, <1>6, <2>2, <3>2, <4>1 DEF Bad
      <4> QED BY <2>1, <3>2, <4>2 DEF RealAnswer
    <3> QED BY <3>1, <3>2
  <2>3. Moves(id, "answered") /\ UNCHANGED <<globalFs, ranOn>>
    BY <1>1, <1>5, <1>7, <2>1, AnsweredIs
  <2>4. NoFormat => Course'
    BY <1>2, <1>6, <2>3, CourseLeft DEF Started
  <2> QED BY <1>1, <1>2, <2>1, <2>2, <2>4, AnswerIsReal, WorkerStep
<1>8. CASE ~(stops \/ k = Len(tools))
  <2>1. ASSUME NoFormat PROVE Course'
    <3>1. PICK n : n = k + 1
      OBVIOUS
    <3>2. n \in 1..Len(tools) /\ ~NoMain(req[id]) /\ "starting" \in Started
      BY <1>6, <1>8, <2>1, <3>1 DEF Started
    <3>3. \A j \in 1..Len(tools) : j < n => tools[j] # req[id].breaks
      <4>1. \A j \in 1..Len(tools) : j < n => j < k \/ j = k
        BY <1>6, <2>1, <3>1
      <4> QED BY <4>1, <1>6, <1>8, <2>1
    <3>4. Stage(id, "starting", n)
      BY <1>5, <1>8, <3>1
    <3> QED BY <1>1, <1>2, <1>3, <1>5, <1>6, <1>8, <2>1, <3>2, <3>3, <3>4, CourseGoesOn
  <2> QED BY <1>2, <1>5, <1>8, <2>1, SamePosts, WorkerStep
<1> QED BY <1>7, <1>8

LEMMA ToolThrowsReal == ASSUME IInv, RealInv, NEW id \in Ids, ToolThrows(id) PROVE RealInv'
<1>1. /\ id \in DOMAIN stage /\ Answered(id, "threw", id)
      /\ UNCHANGED page /\ UNCHANGED <<formatter, globalFs, ranOn>>
  BY DEF ToolThrows, At, host
<1>2. "threw" \in Outcomes /\ RealAnswer(id, "threw")
  BY DEF Outcomes, RealAnswer
<1>3. Moves(id, "answered")
  BY <1>1, <1>2, AnsweredIs
<1>4. NoFormat => Course'
  BY <1>1, <1>3, CourseLeft DEF RealInv, Started
<1> QED BY <1>1, <1>2, <1>4, AnswerIsReal, WorkerStep

LEMMA ToolTrapsReal == ASSUME IInv, RealInv, NEW id \in Ids, ToolTraps(id) PROVE RealInv'
<1>1. /\ PostState("error") /\ Stage(id, "dead", 0)
      /\ UNCHANGED page /\ UNCHANGED <<formatter, globalFs, ranOn>>
  BY DEF ToolTraps, host
<1>2. Moves(id, "dead")
  BY <1>1, StageMoves
<1>3. NoFormat => Course'
  BY <1>1, <1>2, CourseLeft DEF RealInv, Started
<1> QED BY <1>1, <1>3, StatesAreNoAnswers, WorkerStep

\* A call at the formatter is a format.
LEMMA FormatterReal ==
  ASSUME IInv, RealInv, NEW id \in Ids, FormatterModule(id) \/ FormatterStarts(id) PROVE RealInv'
<1>1. id \in DOMAIN stage /\ stage[id].at \in {"gofmt", "formatting"} /\ UNCHANGED page
  BY DEF FormatterModule, FormatterStarts, At
<1>2. ~NoFormat
  BY <1>1 DEF RealInv, Course, OnCourse
<1>3. PostsMade'
  <2>1. CASE UNCHANGED outbox
    BY <2>1, <1>1, SamePosts
  <2>2. CASE \E outcome \in Outcomes : Answered(id, outcome, id)
    BY <2>2, <1>1, <1>2, AnswerIsReal
  <2>3. "ok" \in Outcomes /\ "threw" \in Outcomes
    BY DEF Outcomes
  <2> QED BY <2>1, <2>2, <2>3 DEF FormatterModule, FormatterStarts
<1> QED BY <1>1, <1>2, <1>3, WorkerStep

LEMMA RealStutter == ASSUME RealInv, UNCHANGED vars PROVE RealInv'
<1>1. UNCHANGED <<settled, req, outbox, stage, formatter, globalFs, ranOn>> /\ Made' = Made
  BY DEF vars, page, worker, host, Made
<1>2. Course => Course'
  BY <1>1, OthersOnCourse DEF Course
<1> QED BY <1>1, <1>2 DEF RealInv, PostsMade, RealPosts, RealResults, RealAnswer, NoFormat

LEMMA RealStep == IInv /\ RealInv /\ [Next]_vars => RealInv'
<1> SUFFICES ASSUME IInv, RealInv, [Next]_vars PROVE RealInv'
  OBVIOUS
<1>1. CASE Call
  BY <1>1, CallReal
<1>2. CASE PageReceives
  BY <1>2, PageReceivesReal
<1>3. CASE AssetsCome \/ GofmtComes
  BY <1>3, AssetsReal
<1>4. CASE WorkerReceives
  BY <1>4, WorkerReceivesReal
<1>5. ASSUME NEW id \in Ids, Serve(id) \/ ToolThrows(id) \/ ToolTraps(id)
      PROVE  RealInv'
  BY <1>5, HandlerGoesOnReal, BuildBeginsReal, ToolStartsReal, ToolExitsReal, FormatterReal,
     ToolThrowsReal, ToolTrapsReal DEF Serve
<1>6. CASE UNCHANGED vars
  BY <1>6, RealStutter
<1> QED BY <1>1, <1>2, <1>3, <1>4, <1>5, <1>6 DEF Next

\* On a page that never formats, a build fails only for files that a tool of its
\* mode rejects and succeeds only for files that none rejects, whatever other
\* builds share the globals and the directory (toolchain.ts, BuildResult; go.ts,
\* startGo).
THEOREM BuildsAnswerForThemselves == Spec => []BuildsAreReal
<1>1. RealInv => BuildsAreReal
  <2> SUFFICES ASSUME RealInv, NoFormat, NEW id \in DOMAIN settled, settled[id].outcome # "threw"
               PROVE  LET r == req[id]
                          bad == \/ r.breaks \in {Tools(r.mode)[k] : k \in 1..Len(Tools(r.mode))}
                                 \/ r.mode = "test" /\ r.breaks = "nomain"
                      IN  settled[id].outcome = "ok" <=> ~bad
    BY DEF BuildsAreReal, AnswersAreReal, NoFormat
  <2>1. settled[id].outcome = "ok" <=> ~Bad(req[id])
    BY DEF RealInv, RealResults, RealAnswer
  <2> QED BY <2>1 DEF Bad, NoMain
<1>2. Spec => []RealInv
  BY RealInit, RealStep, ToolchainInvariant, PTL DEF Spec
<1> QED BY <1>1, <1>2, PTL

-----------------------------------------------------------------------------
\* The worker implements the service.

LEMMA CallIsACall == ASSUME IInv, Call PROVE Service!Next
<1>1. /\ nextId <= MaxId /\ pending' = pending \cup {nextId} /\ settled' = settled
  BY DEF Call
<1>2. nextId \in Nat /\ nextId >= 1 /\ nextId \notin Made
  BY NextIsNew DEF IInv
<1>3. nextId \in Ids
  BY <1>1, <1>2, ToolchainAssumption DEF Ids
<1>4. nextId \notin pending \cup DOMAIN settled
  BY <1>2 DEF IInv, ToolTypeOK
<1>5. Service!Call(nextId)
  BY <1>1, <1>4 DEF Service!Call
<1> QED BY <1>3, <1>5 DEF Service!Next

LEMMA AnswerSettles == ASSUME IInv, PageReceives PROVE [Service!Next]_<<pending, settled>>
<1> DEFINE m == Head(outbox)
<1>1. outbox # <<>> /\ m \in States \cup Answers
  BY DEF PageReceives, IInv, Messages
<1>2. CASE m.type = "answer" /\ m.id \in pending
  <2>1. m \in Answers
    BY <1>1, <1>2 DEF States
  <2>2. m.id \in Ids /\ m.outcome \in Outcomes /\ m.of = m.id
    BY <2>1 DEF Answers
  <2>3. Settled(m.id, m.outcome, m.of)
    BY <1>2 DEF PageReceives
  <2> DEFINE v == [outcome |-> m.outcome, of |-> m.of]
  <2>4. v \in [outcome : Outcomes, of : {m.id}]
    BY <2>2
  <2>5. pending' = pending \ {m.id} /\ settled' = Plus(settled, m.id, v)
    BY <2>3 DEF Settled
  <2>6. m.id \notin DOMAIN settled
    BY <1>2 DEF IInv, ToolTypeOK
  <2> HIDE DEF v
  <2>7. /\ DOMAIN settled' = DOMAIN settled \cup {m.id} /\ settled'[m.id] = v
        /\ \A x \in DOMAIN settled : settled'[x] = settled[x]
    BY <2>5, <2>6 DEF Plus
  <2>8. Service!Settle(m.id)
    BY <1>2, <2>4, <2>5, <2>7 DEF Service!Settle
  <2> QED BY <2>2, <2>8 DEF Service!Next
<1>3. CASE ~(m.type = "answer" /\ m.id \in pending)
  BY <1>3 DEF PageReceives
<1> QED BY <1>2, <1>3

\* Whatever the worker, its messages and its tools do, each call is answered at
\* most once and about its own files (module Calls).
THEOREM ServiceImplemented == Spec => CallsSpec
<1>1. Init => pending = {} /\ settled = << >>
  BY DEF Init
<1>2. ASSUME IInv, [Next]_vars PROVE [Service!Next]_Service!vars
  <2>1. CASE Call
    BY <1>2, <2>1, CallIsACall
  <2>2. CASE PageReceives
    BY <1>2, <2>2, AnswerSettles DEF Service!vars
  <2>3. CASE UNCHANGED <<pending, settled>>
    BY <2>3 DEF Service!vars
  <2>4. CASE AssetsCome \/ GofmtComes \/ WorkerReceives
    BY <2>3, <2>4 DEF AssetsCome, GofmtComes, WorkerReceives, page
  <2>5. ASSUME NEW id \in Ids, Serve(id) \/ ToolThrows(id) \/ ToolTraps(id)
        PROVE  UNCHANGED page
    BY <2>5 DEF Serve, HandlerGoesOn, BuildBegins, ToolStarts, ToolExits, FormatterModule,
       FormatterStarts, ToolThrows, ToolTraps
  <2>6. CASE UNCHANGED vars
    BY <2>3, <2>6 DEF vars, page
  <2> QED BY <1>2, <2>1, <2>2, <2>3, <2>4, <2>5, <2>6 DEF Next, page
<1> QED BY <1>1, <1>2, ToolchainInvariant, PTL DEF Spec, CallsSpec, Service!Spec
=============================================================================
