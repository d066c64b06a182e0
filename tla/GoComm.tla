------------------------------- MODULE GoComm -------------------------------
(***************************************************************************)
(* Communication in the simulator (web/src/viz/engine/sim.ts): channels,   *)
(* the channel side of timers and contexts, and select over all of them.   *)
(*                                                                         *)
(* A parked operation leaves a waiter in the queue of each channel, timer  *)
(* or context it waits for.  The waiters of one select share a record      *)
(* (Shared in the code) whose flag fired says that one of the cases ran;   *)
(* the other waiters stay in their queues and are skipped when they come   *)
(* up (pop).  Here the record is <<g, n>>, the n-th park of goroutine g.   *)
(*                                                                         *)
(* Next lets the running goroutine execute any operation: it stands for    *)
(* every program a scene can give its goroutines.  When a timer or a       *)
(* deadline fires is left open; GoClock says when.                         *)
(***************************************************************************)
EXTENDS GoSched

CONSTANTS
  Channels,   \* the channel nodes
  Capacity,   \* the capacity of each
  Contexts,   \* the context nodes
  MaxCases    \* bound: the cases of the largest select

Sources == Channels \cup Timers \cup Contexts

ASSUME CommAssumption ==
  /\ Capacity \in [Channels -> Nat]
  /\ Channels \cap Timers = {}
  /\ Channels \cap Contexts = {}
  /\ Timers \cap Contexts = {}
  /\ Goroutines \cap Sources = {}
  /\ Mutexes \cap Sources = {}
  /\ Nil \notin Sources
  /\ MaxCases \in Nat

VARIABLES
  buf,      \* CHRT.buf: the tokens in each channel, oldest first
  closed,   \* CHRT.closed
  sendq,    \* CHRT.sendq
  recvq,    \* the recvq of each channel, timer and context
  tickets,  \* how many waiter records each goroutine has made
  fired,    \* the records whose flag is set
  timer,    \* TimerRT.state
  pending,  \* TimerRT.pending: a tick nobody received, or NoTok
  done      \* CtxRT.done

chanVars == <<buf, closed, sendq>>
waitVars == <<recvq, tickets, fired>>
sourceVars == <<timer, pending, done>>
commVars == <<schedVars, tokenVars, chanVars, waitVars, sourceVars>>

-----------------------------------------------------------------------------
(* Waiters.                                                                *)

\* i is the index of the select case, 0 for a plain send or receive; s is
\* what a sender sends.
Sender == [g : Goroutines, n : Nat \ {0}, i : Nat, s : Operand]
Receiver == [g : Goroutines, n : Nat \ {0}, i : Nat, s : {NoTok}]
\* Slip: every case of a select gets a record of its own.
NextWaiterPerCase(g, i, s) == [g |-> g, n |-> tickets[g] + 1 + i, i |-> i, s |-> s]
NextWaiter(g, i, s) == [g |-> g, n |-> tickets[g] + 1, i |-> i, s |-> s]
Shared(w) == <<w.g, w.n>>

\* live and pop: the waiters of a queue that have not fired, the first of
\* them, and what pop leaves in the queue.
\*
\* A slip: pop serves a waiter that fired.
LiveOrNot(q) == DOMAIN q
Live(q) == {k \in DOMAIN q : Shared(q[k]) \notin fired}
FirstLive(q) == CHOOSE k \in Live(q) : \A j \in Live(q) : k <= j
Popped(q) == q[FirstLive(q)]
Rest(q) == IF Live(q) = {} THEN <<>> ELSE SubSeq(q, FirstLive(q) + 1, Len(q))

\* The live waiters of q as indices in queue order (a set of one sequence).
QueueOrder(q) ==
  {f \in Orders(Live(q)) : \A i, j \in DOMAIN f : i < j => f[i] < f[j]}
EntriesOf(q, order, ok) ==
  [k \in DOMAIN order |-> Entry(q[order[k]].g, Result(q[order[k]].i, ok, NoTok))]

\* A channel's buffer b drawn slot by slot, on a location map L.
\*
\* Slip: the tokens behind the one taken do not slide a slot forward.
ShelvedNot(L, c, b) == L
Shelved(L, c, b) ==
  [x \in DOMAIN L |-> IF \E k \in DOMAIN b : b[k] = x
                      THEN Slot(c, CHOOSE k \in DOMAIN b : b[k] = x) ELSE L[x]]

\* What an operation that sends returns: only a select has a result.
Sent(i, tok) == IF i = 0 THEN Unit ELSE Result(i, TRUE, tok)

-----------------------------------------------------------------------------
(* Sending: Sim.send, and the send case of Sim.select when i > 0.          *)

SendUnheld(g, s) ==
  /\ ~ MayUse(g, s)
  /\ Fatal
  /\ UNCHANGED <<tokenVars, chanVars, waitVars>>

SendOnClosed(g, c, s) ==
  /\ MayUse(g, s)
  /\ closed[c]
  /\ loc' = Moved(loc, TokenOf(s), At(g))
  /\ born' = Minted(s)
  /\ Panics(g, <<>>)
  /\ UNCHANGED <<chanVars, waitVars>>

\* Sim.handOff: the first waiting receiver gets the token.
SendToReceiver(g, c, s, i) ==
  /\ MayUse(g, s)
  /\ ~ closed[c]
  /\ Live(recvq[c]) # {}
  /\ LET r == Popped(recvq[c])
         tok == TokenOf(s)
     IN  /\ loc' = Moved(DropHeld(loc, r.g), tok, At(r.g))
         /\ fired' = fired \cup {Shared(r)}
         /\ Returns(Sent(i, tok), <<Entry(r.g, Result(r.i, TRUE, tok))>>)
  /\ born' = Minted(s)
  /\ recvq' = [recvq EXCEPT ![c] = Rest(@)]
  /\ UNCHANGED <<tickets, chanVars>>

SendToBuffer(g, c, s, i) ==
  /\ MayUse(g, s)
  /\ ~ closed[c]
  /\ Live(recvq[c]) = {}
  /\ Len(buf[c]) < Capacity[c]
  /\ buf' = [buf EXCEPT ![c] = Append(@, TokenOf(s))]
  /\ loc' = Moved(loc, TokenOf(s), Slot(c, Len(buf[c]) + 1))
  /\ born' = Minted(s)
  /\ recvq' = [recvq EXCEPT ![c] = Rest(@)]
  /\ Returns(Sent(i, TokenOf(s)), <<>>)
  /\ UNCHANGED <<closed, sendq, tickets, fired>>

SendNow(g, c, s, i) ==
  \/ SendUnheld(g, s)
  \/ SendOnClosed(g, c, s)
  \/ SendToReceiver(g, c, s, i)
  \/ SendToBuffer(g, c, s, i)

NoRoom(g, c, s) ==
  /\ MayUse(g, s)
  /\ ~ closed[c]
  /\ Live(recvq[c]) = {}
  /\ Len(buf[c]) >= Capacity[c]

\* ch <- v.  A sender that must wait has made its token already.
Send(g, c, s) ==
  /\ Runs(g)
  /\ \/ SendNow(g, c, s, 0)
     \/ /\ NoRoom(g, c, s)
        /\ sendq' = [sendq EXCEPT ![c] = Append(@, NextWaiter(g, 0, TokenOf(s)))]
        /\ recvq' = [recvq EXCEPT ![c] = Rest(@)]
        /\ tickets' = [tickets EXCEPT ![g] = @ + 1]
        /\ loc' = Moved(loc, TokenOf(s), At(g))
        /\ born' = Minted(s)
        /\ Parks(g)
        /\ UNCHANGED <<buf, closed, fired>>
  /\ UNCHANGED sourceVars

\* signal.Notify: a send that drops the value when there is no room.
Notify(g, c, s) ==
  /\ Runs(g)
  /\ \/ SendNow(g, c, s, 0)
     \/ /\ NoRoom(g, c, s)
        /\ loc' = Without(loc, {TokenOf(s)})
        /\ born' = Minted(s)
        /\ recvq' = [recvq EXCEPT ![c] = Rest(@)]
        /\ Returns(Unit, <<>>)
        /\ UNCHANGED <<tickets, fired, chanVars>>
  /\ UNCHANGED sourceVars

-----------------------------------------------------------------------------
(* Receiving: Sim.recv, and the receive case of Sim.select when i > 0.     *)

\* A select that waits to send checks its token only when the case runs.
SenderMay(w) == w.i = 0 \/ MayUse(w.g, w.s)

\* The buffer's oldest token, and a waiting sender takes the free slot.
TakeFromBuffer(g, c, i) ==
  /\ buf[c] # <<>>
  /\ LET tok == Head(buf[c])
         taken == Moved(DropHeld(loc, g), tok, At(g))
         w == Popped(sendq[c])
         sent == TokenOf(w.s)
         refilled == Append(Tail(buf[c]), sent)
     IN  \/ /\ Live(sendq[c]) = {}
            /\ buf' = [buf EXCEPT ![c] = Tail(@)]
            /\ loc' = Shelved(taken, c, Tail(buf[c]))
            /\ Returns(Result(i, TRUE, tok), <<>>)
            /\ UNCHANGED <<born, fired>>
         \/ /\ Live(sendq[c]) # {}
            /\ SenderMay(w)
            /\ buf' = [buf EXCEPT ![c] = refilled]
            /\ loc' = Shelved(Moved(taken, sent, At(c)), c, refilled)
            /\ born' = Minted(w.s)
            /\ fired' = fired \cup {Shared(w)}
            /\ Returns(Result(i, TRUE, tok), <<Entry(w.g, Sent(w.i, sent))>>)
  /\ sendq' = [sendq EXCEPT ![c] = Rest(@)]
  /\ UNCHANGED <<closed, recvq, tickets>>

TakeFromSender(g, c, i) ==
  /\ buf[c] = <<>>
  /\ Live(sendq[c]) # {}
  /\ LET w == Popped(sendq[c])
         tok == TokenOf(w.s)
     IN  /\ SenderMay(w)
         /\ loc' = Moved(DropHeld(loc, g), tok, At(g))
         /\ born' = Minted(w.s)
         /\ fired' = fired \cup {Shared(w)}
         /\ Returns(Result(i, TRUE, tok), <<Entry(w.g, Sent(w.i, tok))>>)
  /\ sendq' = [sendq EXCEPT ![c] = Rest(@)]
  /\ UNCHANGED <<buf, closed, recvq, tickets>>

TakeFromUnheld(c) ==
  /\ Live(sendq[c]) # {}
  /\ ~ SenderMay(Popped(sendq[c]))
  /\ Fatal
  /\ UNCHANGED <<tokenVars, chanVars, waitVars>>

TakeFromClosed(c, i) ==
  /\ buf[c] = <<>>
  /\ Live(sendq[c]) = {}
  /\ closed[c]
  /\ sendq' = [sendq EXCEPT ![c] = Rest(@)]
  /\ Returns(Result(i, FALSE, NoTok), <<>>)
  /\ UNCHANGED <<tokenVars, buf, closed, waitVars>>

TakeNow(g, c, i) ==
  /\ \/ TakeFromBuffer(g, c, i)
     \/ TakeFromSender(g, c, i)
     \/ TakeFromUnheld(c)
     \/ TakeFromClosed(c, i)
  /\ UNCHANGED sourceVars

\* Sim.takeTick
TakeTick(g, tm, i) ==
  /\ pending[tm] # NoTok
  /\ pending' = [pending EXCEPT ![tm] = NoTok]
  /\ loc' = Moved(DropHeld(loc, g), pending[tm], At(g))
  /\ Returns(Result(i, TRUE, pending[tm]), <<>>)
  /\ UNCHANGED <<born, timer, done, chanVars, waitVars>>

SeeDone(cx, i) ==
  /\ done[cx]
  /\ Returns(Result(i, FALSE, NoTok), <<>>)
  /\ UNCHANGED <<tokenVars, chanVars, waitVars, sourceVars>>

\* A receive from x that can complete now, as a plain receive or a case.
ReceiveNow(g, x, i) ==
  \/ x \in Channels /\ TakeNow(g, x, i)
  \/ x \in Timers /\ TakeTick(g, x, i)
  \/ x \in Contexts /\ SeeDone(x, i)

\* Nothing to receive from x.
Empty(x) ==
  \/ x \in Channels /\ buf[x] = <<>> /\ Live(sendq[x]) = {} /\ ~ closed[x]
  \/ x \in Timers /\ pending[x] = NoTok
  \/ x \in Contexts /\ ~ done[x]

\* <-x
Recv(g, x) ==
  /\ Runs(g)
  /\ \/ ReceiveNow(g, x, 0)
     \/ /\ Empty(x)
        /\ sendq' = [c \in Channels |-> IF c = x THEN Rest(sendq[c]) ELSE sendq[c]]
        /\ recvq' = [recvq EXCEPT ![x] = Append(@, NextWaiter(g, 0, NoTok))]
        /\ tickets' = [tickets EXCEPT ![g] = @ + 1]
        /\ Parks(g)
        /\ UNCHANGED <<tokenVars, buf, closed, fired, sourceVars>>

-----------------------------------------------------------------------------
(* Select.  A case is a direction, a node and, to send, an operand.  No    *)
(* select in web/src/viz/specs names a node twice in one direction.        *)

SendCase(c, s) == [dir |-> "send", on |-> c, s |-> s]
RecvCase(x) == [dir |-> "recv", on |-> x, s |-> NoTok]
OneCasePerEnd(cases) ==
  \A i, j \in DOMAIN cases :
    cases[i].dir = cases[j].dir /\ cases[i].on = cases[j].on => i = j

\* Slip: a case that sends does not look for a waiting receiver.
CaseReadyBuffer(case) ==
  IF case.dir = "send"
  THEN closed[case.on] \/ Len(buf[case.on]) < Capacity[case.on]
  ELSE ~ Empty(case.on)

\* Sim.caseReady
CaseReady(case) ==
  IF case.dir = "send"
  THEN \/ closed[case.on]
       \/ Live(recvq[case.on]) # {}
       \/ Len(buf[case.on]) < Capacity[case.on]
  ELSE ~ Empty(case.on)

\* A waiter for each case, on the end of the queue it waits in.
Enqueued(queue, g, cases, dir) ==
  [x \in DOMAIN queue |->
     IF \E i \in DOMAIN cases : cases[i].dir = dir /\ cases[i].on = x
     THEN LET i == CHOOSE j \in DOMAIN cases : cases[j].dir = dir /\ cases[j].on = x
          IN  Append(queue[x], NextWaiter(g, i, cases[i].s))
     ELSE queue[x]]

\* select: any case that is ready, else default, else wait for all of them.
Select(g, cases, default) ==
  /\ Runs(g)
  /\ OneCasePerEnd(cases)
  /\ LET able == {i \in DOMAIN cases : CaseReady(cases[i])}
     IN  \/ \E i \in able :
              \/ /\ cases[i].dir = "send"
                 /\ SendNow(g, cases[i].on, cases[i].s, i)
                 /\ UNCHANGED sourceVars
              \/ /\ cases[i].dir = "recv"
                 /\ ReceiveNow(g, cases[i].on, i)
         \/ /\ able = {}
            /\ default
            /\ Returns(Result(-1, FALSE, NoTok), <<>>)
            /\ UNCHANGED <<tokenVars, chanVars, waitVars, sourceVars>>
         \/ /\ able = {}
            /\ ~ default
            /\ sendq' = Enqueued(sendq, g, cases, "send")
            /\ recvq' = Enqueued(recvq, g, cases, "recv")
            /\ tickets' = [tickets EXCEPT ![g] = @ + 1]
            /\ Parks(g)
            /\ UNCHANGED <<tokenVars, buf, closed, fired, sourceVars>>

-----------------------------------------------------------------------------
(* close, make, cancel and the timer operations.                           *)

\* Every receiver that waits is woken; a sender that waits panics.
Close(g, c) ==
  /\ Runs(g)
  /\ \/ /\ closed[c]
        /\ Panics(g, <<>>)
        /\ UNCHANGED <<chanVars, waitVars>>
     \/ /\ ~ closed[c]
        /\ closed' = [closed EXCEPT ![c] = TRUE]
        /\ fired' = fired \cup {Shared(recvq[c][k]) : k \in Live(recvq[c])}
                          \cup {Shared(sendq[c][k]) : k \in Live(sendq[c])}
        /\ recvq' = [recvq EXCEPT ![c] = <<>>]
        /\ sendq' = [sendq EXCEPT ![c] = <<>>]
        /\ \E order \in QueueOrder(recvq[c]) :
             LET woken == EntriesOf(recvq[c], order, FALSE)
                 stuck == {k \in Live(sendq[c]) :
                             \A j \in Live(recvq[c]) : Shared(recvq[c][j]) # Shared(sendq[c][k])}
             IN  IF stuck = {} THEN Returns(Unit, woken)
                 ELSE Panics(sendq[c][CHOOSE k \in stuck : \A j \in stuck : k <= j].g, woken)
        /\ UNCHANGED <<buf, tickets>>
  /\ UNCHANGED <<tokenVars, sourceVars>>

\* ch = make(...): a fresh channel in the place of one nobody waits on.
Remake(g, c) ==
  /\ Runs(g)
  /\ \/ /\ Live(sendq[c]) = {}
        /\ Live(recvq[c]) = {}
        /\ loc' = Without(loc, {buf[c][k] : k \in DOMAIN buf[c]})
        /\ buf' = [buf EXCEPT ![c] = <<>>]
        /\ closed' = [closed EXCEPT ![c] = FALSE]
        /\ sendq' = [sendq EXCEPT ![c] = <<>>]
        /\ recvq' = [recvq EXCEPT ![c] = <<>>]
        /\ Returns(Unit, <<>>)
        /\ UNCHANGED <<born, tickets, fired>>
     \/ /\ Live(sendq[c]) # {} \/ Live(recvq[c]) # {}
        /\ Fatal
        /\ UNCHANGED <<tokenVars, chanVars, waitVars>>
  /\ UNCHANGED sourceVars

\* Sim.finishContext: Done() closes, and everyone who waits for it is woken.
Finishes(cx) ==
  /\ done' = [done EXCEPT ![cx] = TRUE]
  /\ fired' = fired \cup {Shared(recvq[cx][k]) : k \in Live(recvq[cx])}
  /\ recvq' = [recvq EXCEPT ![cx] = <<>>]
  /\ UNCHANGED <<tickets, timer, pending, tokenVars, chanVars>>

Cancel(g, cx) ==
  /\ Runs(g)
  /\ \/ /\ done[cx]
        /\ Returns(Unit, <<>>)
        /\ UNCHANGED <<tokenVars, chanVars, waitVars, sourceVars>>
     \/ /\ ~ done[cx]
        /\ \E order \in QueueOrder(recvq[cx]) :
             /\ Finishes(cx)
             /\ Returns(Unit, EntriesOf(recvq[cx], order, FALSE))

\* A deadline passes.
FireContext(cx) ==
  /\ Idle
  /\ ~ done[cx]
  /\ \E order \in QueueOrder(recvq[cx]) :
       /\ Finishes(cx)
       /\ Wakes(EntriesOf(recvq[cx], order, FALSE))
  /\ UNCHANGED <<cur, input, halted, errors>>

\* Slip: Reset keeps the old tick, as before Go 1.23.
TimerOpKeepsTick(g, op, tm) ==
  /\ Runs(g)
  /\ timer' = [timer EXCEPT ![tm] = IF op = "stop" THEN "stopped" ELSE "running"]
  /\ Returns(Unit, <<>>)
  /\ UNCHANGED <<loc, pending, born, done, chanVars, waitVars>>

\* Start, Reset and Stop, which discard a tick nobody received.
TimerOp(g, op, tm) ==
  /\ Runs(g)
  /\ loc' = Without(loc, {pending[tm]})
  /\ pending' = [pending EXCEPT ![tm] = NoTok]
  /\ timer' = [timer EXCEPT ![tm] = IF op = "stop" THEN "stopped" ELSE "running"]
  /\ Returns(Unit, <<>>)
  /\ UNCHANGED <<born, done, chanVars, waitVars>>

\* Sim.fireTimer: the tick goes to the first waiter, or stays in the timer.
FireTimer(tm) ==
  /\ Idle
  /\ timer[tm] = "running"
  /\ timer' = [timer EXCEPT ![tm] = "fired"]
  /\ born' = Minted(Raw(tm, Nil))
  /\ recvq' = [recvq EXCEPT ![tm] = Rest(@)]
  /\ LET tick == TokenOf(Raw(tm, Nil))
         r == Popped(recvq[tm])
     IN  \/ /\ Live(recvq[tm]) # {}
            /\ fired' = fired \cup {Shared(r)}
            /\ loc' = Moved(DropHeld(loc, r.g), tick, At(r.g))
            /\ Wakes(<<Entry(r.g, Result(r.i, TRUE, tick))>>)
            /\ UNCHANGED pending
         \/ /\ Live(recvq[tm]) = {}
            /\ loc' = Moved(loc, tick, At(tm))
            /\ pending' = [pending EXCEPT ![tm] = tick]
            /\ Wakes(<<>>)
            /\ UNCHANGED fired
  /\ UNCHANGED <<cur, input, halted, errors, tickets, done, chanVars>>

-----------------------------------------------------------------------------
CommInit ==
  /\ SchedInit
  /\ buf = [c \in Channels |-> <<>>]
  /\ closed = [c \in Channels |-> FALSE]
  /\ sendq = [c \in Channels |-> <<>>]
  /\ recvq = [x \in Sources |-> <<>>]
  /\ tickets = [g \in Goroutines |-> 0]
  /\ fired = {}
  /\ timer = [tm \in Timers |-> "idle"]
  /\ pending = [tm \in Timers |-> NoTok]
  /\ done = [cx \in Contexts |-> FALSE]

\* What goroutine g may send: a new value, or a token it may have received.
Sendable(g) == {Raw(g, v) : v \in Values} \cup {x \in DOMAIN loc : x.by \notin Mutexes}

\* The selects a program may write, of at most MaxCases cases.
Cases(g) == {SendCase(c, s) : c \in Channels, s \in Sendable(g)} \cup {RecvCase(x) : x \in Sources}
Selects(g) == UNION {[1..n -> Cases(g)] : n \in 1..MaxCases}

\* Every operation but those on timers, which GoClock gives a time.
Operation(g) ==
  \/ \E c \in Channels, s \in Sendable(g) : Send(g, c, s)
  \/ \E c \in Channels, s \in Sendable(g) : Notify(g, c, s)
  \/ \E x \in Sources : Recv(g, x)
  \/ \E cases \in Selects(g), default \in BOOLEAN : Select(g, cases, default)
  \/ \E c \in Channels : Close(g, c)
  \/ \E c \in Channels : Remake(g, c)
  \/ \E cx \in Contexts : Cancel(g, cx)
  \/ \E members \in SUBSET Goroutines \ {{}} :
       Go(g, members) /\ UNCHANGED <<chanVars, waitVars, sourceVars>>
  \/ (Finish(g) \/ Panic(g)) /\ UNCHANGED <<chanVars, waitVars, sourceVars>>

CommNext ==
  \/ Resume /\ UNCHANGED <<chanVars, waitVars, sourceVars>>
  \/ \E g \in Goroutines : Operation(g)
  \/ \E g \in Goroutines, op \in {"start", "reset", "stop"}, tm \in Timers : TimerOp(g, op, tm)
  \/ \E cx \in Contexts : FireContext(cx)
  \/ \E tm \in Timers : FireTimer(tm)

CommSpec == CommInit /\ [][CommNext]_commVars

-----------------------------------------------------------------------------
(* Properties.                                                             *)

CommTypeOK ==
  /\ SchedTypeOK
  /\ buf \in [Channels -> Seq(Token)]
  /\ closed \in [Channels -> BOOLEAN]
  /\ sendq \in [Channels -> Seq(Sender)]
  /\ recvq \in [Sources -> Seq(Receiver)]
  /\ tickets \in [Goroutines -> Nat]
  /\ fired \subseteq Goroutines \X (Nat \ {0})
  /\ timer \in [Timers -> {"idle", "running", "fired", "stopped"}]
  /\ pending \in [Timers -> Token \cup {NoTok}]
  /\ done \in [Contexts -> BOOLEAN]

\* A record of a park fires exactly when its goroutine leaves that park: one
\* case of a select runs at most once, and a waiter left behind in another
\* queue is never served (Shared.fired, pop).
FiresOnce ==
  halted = "no" =>
    \A g \in Goroutines : \A n \in 1..tickets[g] :
      <<g, n>> \notin fired <=> n = tickets[g] /\ status[g] = "blocked"

\* No lost wakeup: a goroutine is blocked exactly while some queue holds a
\* live waiter of it, so that an operation of another can wake it.
Queued(q, g) == \E k \in Live(q) : q[k].g = g
NoLostWakeup ==
  halted = "no" =>
    \A g \in Goroutines :
      status[g] = "blocked" <=>
        \/ \E c \in Channels : Queued(sendq[c], g)
        \/ \E x \in Sources : Queued(recvq[x], g)

\* No missed rendezvous: a sender waits only on an open and full channel, a
\* receiver only on an open and empty one, and only a select waits on both
\* ends of one channel.
NoMissedRendezvous ==
  \A c \in Channels :
    /\ Live(sendq[c]) # {} => ~ closed[c] /\ Len(buf[c]) = Capacity[c]
    /\ Live(recvq[c]) # {} => ~ closed[c] /\ buf[c] = <<>>
    /\ \A i \in Live(sendq[c]), j \in Live(recvq[c]) :
         Shared(sendq[c][i]) = Shared(recvq[c][j])

\* Nobody waits for a tick that is there or for a context that is done.
NoMissedSignal ==
  /\ \A tm \in Timers : pending[tm] # NoTok =>
       timer[tm] = "fired" /\ Live(recvq[tm]) = {}
  /\ \A cx \in Contexts : done[cx] => Live(recvq[cx]) = {}

\* The world the view draws is the one the program runs in: a token is drawn
\* in the slot of the buffer it is in, in the timer it ticks for, or at the
\* sender that waits with it, and no buffer shows a token it does not have
\* (Sim.locs against the runtime structures, Sim.snapshot).
TokensInPlace ==
  /\ \A c \in Channels : \A k \in DOMAIN buf[c] :
       buf[c][k] \in DOMAIN loc /\ loc[buf[c][k]] = Slot(c, k)
  /\ \A x \in DOMAIN loc : loc[x].node \in Channels =>
       loc[x].slot \in DOMAIN buf[loc[x].node] /\ buf[loc[x].node][loc[x].slot] = x
  /\ \A x \in DOMAIN loc : loc[x].node \in Timers => pending[loc[x].node] = x
  /\ \A tm \in Timers : pending[tm] # NoTok =>
       pending[tm] \in DOMAIN loc /\ loc[pending[tm]] = At(tm)
  /\ \A c \in Channels : \A k \in Live(sendq[c]) :
       sendq[c][k].i = 0 => sendq[c][k].s \in HeldBy(loc, sendq[c][k].g)

\* A parked operation is in all the queues it waits in until one of its cases
\* runs, and then in none: the abstract specification WaitSets.
WaitsOf(g) == {<<"send", c>> : c \in {d \in Channels : Queued(sendq[d], g)}}
         \cup {<<"recv", x>> : x \in {y \in Sources : Queued(recvq[y], g)}}
Wait == INSTANCE WaitSets WITH
          Places <- {<<"send", c>> : c \in Channels} \cup {<<"recv", x>> : x \in Sources},
          waits <- [g \in Goroutines |-> WaitsOf(g)]
WaitsSpec == Wait!Spec
=============================================================================
