--------------------------- MODULE GoClockProofs ---------------------------
(***************************************************************************)
(* Proofs about the channels and the time of the simulator, for any        *)
(* goroutines, channels, timers and contexts, selects of any size and any  *)
(* durations.                                                              *)
(*                                                                         *)
(* The first two parts are about GoComm.  What an operation does to the    *)
(* waiters is one of two things.  It keeps every queue except for waiters  *)
(* that have fired or fire now (Kept), or it parks the running goroutine   *)
(* with a new ticket (Shrinks and Grows).  Two lemmas, one for each, carry *)
(* the invariants; the lemma of each operation shows which of the two it   *)
(* is, and that any step is one of them is what the proofs about the       *)
(* queues' contents start from.  The second part is about where waiters    *)
(* and tokens are: that parking implements the sets of WaitSets, that      *)
(* nobody waits at a channel, a timer or a context that could serve him,   *)
(* and that the world the view draws is the one the program runs in.       *)
(*                                                                         *)
(* The third part is about GoClock: that nothing is overdue while          *)
(* goroutines run, that everything that takes time takes exactly that      *)
(* time, and that the verdict is the one of the run.  Every operation of   *)
(* GoComm keeps the calendar because it only touches goroutines that run   *)
(* or are queued.                                                          *)
(***************************************************************************)
EXTENDS GoClock, GoSchedProofs, WellFoundedInduction

\* The record of a waiter is in a queue once, and is not of a later park
\* than the goroutine's last.
Once(q) == \A k, l \in DOMAIN q : Shared(q[k]) = Shared(q[l]) => k = l
Known(q) == \A k \in DOMAIN q : q[k].n <= tickets[q[k].g]

OldTickets ==
  /\ \A c \in Channels : Once(sendq[c]) /\ Known(sendq[c])
  /\ \A x \in Sources : Once(recvq[x]) /\ Known(recvq[x])
  /\ \A id \in fired : id[2] <= tickets[id[1]]

\* Whoever is blocked waits somewhere.
Awaited(g) ==
  \/ \E c \in Channels : Queued(sendq[c], g)
  \/ \E x \in Sources : Queued(recvq[x], g)
BlockedWait == halted = "no" => \A g \in Goroutines : status[g] = "blocked" => Awaited(g)

QueueTypes ==
  /\ sendq \in [Channels -> Seq(Sender)]
  /\ recvq \in [Sources -> Seq(Receiver)]
  /\ tickets \in [Goroutines -> Nat]
  /\ fired \subseteq Goroutines \X (Nat \ {0})

\* All that is said about waiters.
Waiting == QueueTypes /\ OldTickets /\ FiresOnce /\ BlockedWait

\* r has every waiter of q but those that have fired or fire now, and no
\* other.
Kept(q, r) ==
  /\ \A k \in DOMAIN r : \E j \in DOMAIN q : r[k] = q[j]
  /\ Once(q) => Once(r)
  /\ \A k \in DOMAIN q : Shared(q[k]) \in fired' \/ \E j \in DOMAIN r : r[j] = q[k]
KeptAll ==
  /\ \A c \in Channels : Kept(sendq[c], sendq'[c])
  /\ \A x \in Sources : Kept(recvq[x], recvq'[x])


\* Nobody parks.
Shrinks == KeptAll /\ tickets' = tickets /\ fired \subseteq fired'

\* The queue r in which goroutine g may park: the kept waiters of q, or a new
\* one behind them.
Joins(S, q, r, g) ==
  \E base \in Seq(S) :
    /\ Kept(q, base)
    /\ r = base \/ \E w \in S : w.g = g /\ w.n = tickets[g] + 1 /\ r = Append(base, w)
HasNew(r, g) == \E k \in DOMAIN r : r[k].g = g /\ r[k].n = tickets[g] + 1

\* The running goroutine g parks, in one queue or in several.
Grows(g) ==
  /\ status[g] = "running"
  /\ UNCHANGED fired
  /\ tickets' = [tickets EXCEPT ![g] = @ + 1]
  /\ \A c \in Channels : Joins(Sender, sendq[c], sendq'[c], g)
  /\ \A x \in Sources : Joins(Receiver, recvq[x], recvq'[x], g)
  /\ \/ \E c \in Channels : HasNew(sendq'[c], g)
     \/ \E x \in Sources : HasNew(recvq'[x], g)

-----------------------------------------------------------------------------
(* Queues.                                                                 *)

\* Sets of numbers have a least element.
LEMMA LeastNumber ==
  ASSUME NEW T \in SUBSET Nat, T # {}
  PROVE  \E x \in T : \A y \in T : x <= y
<1> DEFINE R == OpToRel(<, Nat)
<1>1. PICK x \in T : \A y \in T : ~ (<<y, x>> \in R)
  BY NatLessThanWellFounded, WFMin
<1>2. \A y \in T : ~ (y < x)
  BY <1>1 DEF OpToRel
<1> QED BY <1>2

\* The elements behind the f-th.
LEMMA Suffix ==
  ASSUME NEW S, NEW q \in Seq(S), NEW f \in 1..Len(q),
         NEW r, r = SubSeq(q, f + 1, Len(q))
  PROVE  /\ r \in Seq(S)
         /\ Len(r) = Len(q) - f
         /\ \A i \in 1..(Len(q) - f) : r[i] = q[f + i]
<1> DEFINE n == Len(q)
           m == f + 1
           t == SubSeq(q, m, n)
<1>1. n \in Nat /\ f \in 1..n /\ \A k \in 1..n : q[k] \in S
  BY SeqDomain
<1>2. m \in Int /\ n \in Int /\ \A i \in m..n : q[i] \in S
  BY <1>1
<1>3. /\ t \in Seq(S)
      /\ Len(t) = IF m <= n THEN n - m + 1 ELSE 0
      /\ \A i \in 1..(n - m + 1) : t[i] = q[m + i - 1]
  <2> HIDE DEF n, m
  <2> QED BY <1>2, SubSeqProperties
<1>4. t = r
  OBVIOUS
<1> HIDE DEF n, t
<1>5. Len(t) = n - f
  BY <1>1, <1>3
<1>6. ASSUME NEW i \in 1..(n - f) PROVE t[i] = q[f + i]
  <2>1. i \in 1..(n - m + 1) /\ m + i - 1 = f + i
    BY <1>1
  <2> QED BY <1>3, <2>1
<1> QED BY <1>3, <1>4, <1>5, <1>6 DEF n

\* What pop returns and leaves.
LEMMA RestFacts ==
  ASSUME NEW S, NEW q \in Seq(S)
  PROVE  /\ Rest(q) \in Seq(S)
         /\ \A k \in DOMAIN Rest(q) : \E j \in DOMAIN q : Rest(q)[k] = q[j]
         /\ Once(q) => Once(Rest(q))
         /\ Live(q) = {} => Rest(q) = <<>>
         /\ Live(q) # {} => /\ FirstLive(q) \in Live(q)
                            /\ Popped(q) \in S
                            /\ Shared(Popped(q)) \notin fired
                            /\ \A k \in DOMAIN q : \/ Shared(q[k]) \in fired
                                                   \/ q[k] = Popped(q)
                                                   \/ \E j \in DOMAIN Rest(q) : Rest(q)[j] = q[k]
<1>1. Len(q) \in Nat /\ DOMAIN q = 1..Len(q) /\ \A k \in DOMAIN q : q[k] \in S
  BY SeqDomain
<1>2. CASE Live(q) = {}
  <2>1. Rest(q) = <<>>
    BY <1>2 DEF Rest
  <2>2. <<>> \in Seq(S) /\ DOMAIN <<>> = {}
    BY EmptySeq
  <2> QED BY <1>2, <2>1, <2>2 DEF Once
<1>3. CASE Live(q) # {}
  <2> DEFINE f == FirstLive(q)
             r == Rest(q)
  <2>1. Live(q) \subseteq DOMAIN q
    BY DEF Live
  <2>2. \E k \in Live(q) : \A j \in Live(q) : k <= j
    BY <1>1, <1>3, <2>1, LeastNumber
  <2>3. f \in Live(q) /\ \A j \in Live(q) : f <= j
    BY <2>2 DEF FirstLive
  <2>4. f \in 1..Len(q) /\ Shared(q[f]) \notin fired
    BY <1>1, <2>3 DEF Live
  <2>5. r = SubSeq(q, f + 1, Len(q)) /\ f \in 1..Len(q)
    BY <1>3, <2>4 DEF Rest
  <2> HIDE DEF f, r
  <2>6. /\ r \in Seq(S)
        /\ Len(r) = Len(q) - f
        /\ \A i \in 1..(Len(q) - f) : r[i] = q[f + i]
    BY <2>5, Suffix
  <2>7. DOMAIN r = 1..(Len(q) - f)
    BY <2>6, LenProperties
  <2>8. \A k \in DOMAIN r : f + k \in DOMAIN q /\ r[k] = q[f + k]
    BY <1>1, <2>4, <2>6, <2>7
  <2>9. ASSUME Once(q) PROVE Once(r)
    <3> SUFFICES ASSUME NEW k \in DOMAIN r, NEW l \in DOMAIN r, Shared(r[k]) = Shared(r[l])
                 PROVE  k = l
      BY DEF Once
    <3>1. Shared(q[f + k]) = Shared(q[f + l]) /\ f + k \in DOMAIN q /\ f + l \in DOMAIN q
      BY <2>8
    <3>2. f + k = f + l
      BY <2>9, <3>1 DEF Once
    <3> QED BY <1>1, <2>4, <2>7, <3>2
  <2>10. ASSUME NEW k \in DOMAIN q
         PROVE  \/ Shared(q[k]) \in fired
                \/ q[k] = q[f]
                \/ \E j \in DOMAIN r : r[j] = q[k]
    <3>1. CASE k < f
      <4>1. k \notin Live(q)
        BY <1>1, <2>1, <2>3, <2>4, <3>1
      <4> QED BY <4>1 DEF Live
    <3>2. CASE k = f
      BY <3>2
    <3>3. CASE k > f
      <4>1. k - f \in 1..(Len(q) - f) /\ f + (k - f) = k
        BY <1>1, <2>4, <3>3
      <4>2. k - f \in DOMAIN r /\ r[k - f] = q[k]
        BY <2>6, <2>7, <4>1
      <4> QED BY <4>2
    <3> QED BY <1>1, <2>4, <3>1, <3>2, <3>3
  <2>11. Popped(q) = q[f]
    BY DEF Popped, f
  <2> QED BY <1>1, <1>3, <2>3, <2>4, <2>6, <2>8, <2>9, <2>10, <2>11 DEF f, r
<1> QED BY <1>2, <1>3

LEMMA KeptSame ==
  ASSUME NEW q
  PROVE  Kept(q, q)
  BY DEF Kept

\* All the waiters of a queue fire.
LEMMA KeptNone ==
  ASSUME NEW q, \A k \in DOMAIN q : Shared(q[k]) \in fired'
  PROVE  Kept(q, <<>>)
<1>1. DOMAIN <<>> = {}
  OBVIOUS
<1> QED BY <1>1 DEF Kept, Once

\* pop keeps a queue if the waiter it serves fires.
LEMMA KeptRest ==
  ASSUME NEW S, NEW q \in Seq(S), fired \subseteq fired',
         Live(q) # {} => Shared(Popped(q)) \in fired'
  PROVE  Kept(q, Rest(q))
<1>1. CASE Live(q) = {}
  <2>1. \A k \in DOMAIN q : Shared(q[k]) \in fired'
    BY <1>1 DEF Live
  <2>2. Rest(q) = <<>>
    BY <1>1, RestFacts
  <2> QED BY <2>1, <2>2, KeptNone
<1>2. CASE Live(q) # {}
  BY <1>2, RestFacts DEF Kept
<1> QED BY <1>1, <1>2

-----------------------------------------------------------------------------
(* The two kinds of steps.                                                 *)

\* A live waiter is of the last park of its goroutine, which is blocked.
LEMMA LiveIsBlocked ==
  ASSUME Waiting, halted = "no", NEW g \in Goroutines, NEW n \in Nat \ {0},
         <<g, n>> \notin fired, n <= tickets[g]
  PROVE  n = tickets[g] /\ status[g] = "blocked"
<1>1. n \in 1..tickets[g]
  BY DEF Waiting, QueueTypes
<1> QED BY <1>1 DEF Waiting, FiresOnce

LEMMA SendersAreKnown ==
  ASSUME Waiting, NEW c \in Channels, NEW k \in DOMAIN sendq[c]
  PROVE  /\ sendq[c][k] \in Sender
         /\ Shared(sendq[c][k]) = <<sendq[c][k].g, sendq[c][k].n>>
         /\ sendq[c][k].g \in Goroutines /\ sendq[c][k].n \in Nat \ {0}
         /\ sendq[c][k].n <= tickets[sendq[c][k].g]
<1>1. sendq[c] \in Seq(Sender)
  BY DEF Waiting, QueueTypes
<1>2. sendq[c][k] \in Sender
  BY <1>1, SeqDomain
<1> QED BY <1>2 DEF Waiting, OldTickets, Known, Shared, Sender

LEMMA ReceiversAreKnown ==
  ASSUME Waiting, NEW x \in Sources, NEW k \in DOMAIN recvq[x]
  PROVE  /\ recvq[x][k] \in Receiver
         /\ Shared(recvq[x][k]) = <<recvq[x][k].g, recvq[x][k].n>>
         /\ recvq[x][k].g \in Goroutines /\ recvq[x][k].n \in Nat \ {0}
         /\ recvq[x][k].n <= tickets[recvq[x][k].g]
<1>1. recvq[x] \in Seq(Receiver)
  BY DEF Waiting, QueueTypes
<1>2. recvq[x][k] \in Receiver
  BY <1>1, SeqDomain
<1> QED BY <1>2 DEF Waiting, OldTickets, Known, Shared, Receiver

\* A step that fires the last records of blocked goroutines and unblocks just
\* those, and otherwise keeps the queues.
LEMMA FireStep ==
  ASSUME Waiting, halted = "no", KeptAll, QueueTypes', tickets' = tickets, fired \subseteq fired',
         \A id \in fired' \ fired : id[2] <= tickets[id[1]],
         halted' = "no" =>
           \A h \in Goroutines :
             status'[h] = "blocked" <=> status[h] = "blocked" /\ <<h, tickets[h]>> \notin fired'
  PROVE  Waiting'
<1>1. OldTickets'
  <2>1. ASSUME NEW c \in Channels PROVE Once(sendq'[c]) /\ Known(sendq[c])'
    BY <2>1 DEF KeptAll, Kept, Waiting, OldTickets, Known
  <2>2. ASSUME NEW x \in Sources PROVE Once(recvq'[x]) /\ Known(recvq[x])'
    BY <2>2 DEF KeptAll, Kept, Waiting, OldTickets, Known
  <2>3. \A id \in fired' : id[2] <= tickets'[id[1]]
    BY DEF Waiting, OldTickets
  <2> QED BY <2>1, <2>2, <2>3 DEF OldTickets, Once
<1>2. FiresOnce'
  <2> SUFFICES ASSUME halted' = "no", NEW g \in Goroutines, NEW n \in 1..tickets'[g]
               PROVE  <<g, n>> \notin fired' <=> n = tickets'[g] /\ status'[g] = "blocked"
    BY Zenon DEF FiresOnce
  <2>1. <<g, n>> \notin fired <=> n = tickets[g] /\ status[g] = "blocked"
    BY DEF Waiting, FiresOnce
  <2>2. status'[g] = "blocked" <=> status[g] = "blocked" /\ <<g, tickets[g]>> \notin fired'
    OBVIOUS
  <2> QED BY <2>1, <2>2
<1>3. BlockedWait'
  <2> SUFFICES ASSUME halted' = "no", NEW g \in Goroutines, status'[g] = "blocked"
               PROVE  Awaited(g)'
    BY DEF BlockedWait
  <2>1. status[g] = "blocked" /\ <<g, tickets[g]>> \notin fired'
    OBVIOUS
  <2>2. Awaited(g)
    BY <2>1 DEF Waiting, BlockedWait
  <2>3. ASSUME NEW c \in Channels, Queued(sendq[c], g)
        PROVE  Queued(sendq[c], g)'
    <3>1. PICK k \in DOMAIN sendq[c] : Shared(sendq[c][k]) \notin fired /\ sendq[c][k].g = g
      BY <2>3 DEF Queued, Live
    <3>2. sendq[c][k].n = tickets[g] /\ Shared(sendq[c][k]) = <<g, tickets[g]>>
      BY <3>1, SendersAreKnown, LiveIsBlocked
    <3>3. PICK j \in DOMAIN sendq'[c] : sendq'[c][j] = sendq[c][k]
      BY <2>1, <3>2 DEF KeptAll, Kept
    <3> QED BY <2>1, <3>1, <3>2, <3>3 DEF Queued, Live
  <2>4. ASSUME NEW x \in Sources, Queued(recvq[x], g)
        PROVE  Queued(recvq[x], g)'
    <3>1. PICK k \in DOMAIN recvq[x] : Shared(recvq[x][k]) \notin fired /\ recvq[x][k].g = g
      BY <2>4 DEF Queued, Live
    <3>2. recvq[x][k].n = tickets[g] /\ Shared(recvq[x][k]) = <<g, tickets[g]>>
      BY <3>1, ReceiversAreKnown, LiveIsBlocked
    <3>3. PICK j \in DOMAIN recvq'[x] : recvq'[x][j] = recvq[x][k]
      BY <2>1, <3>2 DEF KeptAll, Kept
    <3> QED BY <2>1, <3>1, <3>2, <3>3 DEF Queued, Live
  <2> QED BY <2>2, <2>3, <2>4 DEF Awaited
<1> QED BY <1>1, <1>2, <1>3 DEF Waiting

\* The record a blocked goroutine waits with has not fired.
LEMMA BlockedIsUnfired ==
  ASSUME Waiting, halted = "no", NEW h \in Goroutines, status[h] = "blocked"
  PROVE  <<h, tickets[h]>> \notin fired
<1>1. Awaited(h)
  BY DEF Waiting, BlockedWait
<1>2. ASSUME NEW c \in Channels, Queued(sendq[c], h)
      PROVE  <<h, tickets[h]>> \notin fired
  <2>1. PICK k \in DOMAIN sendq[c] : Shared(sendq[c][k]) \notin fired /\ sendq[c][k].g = h
    BY <1>2 DEF Queued, Live
  <2> QED BY <2>1, SendersAreKnown, LiveIsBlocked
<1>3. ASSUME NEW x \in Sources, Queued(recvq[x], h)
      PROVE  <<h, tickets[h]>> \notin fired
  <2>1. PICK k \in DOMAIN recvq[x] : Shared(recvq[x][k]) \notin fired /\ recvq[x][k].g = h
    BY <1>3 DEF Queued, Live
  <2> QED BY <2>1, ReceiversAreKnown, LiveIsBlocked
<1> QED BY <1>1, <1>2, <1>3 DEF Awaited

\* A step that fires nothing and keeps the queues.
LEMMA CalmStep ==
  ASSUME Waiting, halted = "no", KeptAll, QueueTypes', UNCHANGED <<tickets, fired>>,
         halted' = "no" =>
           \A h \in Goroutines : status'[h] = "blocked" <=> status[h] = "blocked"
  PROVE  Waiting'
<1>1. \A h \in Goroutines : status[h] = "blocked" => <<h, tickets[h]>> \notin fired
  BY BlockedIsUnfired
<1>2. \A id \in fired' \ fired : id[2] <= tickets[id[1]]
  OBVIOUS
<1>3. fired \subseteq fired'
  OBVIOUS
<1>4. halted' = "no" =>
        \A h \in Goroutines :
          status'[h] = "blocked" <=> status[h] = "blocked" /\ <<h, tickets[h]>> \notin fired'
  BY <1>1
<1> QED BY <1>2, <1>3, <1>4, FireStep

\* The waiters of q that have not fired are in r.
Covers(q, r) == \A k \in DOMAIN q : Shared(q[k]) \in fired \/ \E j \in DOMAIN r : r[j] = q[k]

LEMMA JoinFacts ==
  ASSUME tickets \in [Goroutines -> Nat], NEW g \in Goroutines,
         tickets'[g] = tickets[g] + 1, \A h \in Goroutines \ {g} : tickets'[h] = tickets[h],
         UNCHANGED fired,
         NEW S, \A w \in S : w.g \in Goroutines /\ w.n \in Nat,
         NEW q \in Seq(S), Once(q), Known(q), NEW r, Joins(S, q, r, g)
  PROVE  /\ Once(r)
         /\ \A k \in DOMAIN r : r[k].n <= tickets'[r[k].g]
         /\ Covers(q, r)
<1>1. PICK base \in Seq(S) :
        /\ Kept(q, base)
        /\ r = base \/ \E w \in S : w.g = g /\ w.n = tickets[g] + 1 /\ r = Append(base, w)
  BY DEF Joins
<1>2. /\ Once(base)
      /\ \A k \in DOMAIN base : /\ base[k] \in S
                                /\ base[k].g \in Goroutines /\ base[k].n \in Nat
                                /\ base[k].n <= tickets[base[k].g]
      /\ Covers(q, base)
  <2>1. \A k \in DOMAIN base : base[k] \in S
    BY SeqDomain
  <2> QED BY <1>1, <2>1 DEF Kept, Known, Covers
<1>3. \A h \in Goroutines : tickets[h] \in Nat /\ tickets'[h] \in Nat /\ tickets[h] <= tickets'[h]
  OBVIOUS
<1>4. CASE r = base
  BY <1>2, <1>3, <1>4
<1>5. ASSUME NEW w \in S, w.g = g, w.n = tickets[g] + 1, r = Append(base, w)
      PROVE  /\ Once(r)
             /\ \A k \in DOMAIN r : r[k].n <= tickets'[r[k].g]
             /\ Covers(q, r)
  <2>1. /\ Len(r) = Len(base) + 1
        /\ \A k \in 1..Len(base) : r[k] = base[k]
        /\ r[Len(base) + 1] = w
        /\ r \in Seq(S)
    BY <1>5, AppendProperties
  <2>2. Len(base) \in Nat /\ DOMAIN base = 1..Len(base) /\ DOMAIN r = 1..(Len(base) + 1)
    BY <2>1, LenProperties
  <2>3. ASSUME NEW k \in DOMAIN r
        PROVE  \/ k \in DOMAIN base /\ r[k] = base[k]
               \/ k = Len(base) + 1 /\ r[k] = w
    <3>1. k \in 1..Len(base) \/ k = Len(base) + 1
      BY <2>2
    <3> QED BY <2>1, <2>2, <3>1
  <2>4. \A k \in DOMAIN base : k \in DOMAIN r /\ r[k] = base[k]
    BY <2>1, <2>2
  <2>5. \A k \in DOMAIN base : Shared(base[k]) # Shared(w)
    BY <1>2, <1>5 DEF Shared
  <2>6. Once(r)
    BY <1>2, <2>3, <2>5 DEF Once
  <2>7. ASSUME NEW k \in DOMAIN r PROVE r[k].n <= tickets'[r[k].g]
    <3>1. CASE r[k] = w
      BY <1>5, <3>1
    <3>2. CASE k \in DOMAIN base /\ r[k] = base[k]
      BY <1>2, <1>3, <3>2
    <3> QED BY <2>3, <3>1, <3>2
  <2>8. Covers(q, r)
    BY <1>2, <2>4 DEF Covers
  <2> QED BY <2>6, <2>7, <2>8
<1> QED BY <1>1, <1>4, <1>5

\* The new waiter is in the queue.
LEMMA JoinedNew ==
  ASSUME NEW S, NEW base \in Seq(S), NEW w \in S, NEW g, w.g = g, w.n = tickets[g] + 1
  PROVE  HasNew(Append(base, w), g)
<1> DEFINE r == Append(base, w)
<1>1. Len(base) \in Nat /\ Len(r) = Len(base) + 1 /\ r[Len(base) + 1] = w /\ r \in Seq(S)
  BY AppendProperties, LenProperties
<1> HIDE DEF r
<1>2. Len(base) + 1 \in DOMAIN r
  BY <1>1, LenProperties
<1> QED BY <1>1, <1>2 DEF HasNew, r

\* The running goroutine parks with a new ticket.
LEMMA ParkStep ==
  ASSUME Waiting, NEW g \in Goroutines, halted = "no", status[g] = "running",
         status \in [Goroutines -> Statuses],
         halted' = "no",
         status'[g] = "blocked", \A h \in Goroutines \ {g} : status'[h] = status[h],
         tickets'[g] = tickets[g] + 1, \A h \in Goroutines \ {g} : tickets'[h] = tickets[h],
         UNCHANGED fired, QueueTypes',
         \A c \in Channels : Joins(Sender, sendq[c], sendq'[c], g),
         \A x \in Sources : Joins(Receiver, recvq[x], recvq'[x], g),
         \/ \E c \in Channels : HasNew(sendq'[c], g)
         \/ \E x \in Sources : HasNew(recvq'[x], g)
  PROVE  Waiting'
<1>1. /\ tickets \in [Goroutines -> Nat]
      /\ \A h \in Goroutines : tickets[h] \in Nat /\ tickets'[h] \in Nat /\ tickets[h] <= tickets'[h]
      /\ \A w \in Sender : w.g \in Goroutines /\ w.n \in Nat
      /\ \A w \in Receiver : w.g \in Goroutines /\ w.n \in Nat
  <2>1. tickets \in [Goroutines -> Nat]
    BY DEF Waiting, QueueTypes
  <2>2. ASSUME NEW h \in Goroutines PROVE tickets[h] \in Nat /\ tickets'[h] \in Nat /\ tickets[h] <= tickets'[h]
    BY <2>1
  <2> QED BY <2>1, <2>2 DEF Sender, Receiver
<1>2. ASSUME NEW c \in Channels
      PROVE  Once(sendq'[c]) /\ Known(sendq[c])' /\ Covers(sendq[c], sendq'[c])
  <2>1. sendq[c] \in Seq(Sender) /\ Once(sendq[c]) /\ Known(sendq[c]) /\ Joins(Sender, sendq[c], sendq'[c], g)
    BY DEF Waiting, QueueTypes, OldTickets
  <2>2. /\ Once(sendq'[c]) /\ Covers(sendq[c], sendq'[c])
        /\ \A k \in DOMAIN sendq'[c] : sendq'[c][k].n <= tickets'[sendq'[c][k].g]
    BY <1>1, <2>1, JoinFacts
  <2> QED BY <2>2 DEF Known
<1>3. ASSUME NEW x \in Sources
      PROVE  Once(recvq'[x]) /\ Known(recvq[x])' /\ Covers(recvq[x], recvq'[x])
  <2>1. recvq[x] \in Seq(Receiver) /\ Once(recvq[x]) /\ Known(recvq[x]) /\ Joins(Receiver, recvq[x], recvq'[x], g)
    BY DEF Waiting, QueueTypes, OldTickets
  <2>2. /\ Once(recvq'[x]) /\ Covers(recvq[x], recvq'[x])
        /\ \A k \in DOMAIN recvq'[x] : recvq'[x][k].n <= tickets'[recvq'[x][k].g]
    BY <1>1, <2>1, JoinFacts
  <2> QED BY <2>2 DEF Known
<1>4. \A id \in fired : id[1] \in Goroutines /\ id[2] \in Nat /\ id[2] <= tickets[id[1]]
  BY DEF Waiting, QueueTypes, OldTickets
<1>5. OldTickets'
  BY <1>1, <1>2, <1>3, <1>4 DEF OldTickets, Once
<1>6. <<g, tickets[g] + 1>> \notin fired
  BY <1>1, <1>4
<1>7. FiresOnce'
  <2> SUFFICES ASSUME NEW h \in Goroutines, NEW n \in 1..tickets'[h]
               PROVE  <<h, n>> \notin fired' <=> n = tickets'[h] /\ status'[h] = "blocked"
    BY Zenon DEF FiresOnce
  <2>1. CASE h # g
    BY <1>1, <2>1 DEF Waiting, FiresOnce
  <2>2. CASE h = g /\ n = tickets[g] + 1
    BY <1>1, <1>6, <2>2
  <2>3. CASE h = g /\ n # tickets[g] + 1
    <3>1. n \in 1..tickets[g]
      BY <1>1, <2>3
    <3>2. <<g, n>> \in fired
      BY <3>1 DEF Waiting, FiresOnce
    <3> QED BY <1>1, <2>3, <3>2
  <2> QED BY <2>1, <2>2, <2>3
<1>8. BlockedWait'
  <2> SUFFICES ASSUME NEW h \in Goroutines, status'[h] = "blocked"
               PROVE  Awaited(h)'
    BY DEF BlockedWait
  <2>1. CASE h = g
    <3>1. ASSUME NEW c \in Channels, HasNew(sendq'[c], g)
          PROVE  Awaited(g)'
      <4>1. PICK k \in DOMAIN sendq'[c] : sendq'[c][k].g = g /\ sendq'[c][k].n = tickets[g] + 1
        BY <3>1 DEF HasNew
      <4> QED BY <1>6, <4>1 DEF Awaited, Queued, Live, Shared
    <3>2. ASSUME NEW x \in Sources, HasNew(recvq'[x], g)
          PROVE  Awaited(g)'
      <4>1. PICK k \in DOMAIN recvq'[x] : recvq'[x][k].g = g /\ recvq'[x][k].n = tickets[g] + 1
        BY <3>2 DEF HasNew
      <4> QED BY <1>6, <4>1 DEF Awaited, Queued, Live, Shared
    <3> QED BY <2>1, <3>1, <3>2
  <2>2. CASE h # g
    <3>1. Awaited(h)
      BY <2>2 DEF Waiting, BlockedWait
    <3>2. ASSUME NEW c \in Channels, Queued(sendq[c], h)
          PROVE  Awaited(h)'
      <4>1. PICK k \in DOMAIN sendq[c] : Shared(sendq[c][k]) \notin fired /\ sendq[c][k].g = h
        BY <3>2 DEF Queued, Live
      <4>2. PICK j \in DOMAIN sendq'[c] : sendq'[c][j] = sendq[c][k]
        BY <1>2, <4>1 DEF Covers
      <4> QED BY <4>1, <4>2 DEF Awaited, Queued, Live
    <3>3. ASSUME NEW x \in Sources, Queued(recvq[x], h)
          PROVE  Awaited(h)'
      <4>1. PICK k \in DOMAIN recvq[x] : Shared(recvq[x][k]) \notin fired /\ recvq[x][k].g = h
        BY <3>3 DEF Queued, Live
      <4>2. PICK j \in DOMAIN recvq'[x] : recvq'[x][j] = recvq[x][k]
        BY <1>3, <4>1 DEF Covers
      <4> QED BY <4>1, <4>2 DEF Awaited, Queued, Live
    <3> QED BY <3>1, <3>2, <3>3 DEF Awaited
  <2> QED BY <2>1, <2>2
<1> QED BY <1>5, <1>7, <1>8 DEF Waiting

-----------------------------------------------------------------------------
(* Steps of the scheduler with what they do to the waiters.                *)

\* An operation that returns, wakes nobody and fires nothing.
LEMMA QuietStep ==
  ASSUME Sched, Waiting, NEW g \in Goroutines, Runs(g), NEW val \in Results, Returns(val, <<>>),
         KeptAll, QueueTypes', UNCHANGED <<tickets, fired>>
  PROVE  Sched' /\ Waiting'
<1>1. Sched' /\ status' = status
  BY ReturnsAlone
<1>2. halted = "no"
  BY DEF Runs
<1> QED BY <1>1, <1>2, CalmStep

\* A step that wakes blocked goroutines and fires the records they wait with.
LEMMA WakeStep ==
  ASSUME Sched, Waiting, halted = "no", NEW ws \in Seq(Entries), Distinct(ws), Wakes(ws),
         UNCHANGED <<cur, halted, errors>>, input' \in Results,
         \A h \in Names(ws) : h \in Goroutines /\ status[h] = "blocked",
         fired' = fired \cup {<<h, tickets[h]>> : h \in Names(ws)},
         KeptAll, QueueTypes', UNCHANGED tickets
  PROVE  Sched' /\ Waiting'
<1>1. Sched'
  <2>1. \A h \in Names(ws) : status[h] # "running"
    OBVIOUS
  <2> QED BY <2>1, WakesReady
<1>2. \A h \in Goroutines : status'[h] = IF h \in Names(ws) THEN "running" ELSE status[h]
  BY DEF Wakes, Names
<1>3. tickets \in [Goroutines -> Nat]
  BY DEF Waiting, QueueTypes
<1>4. fired \subseteq fired' /\ \A id \in fired' \ fired : id[2] <= tickets[id[1]]
  BY <1>3
<1>5. ASSUME NEW h \in Goroutines
      PROVE  status'[h] = "blocked" <=> status[h] = "blocked" /\ <<h, tickets[h]>> \notin fired'
  <2>1. CASE h \in Names(ws)
    BY <1>2, <2>1
  <2>2. CASE h \notin Names(ws)
    <3>1. <<h, tickets[h]>> \notin {<<k, tickets[k]>> : k \in Names(ws)}
      BY <2>2
    <3>2. status[h] = "blocked" => <<h, tickets[h]>> \notin fired'
      BY <3>1, BlockedIsUnfired
    <3> QED BY <1>2, <2>2, <3>2
  <2> QED BY <2>1, <2>2
<1>6. halted' = "no" =>
        \A h \in Goroutines :
          status'[h] = "blocked" <=> status[h] = "blocked" /\ <<h, tickets[h]>> \notin fired'
  BY <1>5
<1> QED BY <1>1, <1>4, <1>6, FireStep

\* The run ends.
LEMMA StopStep ==
  ASSUME Waiting, halted = "no", halted' # "no", KeptAll, QueueTypes', UNCHANGED tickets,
         fired \subseteq fired', \A id \in fired' \ fired : id[2] <= tickets[id[1]]
  PROVE  Waiting'
  BY FireStep

\* The queues stay as they are.
LEMMA StillKept ==
  ASSUME Waiting, UNCHANGED <<sendq, recvq, tickets, fired>>
  PROVE  KeptAll /\ QueueTypes'
<1>1. KeptAll
  BY KeptSame DEF KeptAll
<1>2. QueueTypes'
  BY DEF Waiting, QueueTypes
<1> QED BY <1>1, <1>2

\* The first live waiter of a queue is a blocked goroutine.
LEMMA PoppedSender ==
  ASSUME Waiting, halted = "no", NEW c \in Channels, Live(sendq[c]) # {}
  PROVE  LET w == Popped(sendq[c])
         IN  /\ w \in Sender
             /\ w.g \in Goroutines
             /\ Shared(w) = <<w.g, tickets[w.g]>>
             /\ status[w.g] = "blocked"
<1>1. sendq[c] \in Seq(Sender)
  BY DEF Waiting, QueueTypes
<1>2. FirstLive(sendq[c]) \in Live(sendq[c]) /\ Popped(sendq[c]) \in Sender
  BY <1>1, RestFacts
<1>3. PICK k \in DOMAIN sendq[c] : Popped(sendq[c]) = sendq[c][k] /\ Shared(sendq[c][k]) \notin fired
  BY <1>2 DEF Live, Popped
<1> QED BY <1>2, <1>3, SendersAreKnown, LiveIsBlocked

LEMMA PoppedReceiver ==
  ASSUME Waiting, halted = "no", NEW x \in Sources, Live(recvq[x]) # {}
  PROVE  LET w == Popped(recvq[x])
         IN  /\ w \in Receiver
             /\ w.g \in Goroutines
             /\ Shared(w) = <<w.g, tickets[w.g]>>
             /\ status[w.g] = "blocked"
<1>1. recvq[x] \in Seq(Receiver)
  BY DEF Waiting, QueueTypes
<1>2. FirstLive(recvq[x]) \in Live(recvq[x]) /\ Popped(recvq[x]) \in Receiver
  BY <1>1, RestFacts
<1>3. PICK k \in DOMAIN recvq[x] : Popped(recvq[x]) = recvq[x][k] /\ Shared(recvq[x][k]) \notin fired
  BY <1>2 DEF Live, Popped
<1> QED BY <1>2, <1>3, ReceiversAreKnown, LiveIsBlocked

\* A list of one entry.
LEMMA OneEntry ==
  ASSUME NEW h \in Goroutines, NEW val \in Results
  PROVE  /\ <<Entry(h, val)>> \in Seq(Entries)
         /\ Distinct(<<Entry(h, val)>>)
         /\ Names(<<Entry(h, val)>>) = {h}
<1>1. Entry(h, val) \in Entries /\ Entry(h, val).g = h
  BY DEF Entry, Entries
<1> QED BY <1>1 DEF Distinct, Names

-----------------------------------------------------------------------------
(* What the operations do to the queues.                                   *)

LEMMA SendersRest ==
  ASSUME Waiting, NEW c \in Channels, fired \subseteq fired',
         sendq' = [sendq EXCEPT ![c] = Rest(@)],
         Live(sendq[c]) # {} => Shared(Popped(sendq[c])) \in fired'
  PROVE  sendq' \in [Channels -> Seq(Sender)] /\ \A d \in Channels : Kept(sendq[d], sendq'[d])
<1>1. sendq \in [Channels -> Seq(Sender)] /\ sendq[c] \in Seq(Sender)
  BY DEF Waiting, QueueTypes
<1>2. Rest(sendq[c]) \in Seq(Sender)
  BY <1>1, RestFacts
<1>3. Kept(sendq[c], Rest(sendq[c]))
  BY <1>1, KeptRest
<1>4. ASSUME NEW d \in Channels PROVE Kept(sendq[d], sendq'[d])
  <2>1. CASE d = c
    <3>1. sendq'[d] = Rest(sendq[c])
      BY <1>1, <2>1
    <3> QED BY <1>3, <2>1, <3>1
  <2>2. CASE d # c
    <3>1. sendq'[d] = sendq[d]
      BY <1>1, <2>2
    <3> QED BY <3>1, KeptSame
  <2> QED BY <2>1, <2>2
<1> QED BY <1>1, <1>2, <1>4

LEMMA ReceiversRest ==
  ASSUME Waiting, NEW c \in Sources, fired \subseteq fired',
         recvq' = [recvq EXCEPT ![c] = Rest(@)],
         Live(recvq[c]) # {} => Shared(Popped(recvq[c])) \in fired'
  PROVE  recvq' \in [Sources -> Seq(Receiver)] /\ \A x \in Sources : Kept(recvq[x], recvq'[x])
<1>1. recvq \in [Sources -> Seq(Receiver)] /\ recvq[c] \in Seq(Receiver)
  BY DEF Waiting, QueueTypes
<1>2. Rest(recvq[c]) \in Seq(Receiver)
  BY <1>1, RestFacts
<1>3. Kept(recvq[c], Rest(recvq[c]))
  BY <1>1, KeptRest
<1>4. ASSUME NEW d \in Sources PROVE Kept(recvq[d], recvq'[d])
  <2>1. CASE d = c
    <3>1. recvq'[d] = Rest(recvq[c])
      BY <1>1, <2>1
    <3> QED BY <1>3, <2>1, <3>1
  <2>2. CASE d # c
    <3>1. recvq'[d] = recvq[d]
      BY <1>1, <2>2
    <3> QED BY <3>1, KeptSame
  <2> QED BY <2>1, <2>2
<1> QED BY <1>1, <1>2, <1>4

\* The waiters of c are all gone: they have fired, or fire now.
LEMMA SendersGone ==
  ASSUME Waiting, NEW c \in Channels, fired \subseteq fired', sendq' = [sendq EXCEPT ![c] = <<>>],
         \A k \in Live(sendq[c]) : Shared(sendq[c][k]) \in fired'
  PROVE  sendq' \in [Channels -> Seq(Sender)] /\ \A d \in Channels : Kept(sendq[d], sendq'[d])
<1>1. sendq \in [Channels -> Seq(Sender)] /\ <<>> \in Seq(Sender)
  BY EmptySeq DEF Waiting, QueueTypes
<1>2. \A k \in DOMAIN sendq[c] : Shared(sendq[c][k]) \in fired'
  BY DEF Live
<1>3. Kept(sendq[c], <<>>)
  BY <1>2, KeptNone
<1>4. ASSUME NEW d \in Channels PROVE Kept(sendq[d], sendq'[d])
  <2>1. CASE d = c
    <3>1. sendq'[d] = <<>>
      BY <1>1, <2>1
    <3> QED BY <1>3, <2>1, <3>1
  <2>2. CASE d # c
    <3>1. sendq'[d] = sendq[d]
      BY <1>1, <2>2
    <3> QED BY <3>1, KeptSame
  <2> QED BY <2>1, <2>2
<1> QED BY <1>1, <1>4

LEMMA ReceiversGone ==
  ASSUME Waiting, NEW c \in Sources, fired \subseteq fired', recvq' = [recvq EXCEPT ![c] = <<>>],
         \A k \in Live(recvq[c]) : Shared(recvq[c][k]) \in fired'
  PROVE  recvq' \in [Sources -> Seq(Receiver)] /\ \A x \in Sources : Kept(recvq[x], recvq'[x])
<1>1. recvq \in [Sources -> Seq(Receiver)] /\ <<>> \in Seq(Receiver)
  BY EmptySeq DEF Waiting, QueueTypes
<1>2. \A k \in DOMAIN recvq[c] : Shared(recvq[c][k]) \in fired'
  BY DEF Live
<1>3. Kept(recvq[c], <<>>)
  BY <1>2, KeptNone
<1>4. ASSUME NEW d \in Sources PROVE Kept(recvq[d], recvq'[d])
  <2>1. CASE d = c
    <3>1. recvq'[d] = <<>>
      BY <1>1, <2>1
    <3> QED BY <1>3, <2>1, <3>1
  <2>2. CASE d # c
    <3>1. recvq'[d] = recvq[d]
      BY <1>1, <2>2
    <3> QED BY <3>1, KeptSame
  <2> QED BY <2>1, <2>2
<1> QED BY <1>1, <1>4

LEMMA SendersStay ==
  ASSUME Waiting, UNCHANGED sendq
  PROVE  sendq' \in [Channels -> Seq(Sender)] /\ \A d \in Channels : Kept(sendq[d], sendq'[d])
  BY KeptSame DEF Waiting, QueueTypes

LEMMA ReceiversStay ==
  ASSUME Waiting, UNCHANGED recvq
  PROVE  recvq' \in [Sources -> Seq(Receiver)] /\ \A x \in Sources : Kept(recvq[x], recvq'[x])
  BY KeptSame DEF Waiting, QueueTypes

\* Nothing fires.
LEMMA NothingFires ==
  ASSUME Waiting, UNCHANGED <<tickets, fired>>,
         sendq' \in [Channels -> Seq(Sender)], \A d \in Channels : Kept(sendq[d], sendq'[d]),
         recvq' \in [Sources -> Seq(Receiver)], \A x \in Sources : Kept(recvq[x], recvq'[x])
  PROVE  KeptAll /\ QueueTypes'
<1>1. QueueTypes'
  BY DEF Waiting, QueueTypes
<1> QED BY <1>1 DEF KeptAll

\* The record of one blocked goroutine fires.
LEMMA OneFires ==
  ASSUME Waiting, NEW h \in Goroutines, status[h] = "blocked", halted = "no",
         UNCHANGED tickets, fired' = fired \cup {<<h, tickets[h]>>},
         sendq' \in [Channels -> Seq(Sender)], \A d \in Channels : Kept(sendq[d], sendq'[d]),
         recvq' \in [Sources -> Seq(Receiver)], \A x \in Sources : Kept(recvq[x], recvq'[x])
  PROVE  KeptAll /\ QueueTypes'
<1>1. Awaited(h)
  BY DEF Waiting, BlockedWait
<1>2. tickets[h] \in Nat \ {0}
  <2>1. ASSUME NEW c \in Channels, Queued(sendq[c], h) PROVE tickets[h] \in Nat \ {0}
    <3>1. PICK k \in DOMAIN sendq[c] : Shared(sendq[c][k]) \notin fired /\ sendq[c][k].g = h
      BY <2>1 DEF Queued, Live
    <3>2. /\ sendq[c][k].n \in Nat \ {0} /\ sendq[c][k].n <= tickets[h]
          /\ <<h, sendq[c][k].n>> \notin fired
      BY <3>1, SendersAreKnown
    <3> QED BY <3>2, LiveIsBlocked
  <2>2. ASSUME NEW x \in Sources, Queued(recvq[x], h) PROVE tickets[h] \in Nat \ {0}
    <3>1. PICK k \in DOMAIN recvq[x] : Shared(recvq[x][k]) \notin fired /\ recvq[x][k].g = h
      BY <2>2 DEF Queued, Live
    <3>2. /\ recvq[x][k].n \in Nat \ {0} /\ recvq[x][k].n <= tickets[h]
          /\ <<h, recvq[x][k].n>> \notin fired
      BY <3>1, ReceiversAreKnown
    <3> QED BY <3>2, LiveIsBlocked
  <2> QED BY <1>1, <2>1, <2>2 DEF Awaited
<1>3. QueueTypes'
  BY <1>2 DEF Waiting, QueueTypes
<1> QED BY <1>3 DEF KeptAll

\* An operation that returns and wakes one blocked goroutine.
LEMMA WakeOne ==
  ASSUME Sched, Waiting, NEW g \in Goroutines, Runs(g), NEW val \in Results,
         NEW h \in Goroutines, status[h] = "blocked", NEW res \in Results,
         Returns(val, <<Entry(h, res)>>),
         UNCHANGED tickets, fired' = fired \cup {<<h, tickets[h]>>},
         sendq' \in [Channels -> Seq(Sender)], \A d \in Channels : Kept(sendq[d], sendq'[d]),
         recvq' \in [Sources -> Seq(Receiver)], \A x \in Sources : Kept(recvq[x], recvq'[x])
  PROVE  Sched' /\ Waiting' /\ Shrinks
<1>1. halted = "no"
  BY DEF Runs
<1>2. KeptAll /\ QueueTypes'
  BY <1>1, OneFires
<1> DEFINE ws == <<Entry(h, res)>>
<1>3. ws \in Seq(Entries) /\ Distinct(ws) /\ Names(ws) = {h}
  BY OneEntry
<1>4. Wakes(ws) /\ UNCHANGED <<cur, halted, errors>> /\ input' \in Results
  BY DEF Returns
<1> HIDE DEF ws
<1>5. fired' = fired \cup {<<k, tickets[k]>> : k \in Names(ws)}
  BY <1>3
<1>6. \A k \in Names(ws) : k \in Goroutines /\ status[k] = "blocked"
  BY <1>3
<1>7. Shrinks
  BY <1>2 DEF Shrinks
<1> QED BY <1>1, <1>2, <1>3, <1>4, <1>5, <1>6, <1>7, WakeStep

-----------------------------------------------------------------------------
(* The invariant.                                                          *)

\* The types of the rest.
DataTypes ==
  /\ DOMAIN loc \subseteq Token
  /\ born \in [Minters -> Nat]
  /\ buf \in [Channels -> Seq(Token)]
  /\ closed \in [Channels -> BOOLEAN]
  /\ timer \in [Timers -> {"idle", "running", "fired", "stopped"}]
  /\ pending \in [Timers -> Token \cup {NoTok}]
  /\ done \in [Contexts -> BOOLEAN]

CommInv == Sched /\ Waiting /\ DataTypes

\* What every step of an operation does.
CommStep == CommInv' /\ (Shrinks \/ \E g \in Goroutines : Grows(g))

LEMMA ShrinkStep ==
  ASSUME Sched', Waiting', DataTypes', KeptAll, UNCHANGED tickets, fired \subseteq fired'
  PROVE  CommStep
  BY DEF CommStep, CommInv, Shrinks

LEMMA StillShrinks ==
  ASSUME UNCHANGED <<sendq, recvq, tickets, fired>>
  PROVE  Shrinks
  BY KeptSame DEF Shrinks, KeptAll

LEMMA TokenFacts ==
  ASSUME born \in [Minters -> Nat], NEW s \in Operand
  PROVE  /\ TokenOf(s) \in Token
         /\ Minted(s) \in [Minters -> Nat]
<1>1. s.by \in Minters /\ s.n \in Nat /\ s.v \in Payloads
  BY DEF Operand
<1>2. born[s.by] + 1 \in Nat \ {0}
  BY <1>1
<1>3. TokenOf(s) \in Token
  <2>1. CASE s.n = 0
    <3>1. [s EXCEPT !.n = born[s.by] + 1] \in [by : Minters, n : Nat \ {0}, v : Payloads]
      BY <1>2 DEF Operand
    <3> QED BY <2>1, <3>1 DEF TokenOf, Token
  <2>2. CASE s.n # 0
    BY <1>1, <2>2 DEF TokenOf, Token, Operand
  <2> QED BY <2>1, <2>2
<1>4. Minted(s) \in [Minters -> Nat]
  BY <1>1 DEF Minted
<1> QED BY <1>3, <1>4

LEMMA TokensAreOperands == Token \subseteq Operand
  BY DEF Token, Operand

\* Tokens move and vanish.
LEMMA PlaceFacts ==
  ASSUME NEW L, DOMAIN L \subseteq Token
  PROVE  /\ \A tok \in Token : \A p : DOMAIN Moved(L, tok, p) \subseteq Token
         /\ \A T : DOMAIN Without(L, T) \subseteq Token
         /\ \A g : DOMAIN DropHeld(L, g) \subseteq Token
         /\ \A c, b : DOMAIN Shelved(L, c, b) \subseteq Token
  BY DEF Moved, Without, DropHeld, Shelved

LEMMA ResultFacts ==
  /\ \A i \in Int, ok \in BOOLEAN, tok \in Token \cup {NoTok} : Result(i, ok, tok) \in Results
  /\ \A i \in Int, tok \in Token : Sent(i, tok) \in Results
  BY UnitIsAResult DEF Result, Results, Sent

LEMMA ChannelsAreSources == Channels \subseteq Sources /\ Timers \subseteq Sources /\ Contexts \subseteq Sources
  BY DEF Sources

-----------------------------------------------------------------------------
(* Sending.                                                                *)

LEMMA FatalKeeps ==
  ASSUME CommInv, halted = "no", Fatal,
         UNCHANGED <<tokenVars, chanVars, waitVars, sourceVars>>
  PROVE  CommStep
<1>1. Sched'
  BY FatalReady DEF CommInv
<1>2. KeptAll /\ QueueTypes'
  BY StillKept DEF CommInv, chanVars, waitVars
<1>3. halted' # "no"
  BY DEF Fatal
<1>4. Waiting'
  BY <1>2, <1>3, StopStep DEF CommInv, waitVars
<1>5. DataTypes'
  BY DEF CommInv, DataTypes, tokenVars, chanVars, sourceVars
<1> QED BY <1>1, <1>2, <1>4, <1>5, ShrinkStep DEF waitVars

LEMMA SendOnClosedKeeps ==
  ASSUME CommInv, NEW g \in Goroutines, NEW c \in Channels, NEW s \in Operand,
         Runs(g), SendOnClosed(g, c, s), UNCHANGED sourceVars
  PROVE  CommStep
<1>1. Sched'
  BY EmptyEntries, PanicsReady DEF CommInv, SendOnClosed
<1>2. KeptAll /\ QueueTypes'
  BY StillKept DEF CommInv, SendOnClosed, chanVars, waitVars
<1>3. halted = "no" /\ halted' # "no"
  BY DEF Runs, SendOnClosed, Panics
<1>4. Waiting'
  <2>1. Waiting /\ UNCHANGED <<tickets, fired>>
    BY DEF CommInv, SendOnClosed, waitVars
  <2> QED BY <1>2, <1>3, <2>1, StopStep
<1>5. born \in [Minters -> Nat] /\ DOMAIN loc \subseteq Token
  BY DEF CommInv, DataTypes
<1>6. born' \in [Minters -> Nat] /\ DOMAIN loc' \subseteq Token
  BY <1>5, TokenFacts, PlaceFacts DEF SendOnClosed
<1>7. DataTypes'
  BY <1>6 DEF CommInv, DataTypes, SendOnClosed, chanVars, sourceVars
<1> QED BY <1>1, <1>2, <1>4, <1>7, ShrinkStep DEF SendOnClosed, waitVars

LEMMA SendToReceiverKeeps ==
  ASSUME CommInv, NEW g \in Goroutines, NEW c \in Channels, NEW s \in Operand, NEW i \in Nat,
         Runs(g), SendToReceiver(g, c, s, i), UNCHANGED sourceVars
  PROVE  CommStep
<1> DEFINE r == Popped(recvq[c])
           tok == TokenOf(s)
<1>1. Sched /\ Waiting /\ c \in Sources /\ halted = "no"
  BY ChannelsAreSources DEF CommInv, Runs
<1>2. Live(recvq[c]) # {}
  BY DEF SendToReceiver
<1>3. r \in Receiver /\ r.g \in Goroutines /\ Shared(r) = <<r.g, tickets[r.g]>> /\ status[r.g] = "blocked"
  BY <1>1, <1>2, PoppedReceiver
<1>4. born \in [Minters -> Nat] /\ DOMAIN loc \subseteq Token
  BY DEF CommInv, DataTypes
<1>5. tok \in Token /\ Minted(s) \in [Minters -> Nat]
  BY <1>4, TokenFacts
<1> HIDE DEF r, tok
<1>6. Sent(i, tok) \in Results /\ Result(r.i, TRUE, tok) \in Results
  <2>1. r.i \in Int /\ i \in Int
    BY <1>3 DEF Receiver
  <2> QED BY <1>5, <2>1, ResultFacts
<1>7. /\ loc' = Moved(DropHeld(loc, r.g), tok, At(r.g))
      /\ fired' = fired \cup {Shared(r)}
      /\ Returns(Sent(i, tok), <<Entry(r.g, Result(r.i, TRUE, tok))>>)
      /\ born' = Minted(s)
      /\ recvq' = [recvq EXCEPT ![c] = Rest(@)]
      /\ UNCHANGED <<tickets, buf, closed, sendq>>
  BY DEF SendToReceiver, chanVars, r, tok
<1>8. fired' = fired \cup {<<r.g, tickets[r.g]>>}
  BY <1>3, <1>7
<1>9. recvq' \in [Sources -> Seq(Receiver)] /\ \A x \in Sources : Kept(recvq[x], recvq'[x])
  BY <1>1, <1>7, ReceiversRest DEF r
<1>10. sendq' \in [Channels -> Seq(Sender)] /\ \A d \in Channels : Kept(sendq[d], sendq'[d])
  BY <1>1, <1>7, SendersStay
<1>11. Sched' /\ Waiting' /\ Shrinks
  BY <1>1, <1>3, <1>6, <1>7, <1>8, <1>9, <1>10, WakeOne
<1>12. DOMAIN loc' \subseteq Token
  BY <1>4, <1>5, <1>7, PlaceFacts
<1>13. DataTypes'
  BY <1>5, <1>7, <1>12 DEF CommInv, DataTypes, sourceVars
<1> QED BY <1>11, <1>13 DEF CommInv, CommStep

LEMMA SendToBufferKeeps ==
  ASSUME CommInv, NEW g \in Goroutines, NEW c \in Channels, NEW s \in Operand, NEW i \in Nat,
         Runs(g), SendToBuffer(g, c, s, i), UNCHANGED sourceVars
  PROVE  CommStep
<1>1. Sched /\ Waiting /\ c \in Sources /\ halted = "no"
  BY ChannelsAreSources DEF CommInv, Runs
<1>2. born \in [Minters -> Nat] /\ DOMAIN loc \subseteq Token
  BY DEF CommInv, DataTypes
<1>3. TokenOf(s) \in Token /\ Minted(s) \in [Minters -> Nat]
  BY <1>2, TokenFacts
<1>4. Sent(i, TokenOf(s)) \in Results
  BY <1>3, ResultFacts
<1>5. /\ Live(recvq[c]) = {}
      /\ buf' = [buf EXCEPT ![c] = Append(@, TokenOf(s))]
      /\ loc' = Moved(loc, TokenOf(s), Slot(c, Len(buf[c]) + 1))
      /\ born' = Minted(s)
      /\ recvq' = [recvq EXCEPT ![c] = Rest(@)]
      /\ Returns(Sent(i, TokenOf(s)), <<>>)
      /\ UNCHANGED <<closed, sendq, tickets, fired>>
  BY DEF SendToBuffer
<1>6. recvq' \in [Sources -> Seq(Receiver)] /\ \A x \in Sources : Kept(recvq[x], recvq'[x])
  BY <1>1, <1>5, ReceiversRest
<1>7. sendq' \in [Channels -> Seq(Sender)] /\ \A d \in Channels : Kept(sendq[d], sendq'[d])
  BY <1>1, <1>5, SendersStay
<1>8. KeptAll /\ QueueTypes'
  BY <1>1, <1>5, <1>6, <1>7, NothingFires
<1>9. Sched' /\ Waiting'
  BY <1>1, <1>4, <1>5, <1>8, QuietStep
<1>10. DOMAIN loc' \subseteq Token
  BY <1>2, <1>3, <1>5, PlaceFacts
<1>11. buf' \in [Channels -> Seq(Token)]
  BY <1>3, <1>5, AppendProperties DEF CommInv, DataTypes
<1>12. DataTypes'
  BY <1>3, <1>5, <1>10, <1>11 DEF CommInv, DataTypes, sourceVars
<1> QED BY <1>5, <1>8, <1>9, <1>12, ShrinkStep

LEMMA SendNowKeeps ==
  ASSUME CommInv, NEW g \in Goroutines, NEW c \in Channels, NEW s \in Operand, NEW i \in Nat,
         Runs(g), SendNow(g, c, s, i), UNCHANGED sourceVars
  PROVE  CommStep
<1>1. CASE SendUnheld(g, s)
  BY <1>1, FatalKeeps DEF SendUnheld, Runs
<1> QED BY <1>1, SendOnClosedKeeps, SendToReceiverKeeps, SendToBufferKeeps DEF SendNow

-----------------------------------------------------------------------------
(* Parking.                                                                *)

LEMMA JoinsKept ==
  ASSUME NEW S, NEW q, NEW r \in Seq(S), Kept(q, r), NEW g
  PROVE  Joins(S, q, r, g)
  BY DEF Joins

LEMMA JoinsNew ==
  ASSUME NEW S, NEW q, NEW base \in Seq(S), Kept(q, base), NEW g, NEW w \in S,
         w.g = g, w.n = tickets[g] + 1
  PROVE  /\ Joins(S, q, Append(base, w), g)
         /\ HasNew(Append(base, w), g)
         /\ Append(base, w) \in Seq(S)
<1>1. Joins(S, q, Append(base, w), g)
  BY DEF Joins
<1>2. HasNew(Append(base, w), g)
  BY JoinedNew
<1> QED BY <1>1, <1>2, AppendProperties

LEMMA NewWaiters ==
  ASSUME Waiting, NEW g \in Goroutines, NEW i \in Nat
  PROVE  /\ \A s \in Operand : NextWaiter(g, i, s) \in Sender
         /\ NextWaiter(g, i, NoTok) \in Receiver
         /\ \A s : NextWaiter(g, i, s).g = g /\ NextWaiter(g, i, s).n = tickets[g] + 1
<1>1. tickets[g] + 1 \in Nat \ {0}
  BY DEF Waiting, QueueTypes
<1> QED BY <1>1 DEF NextWaiter, Sender, Receiver

LEMMA ParkKeeps ==
  ASSUME Sched, Waiting, NEW g \in Goroutines, Runs(g), Parks(g),
         tickets' = [tickets EXCEPT ![g] = @ + 1], UNCHANGED fired,
         sendq' \in [Channels -> Seq(Sender)], recvq' \in [Sources -> Seq(Receiver)],
         \A c \in Channels : Joins(Sender, sendq[c], sendq'[c], g),
         \A x \in Sources : Joins(Receiver, recvq[x], recvq'[x], g),
         \/ \E c \in Channels : HasNew(sendq'[c], g)
         \/ \E x \in Sources : HasNew(recvq'[x], g)
  PROVE  Sched' /\ Waiting' /\ Grows(g)
<1>1. Sched'
  BY ParksReady
<1>2. halted = "no" /\ halted' = "no" /\ status[g] = "running" /\ status \in [Goroutines -> Statuses]
  BY NilIsNoGoroutine DEF Sched, RunTypes, ReadyExact, Runs, Parks
<1>3. status'[g] = "blocked" /\ \A h \in Goroutines \ {g} : status'[h] = status[h]
  BY <1>2 DEF Parks
<1>4. tickets \in [Goroutines -> Nat]
  BY DEF Waiting, QueueTypes
<1>5. /\ tickets'[g] = tickets[g] + 1
      /\ \A h \in Goroutines \ {g} : tickets'[h] = tickets[h]
      /\ tickets' \in [Goroutines -> Nat]
  BY <1>4
<1>6. QueueTypes'
  BY <1>5 DEF Waiting, QueueTypes
<1>7. Grows(g)
  BY <1>2 DEF Grows
<1> QED BY <1>1, <1>2, <1>3, <1>5, <1>6, <1>7, ParkStep

\* A sender waits.
LEMMA SendWaitsKeeps ==
  ASSUME CommInv, NEW g \in Goroutines, NEW c \in Channels, NEW s \in Operand, Runs(g),
         NoRoom(g, c, s),
         sendq' = [sendq EXCEPT ![c] = Append(@, NextWaiter(g, 0, TokenOf(s)))],
         recvq' = [recvq EXCEPT ![c] = Rest(@)],
         tickets' = [tickets EXCEPT ![g] = @ + 1],
         loc' = Moved(loc, TokenOf(s), At(g)),
         born' = Minted(s),
         Parks(g),
         UNCHANGED <<buf, closed, fired, sourceVars>>
  PROVE  CommStep
<1>1. Sched /\ Waiting /\ c \in Sources
  BY ChannelsAreSources DEF CommInv
<1>2. born \in [Minters -> Nat] /\ DOMAIN loc \subseteq Token
  BY DEF CommInv, DataTypes
<1>3. TokenOf(s) \in Token /\ Minted(s) \in [Minters -> Nat]
  BY <1>2, TokenFacts
<1> DEFINE w == NextWaiter(g, 0, TokenOf(s))
<1>4. w \in Sender /\ w.g = g /\ w.n = tickets[g] + 1
  BY <1>1, <1>3, TokensAreOperands, NewWaiters
<1>5. sendq' = [sendq EXCEPT ![c] = Append(@, w)]
  OBVIOUS
<1> HIDE DEF w
<1>6. sendq \in [Channels -> Seq(Sender)] /\ sendq[c] \in Seq(Sender)
  BY <1>1 DEF Waiting, QueueTypes
<1>7. /\ Joins(Sender, sendq[c], Append(sendq[c], w), g)
      /\ HasNew(Append(sendq[c], w), g)
      /\ Append(sendq[c], w) \in Seq(Sender)
  BY <1>4, <1>6, KeptSame, JoinsNew
<1>8. /\ sendq' \in [Channels -> Seq(Sender)]
      /\ sendq'[c] = Append(sendq[c], w)
      /\ \A d \in Channels \ {c} : sendq'[d] = sendq[d]
  BY <1>5, <1>6, <1>7
<1>9. ASSUME NEW d \in Channels PROVE Joins(Sender, sendq[d], sendq'[d], g)
  <2>1. CASE d = c
    BY <1>7, <1>8, <2>1
  <2>2. CASE d # c
    BY <1>6, <1>8, <2>2, KeptSame, JoinsKept
  <2> QED BY <2>1, <2>2
<1>10. recvq' \in [Sources -> Seq(Receiver)] /\ \A x \in Sources : Kept(recvq[x], recvq'[x])
  BY <1>1, ReceiversRest DEF NoRoom
<1>11. \A x \in Sources : Joins(Receiver, recvq[x], recvq'[x], g)
  BY <1>10, JoinsKept
<1>12. HasNew(sendq'[c], g)
  BY <1>7, <1>8
<1>13. Sched' /\ Waiting' /\ Grows(g)
  BY <1>1, <1>8, <1>9, <1>10, <1>11, <1>12, ParkKeeps
<1>14. DOMAIN loc' \subseteq Token
  BY <1>2, <1>3, PlaceFacts
<1>15. DataTypes'
  BY <1>3, <1>14 DEF CommInv, DataTypes, sourceVars
<1> QED BY <1>13, <1>15 DEF CommInv, CommStep

LEMMA SendKeeps ==
  ASSUME CommInv, NEW g \in Goroutines, NEW c \in Channels, NEW s \in Operand, Send(g, c, s)
  PROVE  CommStep
<1>1. Runs(g) /\ UNCHANGED sourceVars
  BY DEF Send
<1>2. CASE SendNow(g, c, s, 0)
  BY <1>1, <1>2, SendNowKeeps
<1>3. CASE ~ SendNow(g, c, s, 0)
  BY <1>1, <1>3, SendWaitsKeeps DEF Send
<1> QED BY <1>2, <1>3

\* Notify drops the value.
LEMMA NotifyKeeps ==
  ASSUME CommInv, NEW g \in Goroutines, NEW c \in Channels, NEW s \in Operand, Notify(g, c, s)
  PROVE  CommStep
<1>1. Runs(g) /\ UNCHANGED sourceVars
  BY DEF Notify
<1>2. CASE SendNow(g, c, s, 0)
  BY <1>1, <1>2, SendNowKeeps
<1>3. CASE ~ SendNow(g, c, s, 0)
  <2>1. /\ NoRoom(g, c, s)
        /\ loc' = Without(loc, {TokenOf(s)})
        /\ born' = Minted(s)
        /\ recvq' = [recvq EXCEPT ![c] = Rest(@)]
        /\ Returns(Unit, <<>>)
        /\ UNCHANGED <<tickets, fired, buf, closed, sendq>>
    BY <1>3 DEF Notify, chanVars
  <2>2. Sched /\ Waiting /\ c \in Sources
    BY ChannelsAreSources DEF CommInv
  <2>3. recvq' \in [Sources -> Seq(Receiver)] /\ \A x \in Sources : Kept(recvq[x], recvq'[x])
    BY <2>1, <2>2, ReceiversRest DEF NoRoom
  <2>4. sendq' \in [Channels -> Seq(Sender)] /\ \A d \in Channels : Kept(sendq[d], sendq'[d])
    BY <2>1, <2>2, SendersStay
  <2>5. KeptAll /\ QueueTypes'
    BY <2>1, <2>2, <2>3, <2>4, NothingFires
  <2>6. Sched' /\ Waiting'
    BY <1>1, <2>1, <2>2, <2>5, UnitIsAResult, QuietStep
  <2>7. born \in [Minters -> Nat] /\ DOMAIN loc \subseteq Token
    BY DEF CommInv, DataTypes
  <2>8. born' \in [Minters -> Nat] /\ DOMAIN loc' \subseteq Token
    BY <2>1, <2>7, TokenFacts, PlaceFacts
  <2>9. DataTypes'
    BY <1>1, <2>1, <2>8 DEF CommInv, DataTypes, sourceVars
  <2> QED BY <2>1, <2>5, <2>6, <2>9, ShrinkStep
<1> QED BY <1>2, <1>3

-----------------------------------------------------------------------------
(* Receiving.                                                              *)

LEMMA BufferFacts ==
  ASSUME DataTypes, NEW c \in Channels, buf[c] # <<>>
  PROVE  Head(buf[c]) \in Token /\ Tail(buf[c]) \in Seq(Token)
<1>1. buf[c] \in Seq(Token)
  BY DEF DataTypes
<1> QED BY <1>1, HeadTailProperties

LEMMA TakeAloneKeeps ==
  ASSUME CommInv, NEW g \in Goroutines, NEW c \in Channels, NEW i \in Nat, Runs(g),
         buf[c] # <<>>, Live(sendq[c]) = {},
         buf' = [buf EXCEPT ![c] = Tail(@)],
         loc' = Shelved(Moved(DropHeld(loc, g), Head(buf[c]), At(g)), c, Tail(buf[c])),
         Returns(Result(i, TRUE, Head(buf[c])), <<>>),
         sendq' = [sendq EXCEPT ![c] = Rest(@)],
         UNCHANGED <<born, fired, closed, recvq, tickets, sourceVars>>
  PROVE  CommStep
<1>1. Sched /\ Waiting /\ DataTypes
  BY DEF CommInv
<1>2. Head(buf[c]) \in Token /\ Tail(buf[c]) \in Seq(Token)
  BY <1>1, BufferFacts
<1>3. sendq' \in [Channels -> Seq(Sender)] /\ \A d \in Channels : Kept(sendq[d], sendq'[d])
  BY <1>1, SendersRest
<1>4. recvq' \in [Sources -> Seq(Receiver)] /\ \A x \in Sources : Kept(recvq[x], recvq'[x])
  BY <1>1, ReceiversStay
<1>5. KeptAll /\ QueueTypes'
  BY <1>1, <1>3, <1>4, NothingFires
<1>6. Result(i, TRUE, Head(buf[c])) \in Results
  <2>1. i \in Int
    OBVIOUS
  <2> QED BY <1>2, <2>1, ResultFacts
<1>7. Sched' /\ Waiting'
  BY <1>1, <1>5, <1>6, QuietStep
<1>8. DOMAIN loc \subseteq Token
  BY <1>1 DEF DataTypes
<1>9. DOMAIN DropHeld(loc, g) \subseteq Token
  BY <1>8, PlaceFacts
<1>10. DOMAIN Moved(DropHeld(loc, g), Head(buf[c]), At(g)) \subseteq Token
  BY <1>2, <1>9, PlaceFacts
<1>11. DOMAIN loc' \subseteq Token
  BY <1>10, PlaceFacts
<1>12. buf' \in [Channels -> Seq(Token)]
  BY <1>1, <1>2 DEF DataTypes
<1>13. DataTypes'
  BY <1>1, <1>11, <1>12 DEF DataTypes, sourceVars
<1> QED BY <1>5, <1>7, <1>13, ShrinkStep

\* A waiting sender is served: w is the first of the queue.
LEMMA SenderServed ==
  ASSUME CommInv, NEW g \in Goroutines, NEW c \in Channels, NEW i \in Nat, Runs(g),
         Live(sendq[c]) # {}, NEW w, w = Popped(sendq[c]), NEW tok \in Token,
         fired' = fired \cup {Shared(w)},
         Returns(Result(i, TRUE, tok), <<Entry(w.g, Sent(w.i, TokenOf(w.s)))>>),
         sendq' = [sendq EXCEPT ![c] = Rest(@)],
         UNCHANGED <<recvq, tickets>>
  PROVE  Sched' /\ Waiting' /\ Shrinks
<1>1. Sched /\ Waiting /\ halted = "no" /\ born \in [Minters -> Nat]
  BY DEF CommInv, DataTypes, Runs
<1>2. w \in Sender /\ w.g \in Goroutines /\ Shared(w) = <<w.g, tickets[w.g]>> /\ status[w.g] = "blocked"
  BY <1>1, PoppedSender
<1>3. w.s \in Operand /\ w.i \in Int /\ i \in Int
  BY <1>2 DEF Sender
<1>4. Sent(w.i, TokenOf(w.s)) \in Results /\ Result(i, TRUE, tok) \in Results
  BY <1>1, <1>3, TokenFacts, ResultFacts
<1>5. sendq' \in [Channels -> Seq(Sender)] /\ \A d \in Channels : Kept(sendq[d], sendq'[d])
  BY <1>1, SendersRest
<1>6. recvq' \in [Sources -> Seq(Receiver)] /\ \A x \in Sources : Kept(recvq[x], recvq'[x])
  BY <1>1, ReceiversStay
<1>7. fired' = fired \cup {<<w.g, tickets[w.g]>>}
  BY <1>2
<1> QED BY <1>1, <1>2, <1>4, <1>5, <1>6, <1>7, WakeOne

LEMMA ServedToken ==
  ASSUME CommInv, halted = "no", NEW c \in Channels, Live(sendq[c]) # {}
  PROVE  /\ TokenOf(Popped(sendq[c]).s) \in Token
         /\ Minted(Popped(sendq[c]).s) \in [Minters -> Nat]
<1> DEFINE w == Popped(sendq[c])
<1>1. w \in Sender
  BY PoppedSender DEF CommInv
<1> HIDE DEF w
<1>2. w.s \in Operand
  BY <1>1 DEF Sender
<1>3. born \in [Minters -> Nat]
  BY DEF CommInv, DataTypes
<1>4. TokenOf(w.s) \in Token /\ Minted(w.s) \in [Minters -> Nat]
  BY <1>2, <1>3, TokenFacts
<1> QED BY <1>4 DEF w

LEMMA TakeAndRefillKeeps ==
  ASSUME CommInv, NEW g \in Goroutines, NEW c \in Channels, NEW i \in Nat, Runs(g),
         buf[c] # <<>>, Live(sendq[c]) # {}, NEW w, w = Popped(sendq[c]),
         NEW refilled, refilled = Append(Tail(buf[c]), TokenOf(w.s)),
         buf' = [buf EXCEPT ![c] = refilled],
         loc' = Shelved(Moved(Moved(DropHeld(loc, g), Head(buf[c]), At(g)), TokenOf(w.s), At(c)), c, refilled),
         born' = Minted(w.s),
         fired' = fired \cup {Shared(w)},
         Returns(Result(i, TRUE, Head(buf[c])), <<Entry(w.g, Sent(w.i, TokenOf(w.s)))>>),
         sendq' = [sendq EXCEPT ![c] = Rest(@)],
         UNCHANGED <<closed, recvq, tickets, sourceVars>>
  PROVE  CommStep
<1>1. DataTypes /\ halted = "no"
  BY DEF CommInv, Runs
<1>2. Head(buf[c]) \in Token /\ Tail(buf[c]) \in Seq(Token)
  BY <1>1, BufferFacts
<1>3. Sched' /\ Waiting' /\ Shrinks
  BY <1>2, SenderServed
<1>4. TokenOf(w.s) \in Token /\ Minted(w.s) \in [Minters -> Nat]
  BY <1>1, ServedToken
<1>5. DOMAIN loc \subseteq Token
  BY <1>1 DEF DataTypes
<1>6. DOMAIN DropHeld(loc, g) \subseteq Token
  BY <1>5, PlaceFacts
<1>7. DOMAIN Moved(DropHeld(loc, g), Head(buf[c]), At(g)) \subseteq Token
  BY <1>2, <1>6, PlaceFacts
<1>8. DOMAIN Moved(Moved(DropHeld(loc, g), Head(buf[c]), At(g)), TokenOf(w.s), At(c)) \subseteq Token
  BY <1>4, <1>7, PlaceFacts
<1>9. DOMAIN loc' \subseteq Token
  BY <1>8, PlaceFacts
<1>10. refilled \in Seq(Token)
  BY <1>2, <1>4, AppendProperties
<1>11. buf' \in [Channels -> Seq(Token)]
  BY <1>1, <1>10 DEF DataTypes
<1>12. DataTypes'
  BY <1>1, <1>4, <1>9, <1>11 DEF DataTypes, sourceVars
<1> QED BY <1>3, <1>12 DEF CommInv, CommStep

LEMMA TakeFromBufferKeeps ==
  ASSUME CommInv, NEW g \in Goroutines, NEW c \in Channels, NEW i \in Nat, Runs(g),
         TakeFromBuffer(g, c, i), UNCHANGED sourceVars
  PROVE  CommStep
<1> DEFINE w == Popped(sendq[c])
           refilled == Append(Tail(buf[c]), TokenOf(w.s))
<1>1. buf[c] # <<>> /\ sendq' = [sendq EXCEPT ![c] = Rest(@)] /\ UNCHANGED <<closed, recvq, tickets>>
  BY DEF TakeFromBuffer
<1>2. CASE Live(sendq[c]) = {}
  BY <1>1, <1>2, TakeAloneKeeps DEF TakeFromBuffer
<1>3. CASE Live(sendq[c]) # {}
  <2>1. /\ buf' = [buf EXCEPT ![c] = refilled]
        /\ loc' = Shelved(Moved(Moved(DropHeld(loc, g), Head(buf[c]), At(g)), TokenOf(w.s), At(c)), c, refilled)
        /\ born' = Minted(w.s)
        /\ fired' = fired \cup {Shared(w)}
        /\ Returns(Result(i, TRUE, Head(buf[c])), <<Entry(w.g, Sent(w.i, TokenOf(w.s)))>>)
    BY <1>3 DEF TakeFromBuffer
  <2> QED BY <1>1, <1>3, <2>1, TakeAndRefillKeeps
<1> QED BY <1>2, <1>3

LEMMA TakeFromSenderKeeps ==
  ASSUME CommInv, NEW g \in Goroutines, NEW c \in Channels, NEW i \in Nat, Runs(g),
         TakeFromSender(g, c, i), UNCHANGED sourceVars
  PROVE  CommStep
<1> DEFINE w == Popped(sendq[c])
<1>1. DataTypes /\ halted = "no" /\ Live(sendq[c]) # {}
  BY DEF CommInv, Runs, TakeFromSender
<1>2. TokenOf(w.s) \in Token /\ Minted(w.s) \in [Minters -> Nat]
  BY <1>1, ServedToken
<1>3. /\ loc' = Moved(DropHeld(loc, g), TokenOf(w.s), At(g))
      /\ born' = Minted(w.s)
      /\ fired' = fired \cup {Shared(w)}
      /\ Returns(Result(i, TRUE, TokenOf(w.s)), <<Entry(w.g, Sent(w.i, TokenOf(w.s)))>>)
      /\ sendq' = [sendq EXCEPT ![c] = Rest(@)]
      /\ UNCHANGED <<buf, closed, recvq, tickets>>
  BY DEF TakeFromSender
<1>4. Sched' /\ Waiting' /\ Shrinks
  BY <1>1, <1>2, <1>3, SenderServed
<1> HIDE DEF w
<1>5. DOMAIN loc \subseteq Token
  BY <1>1 DEF DataTypes
<1>6. DOMAIN DropHeld(loc, g) \subseteq Token
  BY <1>5, PlaceFacts
<1>7. DOMAIN loc' \subseteq Token
  BY <1>2, <1>3, <1>6, PlaceFacts
<1>8. DataTypes'
  BY <1>1, <1>2, <1>3, <1>7 DEF DataTypes, sourceVars
<1> QED BY <1>4, <1>8 DEF CommInv, CommStep

LEMMA TakeFromClosedKeeps ==
  ASSUME CommInv, NEW g \in Goroutines, NEW c \in Channels, NEW i \in Nat, Runs(g),
         TakeFromClosed(c, i), UNCHANGED sourceVars
  PROVE  CommStep
<1>1. /\ Live(sendq[c]) = {}
      /\ sendq' = [sendq EXCEPT ![c] = Rest(@)]
      /\ Returns(Result(i, FALSE, NoTok), <<>>)
      /\ UNCHANGED <<loc, born, buf, closed, recvq, tickets, fired>>
  BY DEF TakeFromClosed, tokenVars, waitVars
<1>2. Sched /\ Waiting
  BY DEF CommInv
<1>3. sendq' \in [Channels -> Seq(Sender)] /\ \A d \in Channels : Kept(sendq[d], sendq'[d])
  BY <1>1, <1>2, SendersRest
<1>4. recvq' \in [Sources -> Seq(Receiver)] /\ \A x \in Sources : Kept(recvq[x], recvq'[x])
  BY <1>1, <1>2, ReceiversStay
<1>5. KeptAll /\ QueueTypes'
  BY <1>1, <1>2, <1>3, <1>4, NothingFires
<1>6. Result(i, FALSE, NoTok) \in Results
  <2>1. i \in Int
    OBVIOUS
  <2> QED BY <2>1, ResultFacts
<1>7. Sched' /\ Waiting'
  BY <1>1, <1>2, <1>5, <1>6, QuietStep
<1>8. DataTypes'
  BY <1>1 DEF CommInv, DataTypes, sourceVars
<1> QED BY <1>1, <1>5, <1>7, <1>8, ShrinkStep

LEMMA TakeNowKeeps ==
  ASSUME CommInv, NEW g \in Goroutines, NEW c \in Channels, NEW i \in Nat, Runs(g), TakeNow(g, c, i)
  PROVE  CommStep
<1>1. UNCHANGED sourceVars
  BY DEF TakeNow
<1>2. CASE TakeFromUnheld(c)
  BY <1>1, <1>2, FatalKeeps DEF TakeFromUnheld, Runs
<1> QED BY <1>1, <1>2, TakeFromBufferKeeps, TakeFromSenderKeeps, TakeFromClosedKeeps DEF TakeNow

LEMMA TakeTickKeeps ==
  ASSUME CommInv, NEW g \in Goroutines, NEW tm \in Timers, NEW i \in Nat, Runs(g), TakeTick(g, tm, i)
  PROVE  CommStep
<1>1. /\ pending[tm] # NoTok
      /\ pending' = [pending EXCEPT ![tm] = NoTok]
      /\ loc' = Moved(DropHeld(loc, g), pending[tm], At(g))
      /\ Returns(Result(i, TRUE, pending[tm]), <<>>)
      /\ UNCHANGED <<born, timer, done, buf, closed, sendq, recvq, tickets, fired>>
  BY DEF TakeTick, chanVars, waitVars
<1>2. Sched /\ Waiting /\ DataTypes
  BY DEF CommInv
<1>3. pending[tm] \in Token /\ i \in Int
  BY <1>1, <1>2 DEF DataTypes
<1>4. Result(i, TRUE, pending[tm]) \in Results
  BY <1>3, ResultFacts
<1>5. KeptAll /\ QueueTypes'
  BY <1>1, <1>2, StillKept
<1>6. Sched' /\ Waiting'
  BY <1>1, <1>2, <1>4, <1>5, QuietStep
<1>7. DOMAIN loc \subseteq Token
  BY <1>2 DEF DataTypes
<1>8. DOMAIN DropHeld(loc, g) \subseteq Token
  BY <1>7, PlaceFacts
<1>9. DOMAIN loc' \subseteq Token
  BY <1>1, <1>3, <1>8, PlaceFacts
<1>10. DataTypes'
  BY <1>1, <1>2, <1>9 DEF DataTypes
<1> QED BY <1>1, <1>5, <1>6, <1>10, ShrinkStep

\* An operation that returns and changes nothing but the control.
LEMMA LooksOnly ==
  ASSUME CommInv, NEW g \in Goroutines, Runs(g), NEW val \in Results, Returns(val, <<>>),
         UNCHANGED <<tokenVars, chanVars, waitVars, sourceVars>>
  PROVE  CommStep
<1>1. Sched /\ Waiting /\ UNCHANGED <<sendq, recvq, tickets, fired>>
  BY DEF CommInv, chanVars, waitVars
<1>2. KeptAll /\ QueueTypes'
  BY <1>1, StillKept
<1>3. Sched' /\ Waiting'
  BY <1>1, <1>2, QuietStep
<1>4. DataTypes'
  BY DEF CommInv, DataTypes, tokenVars, chanVars, sourceVars
<1> QED BY <1>1, <1>2, <1>3, <1>4, ShrinkStep

LEMMA ReceiveNowKeeps ==
  ASSUME CommInv, NEW g \in Goroutines, NEW x \in Sources, NEW i \in Nat, Runs(g), ReceiveNow(g, x, i)
  PROVE  CommStep
<1>1. CASE x \in Channels /\ TakeNow(g, x, i)
  BY <1>1, TakeNowKeeps
<1>2. CASE x \in Timers /\ TakeTick(g, x, i)
  BY <1>2, TakeTickKeeps
<1>3. CASE x \in Contexts /\ SeeDone(x, i)
  <2>1. i \in Int
    OBVIOUS
  <2>2. Result(i, FALSE, NoTok) \in Results
    BY <2>1, ResultFacts
  <2> QED BY <1>3, <2>2, LooksOnly DEF SeeDone
<1> QED BY <1>1, <1>2, <1>3 DEF ReceiveNow

\* A receiver waits.
LEMMA RecvWaitsKeeps ==
  ASSUME CommInv, NEW g \in Goroutines, NEW x \in Sources, Runs(g), Empty(x),
         sendq' = [c \in Channels |-> IF c = x THEN Rest(sendq[c]) ELSE sendq[c]],
         recvq' = [recvq EXCEPT ![x] = Append(@, NextWaiter(g, 0, NoTok))],
         tickets' = [tickets EXCEPT ![g] = @ + 1],
         Parks(g),
         UNCHANGED <<tokenVars, buf, closed, fired, sourceVars>>
  PROVE  CommStep
<1>1. Sched /\ Waiting
  BY DEF CommInv
<1> DEFINE w == NextWaiter(g, 0, NoTok)
<1>2. w \in Receiver /\ w.g = g /\ w.n = tickets[g] + 1
  BY <1>1, NewWaiters
<1>3. recvq' = [recvq EXCEPT ![x] = Append(@, w)]
  OBVIOUS
<1> HIDE DEF w
<1>4. recvq \in [Sources -> Seq(Receiver)] /\ recvq[x] \in Seq(Receiver)
  BY <1>1 DEF Waiting, QueueTypes
<1>5. /\ Joins(Receiver, recvq[x], Append(recvq[x], w), g)
      /\ HasNew(Append(recvq[x], w), g)
      /\ Append(recvq[x], w) \in Seq(Receiver)
  BY <1>2, <1>4, KeptSame, JoinsNew
<1>6. /\ recvq' \in [Sources -> Seq(Receiver)]
      /\ recvq'[x] = Append(recvq[x], w)
      /\ \A d \in Sources \ {x} : recvq'[d] = recvq[d]
  BY <1>3, <1>4, <1>5
<1>7. ASSUME NEW d \in Sources PROVE Joins(Receiver, recvq[d], recvq'[d], g)
  <2>1. CASE d = x
    BY <1>5, <1>6, <2>1
  <2>2. CASE d # x
    BY <1>4, <1>6, <2>2, KeptSame, JoinsKept
  <2> QED BY <2>1, <2>2
<1>8. ASSUME NEW c \in Channels
      PROVE  sendq'[c] \in Seq(Sender) /\ Kept(sendq[c], sendq'[c])
  <2>1. sendq[c] \in Seq(Sender)
    BY <1>1 DEF Waiting, QueueTypes
  <2>2. CASE c = x
    <3>1. Live(sendq[c]) = {}
      BY <2>2, CommAssumption DEF Empty
    <3>2. sendq'[c] = Rest(sendq[c])
      BY <2>2
    <3>3. Rest(sendq[c]) \in Seq(Sender)
      BY <2>1, RestFacts
    <3>4. Kept(sendq[c], Rest(sendq[c]))
      BY <2>1, <3>1, KeptRest
    <3> QED BY <3>2, <3>3, <3>4
  <2>3. CASE c # x
    <3>1. sendq'[c] = sendq[c]
      BY <2>3
    <3> QED BY <2>1, <3>1, KeptSame
  <2> QED BY <2>2, <2>3
<1>9. sendq' \in [Channels -> Seq(Sender)]
  BY <1>8
<1>10. \A c \in Channels : Joins(Sender, sendq[c], sendq'[c], g)
  BY <1>8, JoinsKept
<1>11. HasNew(recvq'[x], g)
  BY <1>5, <1>6
<1>12. Sched' /\ Waiting' /\ Grows(g)
  BY <1>1, <1>6, <1>7, <1>9, <1>10, <1>11, ParkKeeps
<1>13. DataTypes'
  BY DEF CommInv, DataTypes, sourceVars, tokenVars
<1> QED BY <1>12, <1>13 DEF CommInv, CommStep

LEMMA RecvKeeps ==
  ASSUME CommInv, NEW g \in Goroutines, NEW x \in Sources, Recv(g, x)
  PROVE  CommStep
<1>1. Runs(g)
  BY DEF Recv
<1>2. CASE ReceiveNow(g, x, 0)
  BY <1>1, <1>2, ReceiveNowKeeps
<1>3. CASE ~ ReceiveNow(g, x, 0)
  BY <1>1, <1>3, RecvWaitsKeeps DEF Recv
<1> QED BY <1>2, <1>3

-----------------------------------------------------------------------------
(* Select.                                                                 *)

\* A send case names a channel and an operand, a receive case a source.
LEMMA CaseFacts ==
  ASSUME CommInv, NEW g \in Goroutines, NEW cases \in Selects(g), NEW i \in DOMAIN cases
  PROVE  /\ i \in Nat
         /\ \/ cases[i].dir = "send" /\ cases[i].on \in Channels /\ cases[i].s \in Operand
            \/ cases[i].dir = "recv" /\ cases[i].on \in Sources /\ cases[i].s = NoTok
<1>1. PICK n \in 1..MaxCases : cases \in [1..n -> Cases(g)]
  BY DEF Selects
<1>2. i \in Nat /\ cases[i] \in Cases(g)
  BY <1>1, CommAssumption
<1>3. Sendable(g) \subseteq Operand
  <2>1. \A v \in Values : Raw(g, v) \in Operand
    BY DEF Raw, Operand, Minters, Payloads
  <2>2. DOMAIN loc \subseteq Operand
    BY TokensAreOperands DEF CommInv, DataTypes
  <2> QED BY <2>1, <2>2 DEF Sendable
<1>4. CASE cases[i] \in {SendCase(c, s) : c \in Channels, s \in Sendable(g)}
  BY <1>2, <1>3, <1>4 DEF SendCase
<1>5. CASE cases[i] \in {RecvCase(x) : x \in Sources}
  BY <1>2, <1>5 DEF RecvCase
<1> QED BY <1>2, <1>4, <1>5 DEF Cases

LEMMA SomeCase ==
  ASSUME NEW g, NEW cases \in Selects(g)
  PROVE  1 \in DOMAIN cases
<1>1. PICK n \in 1..MaxCases : cases \in [1..n -> Cases(g)]
  BY DEF Selects
<1> QED BY <1>1, CommAssumption

\* The queues a select parks in.
LEMMA EnqueuedFacts ==
  ASSUME NEW S, NEW D, NEW queue \in [D -> Seq(S)], NEW g, NEW cases, NEW dir,
         \A i \in DOMAIN cases :
           LET w == NextWaiter(g, i, cases[i].s)
           IN  cases[i].dir = dir => w \in S /\ w.g = g /\ w.n = tickets[g] + 1
  PROVE  LET after == Enqueued(queue, g, cases, dir)
         IN  /\ after \in [D -> Seq(S)]
             /\ \A x \in D : Joins(S, queue[x], after[x], g)
             /\ \A i \in DOMAIN cases :
                  cases[i].dir = dir /\ cases[i].on \in D => HasNew(after[cases[i].on], g)
<1> DEFINE after == Enqueued(queue, g, cases, dir)
           Named(x) == \E i \in DOMAIN cases : cases[i].dir = dir /\ cases[i].on = x
           At1(x) == CHOOSE j \in DOMAIN cases : cases[j].dir = dir /\ cases[j].on = x
           New(x) == NextWaiter(g, At1(x), cases[At1(x)].s)
<1>1. /\ DOMAIN after = D
      /\ \A x \in D : after[x] = IF Named(x) THEN Append(queue[x], New(x)) ELSE queue[x]
  BY DEF Enqueued
<1>2. ASSUME NEW x \in D, Named(x)
      PROVE  New(x) \in S /\ New(x).g = g /\ New(x).n = tickets[g] + 1
  <2>1. At1(x) \in DOMAIN cases /\ cases[At1(x)].dir = dir
    BY <1>2
  <2> HIDE DEF At1
  <2> QED BY <2>1
<1> HIDE DEF New, Named, after
<1>3. ASSUME NEW x \in D
      PROVE  /\ after[x] \in Seq(S) /\ Joins(S, queue[x], after[x], g)
             /\ Named(x) => HasNew(after[x], g)
  <2>1. queue[x] \in Seq(S) /\ Kept(queue[x], queue[x])
    BY KeptSame
  <2>2. CASE Named(x)
    <3>1. after[x] = Append(queue[x], New(x))
      BY <1>1, <2>2
    <3>2. New(x) \in S /\ New(x).g = g /\ New(x).n = tickets[g] + 1
      BY <1>2, <2>2
    <3> QED BY <2>1, <3>1, <3>2, JoinsNew
  <2>3. CASE ~ Named(x)
    <3>1. after[x] = queue[x]
      BY <1>1, <2>3
    <3> QED BY <2>1, <2>3, <3>1, JoinsKept
  <2> QED BY <2>2, <2>3
<1>4. after \in [D -> Seq(S)]
  <2>1. after = [x \in D |-> after[x]]
    BY <1>1 DEF after, Enqueued
  <2> QED BY <1>3, <2>1
<1>5. \A i \in DOMAIN cases : cases[i].dir = dir /\ cases[i].on \in D => HasNew(after[cases[i].on], g)
  BY <1>3 DEF Named
<1> QED BY <1>3, <1>4, <1>5 DEF after

LEMMA SelectWaitsKeeps ==
  ASSUME CommInv, NEW g \in Goroutines, NEW cases \in Selects(g), Runs(g),
         sendq' = Enqueued(sendq, g, cases, "send"),
         recvq' = Enqueued(recvq, g, cases, "recv"),
         tickets' = [tickets EXCEPT ![g] = @ + 1],
         Parks(g),
         UNCHANGED <<tokenVars, buf, closed, fired, sourceVars>>
  PROVE  CommStep
<1>1. Sched /\ Waiting
  BY DEF CommInv
<1>2. sendq \in [Channels -> Seq(Sender)] /\ recvq \in [Sources -> Seq(Receiver)]
  BY <1>1 DEF Waiting, QueueTypes
<1>3. ASSUME NEW i \in DOMAIN cases, cases[i].dir = "send"
      PROVE  LET w == NextWaiter(g, i, cases[i].s)
             IN  w \in Sender /\ w.g = g /\ w.n = tickets[g] + 1
  <2>1. i \in Nat /\ cases[i].s \in Operand
    BY <1>3, CaseFacts
  <2> QED BY <1>1, <2>1, NewWaiters
<1>4. ASSUME NEW i \in DOMAIN cases, cases[i].dir = "recv"
      PROVE  LET w == NextWaiter(g, i, cases[i].s)
             IN  w \in Receiver /\ w.g = g /\ w.n = tickets[g] + 1
  <2>1. i \in Nat /\ cases[i].s = NoTok
    BY <1>4, CaseFacts
  <2> QED BY <1>1, <2>1, NewWaiters
<1> DEFINE sends == Enqueued(sendq, g, cases, "send")
           recvs == Enqueued(recvq, g, cases, "recv")
<1>6. /\ sends \in [Channels -> Seq(Sender)]
      /\ \A c \in Channels : Joins(Sender, sendq[c], sends[c], g)
      /\ \A i \in DOMAIN cases :
           cases[i].dir = "send" /\ cases[i].on \in Channels => HasNew(sends[cases[i].on], g)
  BY <1>2, <1>3, EnqueuedFacts
<1>7. /\ recvs \in [Sources -> Seq(Receiver)]
      /\ \A x \in Sources : Joins(Receiver, recvq[x], recvs[x], g)
      /\ \A i \in DOMAIN cases :
           cases[i].dir = "recv" /\ cases[i].on \in Sources => HasNew(recvs[cases[i].on], g)
  BY <1>2, <1>4, EnqueuedFacts
<1> HIDE DEF sends, recvs
<1>8. \/ \E c \in Channels : HasNew(sends[c], g)
      \/ \E x \in Sources : HasNew(recvs[x], g)
  BY <1>6, <1>7, SomeCase, CaseFacts
<1>9. Sched' /\ Waiting' /\ Grows(g)
  BY <1>1, <1>6, <1>7, <1>8, ParkKeeps DEF sends, recvs
<1>10. DataTypes'
  BY DEF CommInv, DataTypes, sourceVars, tokenVars
<1> QED BY <1>9, <1>10 DEF CommInv, CommStep

LEMMA SelectKeeps ==
  ASSUME CommInv, NEW g \in Goroutines, NEW cases \in Selects(g), NEW default \in BOOLEAN,
         Select(g, cases, default)
  PROVE  CommStep
<1>1. Runs(g)
  BY DEF Select
<1>2. ASSUME NEW i \in DOMAIN cases, cases[i].dir = "send",
             SendNow(g, cases[i].on, cases[i].s, i), UNCHANGED sourceVars
      PROVE  CommStep
  <2>1. i \in Nat /\ cases[i].on \in Channels /\ cases[i].s \in Operand
    BY <1>2, CaseFacts
  <2> QED BY <1>1, <1>2, <2>1, SendNowKeeps
<1>3. ASSUME NEW i \in DOMAIN cases, cases[i].dir = "recv", ReceiveNow(g, cases[i].on, i)
      PROVE  CommStep
  <2>1. i \in Nat /\ cases[i].on \in Sources
    BY <1>3, CaseFacts
  <2> QED BY <1>1, <1>3, <2>1, ReceiveNowKeeps
<1>4. CASE /\ Returns(Result(-1, FALSE, NoTok), <<>>)
           /\ UNCHANGED <<tokenVars, chanVars, waitVars, sourceVars>>
  <2>1. Result(-1, FALSE, NoTok) \in Results
    BY DEF Result, Results
  <2> QED BY <1>1, <1>4, <2>1, LooksOnly
<1>5. CASE /\ sendq' = Enqueued(sendq, g, cases, "send")
           /\ recvq' = Enqueued(recvq, g, cases, "recv")
           /\ tickets' = [tickets EXCEPT ![g] = @ + 1]
           /\ Parks(g)
           /\ UNCHANGED <<tokenVars, buf, closed, fired, sourceVars>>
  BY <1>1, <1>5, SelectWaitsKeeps
<1> QED BY <1>2, <1>3, <1>4, <1>5 DEF Select

-----------------------------------------------------------------------------
(* close, make, cancel, deadlines.                                         *)

\* The receivers a close wakes: one entry for each live waiter.
LEMMA WokenFacts ==
  ASSUME Waiting, halted = "no", NEW x \in Sources, NEW order \in QueueOrder(recvq[x]),
         NEW ok \in BOOLEAN, NEW ws, ws = EntriesOf(recvq[x], order, ok)
  PROVE  /\ ws \in Seq(Entries)
         /\ Distinct(ws)
         /\ \A h \in Names(ws) : h \in Goroutines /\ status[h] = "blocked"
         /\ {<<h, tickets[h]>> : h \in Names(ws)} = {Shared(recvq[x][k]) : k \in Live(recvq[x])}
<1> DEFINE q == recvq[x]
           n == Len(order)
<1>1. q \in Seq(Receiver) /\ Len(q) \in Nat /\ DOMAIN q = 1..Len(q)
  BY SeqDomain DEF Waiting, QueueTypes
<1>2. IsFiniteSet(Live(q))
  <2>1. IsFiniteSet(1..Len(q))
    BY <1>1, FS_Interval
  <2>2. Live(q) \subseteq 1..Len(q)
    BY <1>1 DEF Live
  <2> QED BY <2>1, <2>2, FS_Subset
<1>3. /\ order \in Seq(Live(q))
      /\ DOMAIN order = 1..n
      /\ \A i, j \in DOMAIN order : order[i] = order[j] => i = j
      /\ \A k \in Live(q) : \E i \in DOMAIN order : order[i] = k
      /\ \A i \in DOMAIN order : order[i] \in Live(q)
  <2>1. order \in Orders(Live(q))
    BY DEF QueueOrder
  <2> QED BY <1>2, <2>1, OrdersProperties
<1>4. n \in Nat
  BY <1>3, LenProperties
<1>5. ASSUME NEW k \in Live(q)
      PROVE  /\ q[k].g \in Goroutines /\ q[k].i \in Int
             /\ Shared(q[k]) = <<q[k].g, tickets[q[k].g]>>
             /\ status[q[k].g] = "blocked"
             /\ k \in DOMAIN q
  <2>1. k \in DOMAIN q /\ Shared(q[k]) \notin fired
    BY DEF Live
  <2>2. q[k].i \in Int
    BY <2>1, ReceiversAreKnown DEF Receiver
  <2>3. /\ q[k].g \in Goroutines /\ q[k].n \in Nat \ {0} /\ q[k].n <= tickets[q[k].g]
        /\ Shared(q[k]) = <<q[k].g, q[k].n>>
    BY <2>1, ReceiversAreKnown
  <2>4. q[k].n = tickets[q[k].g] /\ status[q[k].g] = "blocked"
    BY <2>1, <2>3, LiveIsBlocked
  <2> QED BY <2>1, <2>2, <2>3, <2>4
<1>6. Once(q)
  BY DEF Waiting, OldTickets
<1>7. ws = [k \in 1..n |-> Entry(q[order[k]].g, Result(q[order[k]].i, ok, NoTok))]
  BY <1>3 DEF EntriesOf
<1> HIDE DEF q, n
<1>8. ASSUME NEW k \in 1..n
      PROVE  ws[k] \in Entries /\ ws[k].g = q[order[k]].g
  <2>1. ws[k] = Entry(q[order[k]].g, Result(q[order[k]].i, ok, NoTok))
    BY <1>7
  <2>2. Result(q[order[k]].i, ok, NoTok) \in Results
    BY <1>3, <1>5, ResultFacts
  <2> QED BY <1>3, <1>5, <2>1, <2>2 DEF Entry, Entries
<1>9. ws \in Seq(Entries) /\ DOMAIN ws = 1..n
  BY <1>4, <1>7, <1>8
<1>10. Distinct(ws)
  <2> SUFFICES ASSUME NEW a \in 1..n, NEW b \in 1..n, ws[a].g = ws[b].g
               PROVE  a = b
    BY <1>9 DEF Distinct
  <2>1. order[a] \in Live(q) /\ order[b] \in Live(q) /\ q[order[a]].g = q[order[b]].g
    BY <1>3, <1>8
  <2>2. Shared(q[order[a]]) = Shared(q[order[b]]) /\ order[a] \in DOMAIN q /\ order[b] \in DOMAIN q
    BY <1>5, <2>1
  <2>3. order[a] = order[b]
    BY <1>6, <2>2 DEF Once
  <2> QED BY <1>3, <2>3
<1>11. Names(ws) = {q[k].g : k \in Live(q)}
  <2>1. ASSUME NEW k \in Live(q) PROVE q[k].g \in Names(ws)
    <3>1. PICK i \in 1..n : order[i] = k
      BY <1>3
    <3> QED BY <1>8, <1>9, <3>1 DEF Names
  <2>2. ASSUME NEW i \in 1..n PROVE ws[i].g \in {q[k].g : k \in Live(q)}
    BY <1>3, <1>8
  <2> QED BY <1>9, <2>1, <2>2 DEF Names
<1>12. \A h \in Names(ws) : h \in Goroutines /\ status[h] = "blocked"
  BY <1>5, <1>11
<1>13. {<<h, tickets[h]>> : h \in Names(ws)} = {Shared(q[k]) : k \in Live(q)}
  BY <1>5, <1>11
<1> QED BY <1>9, <1>10, <1>12, <1>13 DEF q

\* A step that fires all the live waiters of x.
LEMMA AllFire ==
  ASSUME Waiting, halted = "no", NEW x \in Sources, UNCHANGED tickets,
         fired' = fired \cup {Shared(recvq[x][k]) : k \in Live(recvq[x])},
         sendq' \in [Channels -> Seq(Sender)], \A d \in Channels : Kept(sendq[d], sendq'[d]),
         recvq' = [recvq EXCEPT ![x] = <<>>]
  PROVE  KeptAll /\ QueueTypes'
<1>1. \A k \in Live(recvq[x]) : Shared(recvq[x][k]) \in Goroutines \X (Nat \ {0})
  <2> SUFFICES ASSUME NEW k \in Live(recvq[x])
               PROVE  Shared(recvq[x][k]) \in Goroutines \X (Nat \ {0})
    OBVIOUS
  <2>1. k \in DOMAIN recvq[x]
    BY DEF Live
  <2> QED BY <2>1, ReceiversAreKnown
<1>2. recvq' \in [Sources -> Seq(Receiver)] /\ \A y \in Sources : Kept(recvq[y], recvq'[y])
  <2>1. fired \subseteq fired' /\ \A k \in Live(recvq[x]) : Shared(recvq[x][k]) \in fired'
    OBVIOUS
  <2> QED BY <2>1, ReceiversGone
<1>3. QueueTypes'
  BY <1>1, <1>2 DEF Waiting, QueueTypes
<1> QED BY <1>2, <1>3 DEF KeptAll

LEMMA ContextEnds ==
  ASSUME CommInv, halted = "no", NEW cx \in Contexts, NEW order \in QueueOrder(recvq[cx]),
         Finishes(cx), Wakes(EntriesOf(recvq[cx], order, FALSE)),
         UNCHANGED <<cur, halted, errors>>, input' \in Results
  PROVE  CommStep
<1> DEFINE ws == EntriesOf(recvq[cx], order, FALSE)
<1>1. Sched /\ Waiting /\ cx \in Sources
  BY ChannelsAreSources DEF CommInv
<1>2. /\ ws \in Seq(Entries)
      /\ Distinct(ws)
      /\ \A h \in Names(ws) : h \in Goroutines /\ status[h] = "blocked"
      /\ {<<h, tickets[h]>> : h \in Names(ws)} = {Shared(recvq[cx][k]) : k \in Live(recvq[cx])}
  BY <1>1, WokenFacts
<1>3. /\ done' = [done EXCEPT ![cx] = TRUE]
      /\ fired' = fired \cup {Shared(recvq[cx][k]) : k \in Live(recvq[cx])}
      /\ recvq' = [recvq EXCEPT ![cx] = <<>>]
      /\ UNCHANGED <<tickets, timer, pending, loc, born, buf, closed, sendq>>
  BY DEF Finishes, tokenVars, chanVars
<1>4. sendq' \in [Channels -> Seq(Sender)] /\ \A d \in Channels : Kept(sendq[d], sendq'[d])
  BY <1>1, <1>3, SendersStay
<1>5. KeptAll /\ QueueTypes'
  BY <1>1, <1>3, <1>4, AllFire
<1>6. Wakes(ws)
  OBVIOUS
<1> HIDE DEF ws
<1>7. fired' = fired \cup {<<h, tickets[h]>> : h \in Names(ws)}
  BY <1>2, <1>3
<1>8. Sched' /\ Waiting'
  BY <1>1, <1>2, <1>3, <1>5, <1>6, <1>7, WakeStep
<1>9. DataTypes'
  BY <1>3 DEF CommInv, DataTypes
<1> QED BY <1>3, <1>5, <1>8, <1>9, ShrinkStep

LEMMA CancelKeeps ==
  ASSUME CommInv, NEW g \in Goroutines, NEW cx \in Contexts, Cancel(g, cx)
  PROVE  CommStep
<1>1. Runs(g)
  BY DEF Cancel
<1>2. CASE done[cx]
  BY <1>1, <1>2, UnitIsAResult, LooksOnly DEF Cancel
<1>3. CASE ~ done[cx]
  <2>1. PICK order \in QueueOrder(recvq[cx]) :
          /\ Finishes(cx)
          /\ Returns(Unit, EntriesOf(recvq[cx], order, FALSE))
    BY <1>3 DEF Cancel
  <2>2. /\ halted = "no" /\ Wakes(EntriesOf(recvq[cx], order, FALSE))
        /\ UNCHANGED <<cur, halted, errors>> /\ input' \in Results
    BY <1>1, <2>1, UnitIsAResult DEF Returns, Runs
  <2> QED BY <2>1, <2>2, ContextEnds
<1> QED BY <1>2, <1>3

LEMMA FireContextKeeps ==
  ASSUME CommInv, NEW cx \in Contexts, FireContext(cx)
  PROVE  CommStep
<1>1. PICK order \in QueueOrder(recvq[cx]) :
        Finishes(cx) /\ Wakes(EntriesOf(recvq[cx], order, FALSE))
  BY DEF FireContext
<1>2. halted = "no" /\ UNCHANGED <<cur, halted, errors>> /\ input' \in Results
  BY DEF FireContext, Idle, CommInv, Sched, RunTypes
<1> QED BY <1>1, <1>2, ContextEnds

LEMMA RemakeKeeps ==
  ASSUME CommInv, NEW g \in Goroutines, NEW c \in Channels, Remake(g, c)
  PROVE  CommStep
<1>1. Runs(g) /\ halted = "no" /\ UNCHANGED sourceVars
  BY DEF Remake, Runs
<1>2. CASE Fatal /\ UNCHANGED <<tokenVars, chanVars, waitVars>>
  BY <1>1, <1>2, FatalKeeps
<1>3. CASE /\ Live(sendq[c]) = {} /\ Live(recvq[c]) = {}
           /\ loc' = Without(loc, {buf[c][k] : k \in DOMAIN buf[c]})
           /\ buf' = [buf EXCEPT ![c] = <<>>]
           /\ closed' = [closed EXCEPT ![c] = FALSE]
           /\ sendq' = [sendq EXCEPT ![c] = <<>>]
           /\ recvq' = [recvq EXCEPT ![c] = <<>>]
           /\ Returns(Unit, <<>>)
           /\ UNCHANGED <<born, tickets, fired>>
  <2>1. Sched /\ Waiting /\ c \in Sources /\ fired \subseteq fired'
    BY <1>3, ChannelsAreSources DEF CommInv
  <2>2. sendq' \in [Channels -> Seq(Sender)] /\ \A d \in Channels : Kept(sendq[d], sendq'[d])
    BY <1>3, <2>1, SendersGone
  <2>3. recvq' \in [Sources -> Seq(Receiver)] /\ \A x \in Sources : Kept(recvq[x], recvq'[x])
    BY <1>3, <2>1, ReceiversGone
  <2>4. KeptAll /\ QueueTypes'
    BY <1>3, <2>1, <2>2, <2>3, NothingFires
  <2>5. Sched' /\ Waiting'
    BY <1>1, <1>3, <2>1, <2>4, UnitIsAResult, QuietStep
  <2>6. DOMAIN loc' \subseteq Token
    BY <1>3, PlaceFacts DEF CommInv, DataTypes
  <2>7. DataTypes'
    BY <1>1, <1>3, <2>6, EmptySeq DEF CommInv, DataTypes, sourceVars
  <2> QED BY <1>3, <2>4, <2>5, <2>7, ShrinkStep
<1> QED BY <1>2, <1>3 DEF Remake

LEMMA CloseKeeps ==
  ASSUME CommInv, NEW g \in Goroutines, NEW c \in Channels, Close(g, c)
  PROVE  CommStep
<1> DEFINE rs == {Shared(recvq[c][k]) : k \in Live(recvq[c])}
           ss == {Shared(sendq[c][k]) : k \in Live(sendq[c])}
           stuck == {k \in Live(sendq[c]) :
                       \A j \in Live(recvq[c]) : Shared(recvq[c][j]) # Shared(sendq[c][k])}
<1>1. Sched /\ Waiting /\ c \in Sources /\ halted = "no" /\ Runs(g)
  BY ChannelsAreSources DEF CommInv, Close, Runs
<1>2. UNCHANGED <<tokenVars, sourceVars>>
  BY DEF Close
<1>3. CASE closed[c]
  <2>1. Panics(g, <<>>) /\ UNCHANGED <<chanVars, waitVars>>
    BY <1>3 DEF Close
  <2>2. Sched'
    BY <1>1, <2>1, EmptyEntries, PanicsReady
  <2>3. KeptAll /\ QueueTypes' /\ UNCHANGED <<tickets, fired>>
    BY <1>1, <2>1, StillKept DEF chanVars, waitVars
  <2>4. halted' # "no"
    BY <2>1 DEF Panics
  <2>5. Waiting'
    BY <1>1, <2>3, <2>4, StopStep
  <2>6. DataTypes'
    BY <1>2, <2>1 DEF CommInv, DataTypes, tokenVars, chanVars, sourceVars
  <2> QED BY <2>2, <2>3, <2>5, <2>6, ShrinkStep
<1>4. CASE ~ closed[c]
  <2>1. /\ closed' = [closed EXCEPT ![c] = TRUE]
        /\ fired' = fired \cup rs \cup ss
        /\ recvq' = [recvq EXCEPT ![c] = <<>>]
        /\ sendq' = [sendq EXCEPT ![c] = <<>>]
        /\ UNCHANGED <<buf, tickets>>
    BY <1>4 DEF Close
  <2>2. PICK order \in QueueOrder(recvq[c]) :
          LET woken == EntriesOf(recvq[c], order, FALSE)
          IN  IF stuck = {} THEN Returns(Unit, woken)
              ELSE Panics(sendq[c][CHOOSE k \in stuck : \A j \in stuck : k <= j].g, woken)
    BY <1>4 DEF Close
  <2> DEFINE woken == EntriesOf(recvq[c], order, FALSE)
  <2>3. /\ woken \in Seq(Entries)
        /\ Distinct(woken)
        /\ \A h \in Names(woken) : h \in Goroutines /\ status[h] = "blocked"
        /\ {<<h, tickets[h]>> : h \in Names(woken)} = rs
    BY <1>1, WokenFacts
  <2>4. ASSUME NEW k \in Live(sendq[c])
        PROVE  /\ Shared(sendq[c][k]) \in Goroutines \X (Nat \ {0})
               /\ Shared(sendq[c][k])[2] <= tickets[Shared(sendq[c][k])[1]]
               /\ sendq[c][k].g \in Goroutines
               /\ k \in Nat
    <3>1. k \in DOMAIN sendq[c] /\ sendq[c] \in Seq(Sender)
      BY <1>1 DEF Live, Waiting, QueueTypes
    <3> QED BY <1>1, <3>1, SeqDomain, SendersAreKnown
  <2>5. ASSUME NEW k \in Live(recvq[c])
        PROVE  /\ Shared(recvq[c][k]) \in Goroutines \X (Nat \ {0})
               /\ Shared(recvq[c][k])[2] <= tickets[Shared(recvq[c][k])[1]]
    <3>1. k \in DOMAIN recvq[c]
      BY DEF Live
    <3> QED BY <1>1, <3>1, ReceiversAreKnown
  <2>6. \A id \in fired' \ fired : id[2] <= tickets[id[1]]
    BY <2>1, <2>4, <2>5
  <2>7. sendq' \in [Channels -> Seq(Sender)] /\ \A d \in Channels : Kept(sendq[d], sendq'[d])
    BY <1>1, <2>1, SendersGone
  <2>8. recvq' \in [Sources -> Seq(Receiver)] /\ \A x \in Sources : Kept(recvq[x], recvq'[x])
    BY <1>1, <2>1, ReceiversGone
  <2>9. fired' \subseteq Goroutines \X (Nat \ {0})
    BY <1>1, <2>1, <2>4, <2>5 DEF Waiting, QueueTypes
  <2>10. KeptAll /\ QueueTypes'
    BY <1>1, <2>1, <2>7, <2>8, <2>9 DEF KeptAll, Waiting, QueueTypes
  <2>11. DataTypes'
    BY <1>2, <2>1 DEF CommInv, DataTypes, tokenVars, sourceVars
  <2>12. CASE stuck = {}
    <3>1. Returns(Unit, woken)
      BY <2>2, <2>12
    <3>2. ss \subseteq rs
      BY <2>12
    <3> HIDE DEF woken, rs, ss, stuck
    <3>3. fired' = fired \cup {<<h, tickets[h]>> : h \in Names(woken)}
      BY <2>1, <2>3, <3>2
    <3>4. Wakes(woken) /\ UNCHANGED <<cur, halted, errors>> /\ input' \in Results
      BY <3>1, UnitIsAResult DEF Returns
    <3>5. Sched' /\ Waiting'
      BY <1>1, <2>1, <2>3, <2>10, <3>3, <3>4, WakeStep
    <3> QED BY <2>1, <2>10, <2>11, <3>5, ShrinkStep
  <2>13. CASE stuck # {}
    <3> DEFINE first == CHOOSE k \in stuck : \A j \in stuck : k <= j
    <3>1. stuck \subseteq Nat
      BY <2>4
    <3>2. first \in stuck
      BY <2>13, <3>1, LeastNumber
    <3>3. sendq[c][first].g \in Goroutines
      BY <2>4, <3>2
    <3>4. Panics(sendq[c][first].g, woken)
      BY <2>2, <2>13
    <3> HIDE DEF woken, rs, ss, stuck, first
    <3>5. Sched'
      BY <1>1, <2>3, <3>3, <3>4, PanicsReady
    <3>6. halted' # "no"
      BY <3>4 DEF Panics
    <3>7. Waiting'
      BY <1>1, <2>1, <2>6, <2>10, <3>6, StopStep
    <3> QED BY <2>1, <2>10, <2>11, <3>5, <3>7, ShrinkStep
  <2> QED BY <2>12, <2>13
<1> QED BY <1>3, <1>4

(* Timers.                                                                 *)

LEMMA TimerOpKeeps ==
  ASSUME CommInv, NEW g \in Goroutines, NEW op \in {"start", "reset", "stop"}, NEW tm \in Timers,
         TimerOp(g, op, tm)
  PROVE  CommStep
<1>1. /\ Runs(g)
      /\ loc' = Without(loc, {pending[tm]})
      /\ pending' = [pending EXCEPT ![tm] = NoTok]
      /\ timer' = [timer EXCEPT ![tm] = IF op = "stop" THEN "stopped" ELSE "running"]
      /\ Returns(Unit, <<>>)
      /\ UNCHANGED <<born, done, buf, closed, sendq, recvq, tickets, fired>>
  BY DEF TimerOp, chanVars, waitVars
<1>2. Sched /\ Waiting /\ DataTypes
  BY DEF CommInv
<1>3. KeptAll /\ QueueTypes'
  BY <1>1, <1>2, StillKept
<1>4. Sched' /\ Waiting'
  BY <1>1, <1>2, <1>3, UnitIsAResult, QuietStep
<1>5. DOMAIN loc' \subseteq Token
  BY <1>1, <1>2, PlaceFacts DEF DataTypes
<1>6. timer' \in [Timers -> {"idle", "running", "fired", "stopped"}]
  BY <1>1, <1>2 DEF DataTypes
<1>7. pending' \in [Timers -> Token \cup {NoTok}]
  BY <1>1, <1>2 DEF DataTypes
<1>8. DataTypes'
  BY <1>1, <1>2, <1>5, <1>6, <1>7 DEF DataTypes
<1> QED BY <1>1, <1>3, <1>4, <1>8, ShrinkStep

LEMMA FireTimerKeeps ==
  ASSUME CommInv, NEW tm \in Timers, FireTimer(tm)
  PROVE  CommStep
<1> DEFINE tick == TokenOf(Raw(tm, Nil))
           r == Popped(recvq[tm])
<1>1. Sched /\ Waiting /\ DataTypes /\ halted = "no" /\ tm \in Sources
  BY ChannelsAreSources DEF CommInv, FireTimer, Idle
<1>2. born \in [Minters -> Nat] /\ Raw(tm, Nil) \in Operand /\ DOMAIN loc \subseteq Token
  BY <1>1 DEF DataTypes, Raw, Operand, Minters, Payloads
<1>3. tick \in Token /\ Minted(Raw(tm, Nil)) \in [Minters -> Nat]
  BY <1>2, TokenFacts
<1>4. /\ timer' = [timer EXCEPT ![tm] = "fired"]
      /\ born' = Minted(Raw(tm, Nil))
      /\ recvq' = [recvq EXCEPT ![tm] = Rest(@)]
      /\ UNCHANGED <<cur, input, halted, errors, tickets, done, buf, closed, sendq>>
  BY DEF FireTimer, chanVars
<1>5. timer' \in [Timers -> {"idle", "running", "fired", "stopped"}]
  BY <1>1, <1>4 DEF DataTypes
<1>6. input' \in Results
  BY <1>1, <1>4 DEF Sched, RunTypes
<1>7. sendq' \in [Channels -> Seq(Sender)] /\ \A d \in Channels : Kept(sendq[d], sendq'[d])
  BY <1>1, <1>4, SendersStay
<1>8. CASE Live(recvq[tm]) # {}
  <2>1. /\ fired' = fired \cup {Shared(r)}
        /\ loc' = Moved(DropHeld(loc, r.g), tick, At(r.g))
        /\ Wakes(<<Entry(r.g, Result(r.i, TRUE, tick))>>)
        /\ UNCHANGED pending
    BY <1>8 DEF FireTimer
  <2>2. r \in Receiver /\ r.g \in Goroutines /\ Shared(r) = <<r.g, tickets[r.g]>> /\ status[r.g] = "blocked"
    BY <1>1, <1>8, PoppedReceiver
  <2>3. recvq' \in [Sources -> Seq(Receiver)] /\ \A x \in Sources : Kept(recvq[x], recvq'[x])
    BY <1>1, <1>4, <2>1, ReceiversRest
  <2> HIDE DEF r, tick
  <2>4. fired' = fired \cup {<<r.g, tickets[r.g]>>}
    BY <2>1, <2>2
  <2>5. KeptAll /\ QueueTypes'
    BY <1>1, <1>4, <1>7, <2>2, <2>3, <2>4, OneFires
  <2>6. Result(r.i, TRUE, tick) \in Results
    <3>1. r.i \in Int
      BY <2>2 DEF Receiver
    <3> QED BY <1>3, <3>1, ResultFacts
  <2> DEFINE ws == <<Entry(r.g, Result(r.i, TRUE, tick))>>
  <2>7. ws \in Seq(Entries) /\ Distinct(ws) /\ Names(ws) = {r.g}
    BY <2>2, <2>6, OneEntry
  <2>8. Wakes(ws)
    BY <2>1
  <2> HIDE DEF ws
  <2>9. fired' = fired \cup {<<h, tickets[h]>> : h \in Names(ws)}
    BY <2>4, <2>7
  <2>10. \A h \in Names(ws) : h \in Goroutines /\ status[h] = "blocked"
    BY <2>2, <2>7
  <2>11. Sched' /\ Waiting'
    BY <1>1, <1>4, <1>6, <2>5, <2>7, <2>8, <2>9, <2>10, WakeStep
  <2>12. DOMAIN loc' \subseteq Token
    BY <1>2, <1>3, <2>1, PlaceFacts
  <2>13. DataTypes'
    BY <1>1, <1>3, <1>4, <1>5, <2>1, <2>12 DEF DataTypes
  <2> QED BY <1>4, <2>4, <2>5, <2>11, <2>13, ShrinkStep
<1>9. CASE Live(recvq[tm]) = {}
  <2>1. /\ loc' = Moved(loc, tick, At(tm))
        /\ pending' = [pending EXCEPT ![tm] = tick]
        /\ Wakes(<<>>)
        /\ UNCHANGED fired
    BY <1>9 DEF FireTimer
  <2>2. recvq' \in [Sources -> Seq(Receiver)] /\ \A x \in Sources : Kept(recvq[x], recvq'[x])
    BY <1>1, <1>4, <1>9, <2>1, ReceiversRest
  <2>3. KeptAll /\ QueueTypes'
    BY <1>1, <1>4, <1>7, <2>1, <2>2, NothingFires
  <2> HIDE DEF r, tick
  <2>4. /\ <<>> \in Seq(Entries)
        /\ Distinct(<<>>)
        /\ Names(<<>>) = {}
    BY EmptyEntries
  <2>5. Sched'
    BY <1>1, <1>4, <1>6, <2>1, <2>4, WakesReady
  <2>6. status' = status
    BY <1>1, <2>1 DEF Wakes, Sched, RunTypes
  <2>7. Waiting'
    BY <1>1, <1>4, <2>1, <2>3, <2>6, CalmStep
  <2>8. DOMAIN loc' \subseteq Token
    BY <1>2, <1>3, <2>1, PlaceFacts
  <2>9. pending' \in [Timers -> Token \cup {NoTok}]
    BY <1>1, <1>3, <2>1 DEF DataTypes
  <2>10. DataTypes'
    BY <1>1, <1>3, <1>4, <1>5, <2>8, <2>9 DEF DataTypes
  <2> QED BY <1>4, <2>1, <2>3, <2>5, <2>7, <2>10, ShrinkStep
<1> QED BY <1>8, <1>9

-----------------------------------------------------------------------------
(* Starting, ending and resuming goroutines.                               *)

LEMMA GoKeeps ==
  ASSUME CommInv, NEW g \in Goroutines, NEW members \in SUBSET Goroutines, Go(g, members),
         UNCHANGED <<chanVars, waitVars, sourceVars>>
  PROVE  CommStep
<1>1. Sched /\ Waiting /\ halted = "no" /\ UNCHANGED tokenVars
  BY DEF CommInv, Go, Runs
<1>2. CASE Fatal
  BY <1>1, <1>2, FatalKeeps
<1>3. CASE /\ \A m \in members : status[m] = "idle"
           /\ \E order \in Orders(members) :
                Returns(Unit, [k \in DOMAIN order |-> Entry(order[k], Unit)])
  <2>1. PICK order \in Orders(members) :
          Returns(Unit, [k \in DOMAIN order |-> Entry(order[k], Unit)])
    BY <1>3
  <2> DEFINE ws == [k \in DOMAIN order |-> Entry(order[k], Unit)]
  <2>2. IsFiniteSet(members)
    BY FS_Subset, SchedAssumption
  <2>3. Names(ws) = members
    BY <2>2, OrderedEntries
  <2>4. Wakes(ws)
    BY <2>1 DEF Returns
  <2> HIDE DEF ws
  <2>5. \A h \in Goroutines : status'[h] = IF h \in Names(ws) THEN "running" ELSE status[h]
    BY <2>4 DEF Wakes, Names
  <2>6. \A h \in Goroutines : status'[h] = "blocked" <=> status[h] = "blocked"
    BY <1>3, <2>3, <2>5
  <2>7. Sched'
    BY <1>1, GoReady
  <2>8. UNCHANGED <<sendq, recvq, tickets, fired>>
    BY DEF chanVars, waitVars
  <2>9. KeptAll /\ QueueTypes'
    BY <1>1, <2>8, StillKept
  <2>10. Waiting'
    BY <1>1, <2>6, <2>8, <2>9, CalmStep
  <2>11. DataTypes'
    BY <1>1 DEF CommInv, DataTypes, tokenVars, chanVars, sourceVars
  <2> QED BY <2>7, <2>8, <2>9, <2>10, <2>11, ShrinkStep
<1> QED BY <1>2, <1>3 DEF Go

LEMMA FinishKeeps ==
  ASSUME CommInv, NEW g \in Goroutines, Finish(g), UNCHANGED <<chanVars, waitVars, sourceVars>>
  PROVE  CommStep
<1>1. Sched /\ Waiting /\ halted = "no"
  BY DEF CommInv, Finish, Runs
<1>2. Sched'
  BY <1>1, FinishReady
<1>3. status[g] = "running"
  BY NilIsNoGoroutine DEF CommInv, Sched, ReadyExact, Finish, Runs
<1>4. \A h \in Goroutines : status'[h] = "blocked" <=> status[h] = "blocked"
  BY <1>1, <1>3 DEF Finish, Sched, RunTypes
<1>5. UNCHANGED <<sendq, recvq, tickets, fired>>
  BY DEF chanVars, waitVars
<1>6. KeptAll /\ QueueTypes'
  BY <1>1, <1>5, StillKept
<1>7. Waiting'
  BY <1>1, <1>4, <1>5, <1>6, CalmStep
<1>8. DOMAIN loc' \subseteq Token
  BY PlaceFacts DEF CommInv, DataTypes, Finish
<1>9. DataTypes'
  BY <1>8 DEF CommInv, DataTypes, Finish, chanVars, sourceVars
<1> QED BY <1>2, <1>5, <1>6, <1>7, <1>9, ShrinkStep

LEMMA PanicKeeps ==
  ASSUME CommInv, NEW g \in Goroutines, Panic(g), UNCHANGED <<chanVars, waitVars, sourceVars>>
  PROVE  CommStep
<1>1. Sched /\ Waiting /\ halted = "no" /\ Panics(g, <<>>)
  BY DEF CommInv, Panic, Runs
<1>2. Sched'
  BY <1>1, EmptyEntries, PanicsReady
<1>3. UNCHANGED <<sendq, recvq, tickets, fired>>
  BY DEF chanVars, waitVars
<1>4. KeptAll /\ QueueTypes'
  BY <1>1, <1>3, StillKept
<1>5. halted' # "no"
  BY <1>1 DEF Panics
<1>6. Waiting'
  BY <1>1, <1>3, <1>4, <1>5, StopStep
<1>7. DataTypes'
  BY DEF CommInv, DataTypes, Panic, tokenVars, chanVars, sourceVars
<1> QED BY <1>2, <1>3, <1>4, <1>6, <1>7, ShrinkStep

LEMMA ResumeKeeps ==
  ASSUME CommInv, Resume, UNCHANGED <<chanVars, waitVars, sourceVars>>
  PROVE  CommStep
<1>1. Sched /\ Waiting /\ halted = "no"
  BY DEF CommInv, Resume, Idle
<1>2. Sched' /\ status' = status
  BY <1>1, ResumeReady
<1>3. UNCHANGED <<sendq, recvq, tickets, fired>>
  BY DEF chanVars, waitVars
<1>4. KeptAll /\ QueueTypes'
  BY <1>1, <1>3, StillKept
<1>5. Waiting'
  BY <1>1, <1>2, <1>3, <1>4, CalmStep
<1>6. DataTypes'
  BY DEF CommInv, DataTypes, Resume, tokenVars, chanVars, sourceVars
<1> QED BY <1>2, <1>3, <1>4, <1>5, <1>6, ShrinkStep

-----------------------------------------------------------------------------
(* The invariant of the specification.                                     *)

LEMMA InitKeeps ==
  ASSUME CommInit
  PROVE  CommInv
<1>1. Sched
  BY InitReady DEF CommInit
<1>2. DataTypes
  <2>1. \A m \in Mutexes : KeyOf(m) \in Token
    BY DEF KeyOf, Token, Minters, Payloads
  <2>2. DOMAIN loc \subseteq Token
    BY <2>1 DEF CommInit, SchedInit
  <2>3. born \in [Minters -> Nat]
    BY DEF CommInit, SchedInit
  <2> QED BY <2>2, <2>3, EmptySeq DEF CommInit, DataTypes
<1>3. QueueTypes
  BY EmptySeq DEF CommInit, QueueTypes
<1>4. OldTickets
  BY DEF CommInit, OldTickets, Once, Known
<1>5. \A g \in Goroutines : status[g] # "blocked" /\ tickets[g] = 0
  BY DEF CommInit, SchedInit
<1>6. FiresOnce
  <2>1. \A g \in Goroutines : 1..tickets[g] = {}
    BY <1>5
  <2> QED BY <2>1 DEF FiresOnce
<1>7. BlockedWait
  BY <1>5 DEF BlockedWait
<1> QED BY <1>1, <1>2, <1>3, <1>4, <1>6, <1>7 DEF CommInv, Waiting

LEMMA OperationKeeps ==
  ASSUME CommInv, NEW g \in Goroutines, Operation(g)
  PROVE  CommStep
<1>1. Sendable(g) \subseteq Operand
  <2>1. \A v \in Values : Raw(g, v) \in Operand
    BY DEF Raw, Operand, Minters, Payloads
  <2>2. DOMAIN loc \subseteq Operand
    BY TokensAreOperands DEF CommInv, DataTypes
  <2> QED BY <2>1, <2>2 DEF Sendable
<1>2. ASSUME NEW c \in Channels, NEW s \in Sendable(g), Send(g, c, s)
      PROVE  CommStep
  BY <1>1, <1>2, SendKeeps
<1>3. ASSUME NEW c \in Channels, NEW s \in Sendable(g), Notify(g, c, s)
      PROVE  CommStep
  BY <1>1, <1>3, NotifyKeeps
<1>4. ASSUME NEW x \in Sources, Recv(g, x)
      PROVE  CommStep
  BY <1>4, RecvKeeps
<1>5. ASSUME NEW cases \in Selects(g), NEW default \in BOOLEAN, Select(g, cases, default)
      PROVE  CommStep
  BY <1>5, SelectKeeps
<1>6. ASSUME NEW c \in Channels, Close(g, c)
      PROVE  CommStep
  BY <1>6, CloseKeeps
<1>7. ASSUME NEW c \in Channels, Remake(g, c)
      PROVE  CommStep
  BY <1>7, RemakeKeeps
<1>8. ASSUME NEW cx \in Contexts, Cancel(g, cx)
      PROVE  CommStep
  BY <1>8, CancelKeeps
<1>9. ASSUME NEW members \in SUBSET Goroutines \ {{}}, Go(g, members),
             UNCHANGED <<chanVars, waitVars, sourceVars>>
      PROVE  CommStep
  BY <1>9, GoKeeps
<1>10. CASE Finish(g) /\ UNCHANGED <<chanVars, waitVars, sourceVars>>
  BY <1>10, FinishKeeps
<1>11. CASE Panic(g) /\ UNCHANGED <<chanVars, waitVars, sourceVars>>
  BY <1>11, PanicKeeps
<1> QED
  BY <1>2, <1>3, <1>4, <1>5, <1>6, <1>7, <1>8, <1>9, <1>10, <1>11 DEF Operation

\* Only the goroutine that has the floor operates.
LEMMA OperationRuns ==
  ASSUME NEW g, Operation(g)
  PROVE  Runs(g)
<1>1. \A c, s : Send(g, c, s) => Runs(g)
  BY DEF Send
<1>2. \A c, s : Notify(g, c, s) => Runs(g)
  BY DEF Notify
<1>3. \A x : Recv(g, x) => Runs(g)
  BY DEF Recv
<1>4. \A cases, default : Select(g, cases, default) => Runs(g)
  BY DEF Select
<1>5. \A c : Close(g, c) => Runs(g)
  BY DEF Close
<1>6. \A c : Remake(g, c) => Runs(g)
  BY DEF Remake
<1>7. \A cx : Cancel(g, cx) => Runs(g)
  BY DEF Cancel
<1>8. \A members : Go(g, members) => Runs(g)
  BY DEF Go
<1>9. Finish(g) \/ Panic(g) => Runs(g)
  BY DEF Finish, Panic
<1> QED BY <1>1, <1>2, <1>3, <1>4, <1>5, <1>6, <1>7, <1>8, <1>9 DEF Operation

LEMMA StepKeeps == CommInv /\ [CommNext]_commVars => CommStep
<1> SUFFICES ASSUME CommInv, [CommNext]_commVars
             PROVE  CommStep
  OBVIOUS
<1>1. CASE Resume /\ UNCHANGED <<chanVars, waitVars, sourceVars>>
  BY <1>1, ResumeKeeps
<1>2. ASSUME NEW g \in Goroutines, Operation(g)
      PROVE  CommStep
  BY <1>2, OperationKeeps
<1>3. ASSUME NEW g \in Goroutines, NEW op \in {"start", "reset", "stop"}, NEW tm \in Timers,
             TimerOp(g, op, tm)
      PROVE  CommStep
  BY <1>3, TimerOpKeeps
<1>4. ASSUME NEW cx \in Contexts, FireContext(cx)
      PROVE  CommStep
  BY <1>4, FireContextKeeps
<1>5. ASSUME NEW tm \in Timers, FireTimer(tm)
      PROVE  CommStep
  BY <1>5, FireTimerKeeps
<1>6. CASE UNCHANGED commVars
  <2>1. UNCHANGED <<status, waitMu, ready, cur, input, halted, errors>>
    BY <1>6 DEF commVars, schedVars
  <2>2. UNCHANGED <<loc, born, buf, closed, timer, pending, done>>
    BY <1>6 DEF commVars, tokenVars, chanVars, sourceVars
  <2>3. UNCHANGED <<sendq, recvq, tickets, fired>>
    BY <1>6 DEF commVars, chanVars, waitVars
  <2>4. Sched'
    BY <2>1 DEF CommInv, Sched, RunTypes, ReadyExact, Distinct, Names
  <2>5. Waiting'
    <3>1. QueueTypes' /\ OldTickets' /\ FiresOnce'
      BY <2>1, <2>3 DEF CommInv, Waiting, QueueTypes, OldTickets, Once, Known, FiresOnce, Shared
    <3>2. BlockedWait'
      BY <2>1, <2>3 DEF CommInv, Waiting, BlockedWait, Awaited, Queued, Live
    <3> QED BY <3>1, <3>2 DEF Waiting
  <2>6. DataTypes'
    BY <2>2 DEF CommInv, DataTypes
  <2> QED BY <2>3, <2>4, <2>5, <2>6, StillShrinks DEF CommInv, CommStep
<1> QED BY <1>1, <1>2, <1>3, <1>4, <1>5, <1>6 DEF CommNext

-----------------------------------------------------------------------------
(* Theorems.                                                               *)

\* The invariant that carries the others: the scheduler's queue is exact,
\* every waiter in a queue is of a park its goroutine made, and whoever is
\* blocked has a waiter that can still be served.
THEOREM CommInvariant == CommSpec => []CommInv
<1>1. CommInit => CommInv
  BY InitKeeps
<1>2. CommInv /\ [CommNext]_commVars => CommInv'
  BY StepKeeps DEF CommStep
<1> QED BY <1>1, <1>2, PTL DEF CommSpec

\* The variables of the engine keep their types.
THEOREM CommTypes == CommSpec => []CommTypeOK
<1>1. CommInv => CommTypeOK
  BY DEF CommInv, Sched, RunTypes, Entries, Waiting, QueueTypes, DataTypes, CommTypeOK, SchedTypeOK
<1> QED BY <1>1, CommInvariant, PTL

\* The ready queue holds exactly the goroutines that can run and are not
\* running, each once, whatever channels, timers and contexts wake them.
THEOREM CommReadyExact == CommSpec => []ReadyExact
<1>1. CommInv => ReadyExact
  BY DEF CommInv, Sched
<1> QED BY <1>1, CommInvariant, PTL

\* The record a park leaves in the queues fires exactly when its goroutine
\* leaves that park: no select runs two of its cases (Shared.fired, pop).
THEOREM ParksFireOnce == CommSpec => []FiresOnce
<1>1. CommInv => FiresOnce
  BY DEF CommInv, Waiting
<1> QED BY <1>1, CommInvariant, PTL

\* A goroutine is blocked exactly while a live waiter of it is queued.
LEMMA BlockedAreAwaited == CommInv => NoLostWakeup
<1> SUFFICES ASSUME CommInv, halted = "no", NEW g \in Goroutines
             PROVE  status[g] = "blocked" <=> Awaited(g)
  BY DEF NoLostWakeup, Awaited
<1>1. Waiting
  BY DEF CommInv
<1>2. status[g] = "blocked" => Awaited(g)
  BY <1>1 DEF Waiting, BlockedWait
<1>3. ASSUME NEW c \in Channels, Queued(sendq[c], g)
      PROVE  status[g] = "blocked"
  <2>1. PICK k \in DOMAIN sendq[c] : Shared(sendq[c][k]) \notin fired /\ sendq[c][k].g = g
    BY <1>3 DEF Queued, Live
  <2>2. /\ sendq[c][k].n \in Nat \ {0} /\ sendq[c][k].n <= tickets[g]
        /\ <<g, sendq[c][k].n>> \notin fired
    BY <1>1, <2>1, SendersAreKnown
  <2> QED BY <1>1, <2>2, LiveIsBlocked
<1>4. ASSUME NEW x \in Sources, Queued(recvq[x], g)
      PROVE  status[g] = "blocked"
  <2>1. PICK k \in DOMAIN recvq[x] : Shared(recvq[x][k]) \notin fired /\ recvq[x][k].g = g
    BY <1>4 DEF Queued, Live
  <2>2. /\ recvq[x][k].n \in Nat \ {0} /\ recvq[x][k].n <= tickets[g]
        /\ <<g, recvq[x][k].n>> \notin fired
    BY <1>1, <2>1, ReceiversAreKnown
  <2> QED BY <1>1, <2>2, LiveIsBlocked
<1> QED BY <1>2, <1>3, <1>4 DEF Awaited

\* A goroutine is blocked exactly while a waiter of it that has not fired is
\* in a queue, so nobody is parked where no operation can wake him
\* (Sim.park, pop).
THEOREM NobodyIsLost == CommSpec => []NoLostWakeup
<1>1. CommInv => NoLostWakeup
  BY BlockedAreAwaited
<1> QED BY <1>1, CommInvariant, PTL

-----------------------------------------------------------------------------
(* What a step does to the live waiters of a queue.                        *)

\* A waiter of g in r that is live after the step.
QueuedNow(r, g) == \E k \in DOMAIN r : Shared(r[k]) \notin fired' /\ r[k].g = g

LEMMA QueuedNowFacts ==
  /\ \A c, g : Queued(sendq[c], g)' <=> QueuedNow(sendq'[c], g)
  /\ \A x, g : Queued(recvq[x], g)' <=> QueuedNow(recvq'[x], g)
  BY DEF Queued, QueuedNow, Live, Shared

\* The live waiters of g are of one record, id: a kept queue has them still,
\* or none of them when the record fires.
LEMMA KeptQueued ==
  ASSUME NEW q, NEW r, Kept(q, r), fired \subseteq fired', NEW g, NEW id,
         \A k \in Live(q) : q[k].g = g => Shared(q[k]) = id
  PROVE  /\ id \in fired' => ~ QueuedNow(r, g)
         /\ id \notin fired' => (QueuedNow(r, g) <=> Queued(q, g))
<1>1. ASSUME NEW k \in DOMAIN r, Shared(r[k]) \notin fired', r[k].g = g
      PROVE  \E j \in Live(q) : q[j] = r[k] /\ Shared(r[k]) = id
  <2>1. PICK j \in DOMAIN q : r[k] = q[j]
    BY DEF Kept
  <2>2. j \in Live(q)
    BY <1>1, <2>1 DEF Live
  <2> QED BY <1>1, <2>1, <2>2
<1>2. QueuedNow(r, g) => id \notin fired' /\ Queued(q, g)
  BY <1>1 DEF QueuedNow, Queued
<1>3. ASSUME Queued(q, g), id \notin fired'
      PROVE  QueuedNow(r, g)
  <2>1. PICK k \in Live(q) : q[k].g = g
    BY <1>3 DEF Queued
  <2>2. k \in DOMAIN q /\ Shared(q[k]) \notin fired'
    BY <1>3, <2>1 DEF Live
  <2>3. PICK j \in DOMAIN r : r[j] = q[k]
    BY <2>2 DEF Kept
  <2> QED BY <2>1, <2>2, <2>3 DEF QueuedNow
<1> QED BY <1>2, <1>3

\* Another goroutine's waiters stay where they are when one parks.
LEMMA JoinsQueued ==
  ASSUME NEW S, NEW q, NEW r, NEW p, Joins(S, q, r, p), UNCHANGED fired, NEW g, g # p
  PROVE  QueuedNow(r, g) <=> Queued(q, g)
<1>1. PICK base \in Seq(S) :
        /\ Kept(q, base)
        /\ r = base \/ \E w \in S : w.g = p /\ w.n = tickets[p] + 1 /\ r = Append(base, w)
  BY DEF Joins
<1>2. \A k \in DOMAIN base : k \in DOMAIN r /\ r[k] = base[k]
  <2>1. ASSUME NEW w \in S, r = Append(base, w), NEW k \in DOMAIN base
        PROVE  k \in DOMAIN r /\ r[k] = base[k]
    <3>1. /\ r \in Seq(S) /\ Len(r) = Len(base) + 1
          /\ \A i \in 1..Len(base) : r[i] = base[i]
      BY <2>1, AppendProperties
    <3>2. Len(base) \in Nat /\ DOMAIN base = 1..Len(base) /\ DOMAIN r = 1..(Len(base) + 1)
      BY <3>1, LenProperties
    <3> QED BY <3>1, <3>2
  <2> QED BY <1>1, <2>1
<1>3. ASSUME NEW k \in DOMAIN r, r[k].g = g
      PROVE  \E j \in DOMAIN base : base[j] = r[k]
  <2>1. ASSUME NEW w \in S, w.g = p, r = Append(base, w)
        PROVE  \E j \in DOMAIN base : base[j] = r[k]
    <3>1. /\ r \in Seq(S) /\ Len(r) = Len(base) + 1
          /\ \A i \in 1..Len(base) : r[i] = base[i]
          /\ r[Len(base) + 1] = w
      BY <2>1, AppendProperties
    <3>2. Len(base) \in Nat /\ DOMAIN base = 1..Len(base) /\ DOMAIN r = 1..(Len(base) + 1)
      BY <3>1, LenProperties
    <3>3. k # Len(base) + 1
      BY <1>3, <2>1, <3>1
    <3>4. k \in 1..Len(base)
      BY <3>2, <3>3
    <3> QED BY <3>1, <3>2, <3>4
  <2> QED BY <1>1, <2>1
<1>4. ASSUME QueuedNow(r, g) PROVE Queued(q, g)
  <2>1. PICK k \in DOMAIN r : Shared(r[k]) \notin fired /\ r[k].g = g
    BY <1>4 DEF QueuedNow
  <2>2. PICK j \in DOMAIN base : base[j] = r[k]
    BY <1>3, <2>1
  <2>3. PICK i \in DOMAIN q : base[j] = q[i]
    BY <1>1 DEF Kept
  <2> QED BY <2>1, <2>2, <2>3 DEF Queued, Live
<1>5. ASSUME Queued(q, g) PROVE QueuedNow(r, g)
  <2>1. PICK i \in DOMAIN q : Shared(q[i]) \notin fired /\ q[i].g = g
    BY <1>5 DEF Queued, Live
  <2>2. PICK j \in DOMAIN base : base[j] = q[i]
    BY <1>1, <2>1 DEF Kept
  <2> QED BY <1>2, <2>1, <2>2 DEF QueuedNow
<1> QED BY <1>4, <1>5

-----------------------------------------------------------------------------
(* Parking implements WaitSets.                                            *)

LEMMA WaitsAfter ==
  ASSUME NEW g
  PROVE  WaitsOf(g)' = {<<"send", c>> : c \in {d \in Channels : QueuedNow(sendq'[d], g)}}
                  \cup {<<"recv", x>> : x \in {y \in Sources : QueuedNow(recvq'[y], g)}}
  BY QueuedNowFacts DEF WaitsOf

\* Who does not park keeps all the places he waits at, or leaves them all.
LEMMA ShrinksWaits ==
  ASSUME Waiting, halted = "no", Shrinks, NEW g \in Goroutines
  PROVE  /\ WaitsOf(g)' \in {WaitsOf(g), {}}
         /\ <<g, tickets[g]>> \in fired' => WaitsOf(g)' = {}
<1> DEFINE id == <<g, tickets[g]>>
<1>1. ASSUME NEW c \in Channels, NEW k \in Live(sendq[c]), sendq[c][k].g = g
      PROVE  Shared(sendq[c][k]) = id
  <2>1. k \in DOMAIN sendq[c] /\ Shared(sendq[c][k]) \notin fired
    BY DEF Live
  <2> QED BY <1>1, <2>1, SendersAreKnown, LiveIsBlocked
<1>2. ASSUME NEW x \in Sources, NEW k \in Live(recvq[x]), recvq[x][k].g = g
      PROVE  Shared(recvq[x][k]) = id
  <2>1. k \in DOMAIN recvq[x] /\ Shared(recvq[x][k]) \notin fired
    BY DEF Live
  <2> QED BY <1>2, <2>1, ReceiversAreKnown, LiveIsBlocked
<1> HIDE DEF id
<1>3. ASSUME NEW c \in Channels
      PROVE  /\ id \in fired' => ~ QueuedNow(sendq'[c], g)
             /\ id \notin fired' => (QueuedNow(sendq'[c], g) <=> Queued(sendq[c], g))
  BY <1>1, KeptQueued DEF Shrinks, KeptAll
<1>4. ASSUME NEW x \in Sources
      PROVE  /\ id \in fired' => ~ QueuedNow(recvq'[x], g)
             /\ id \notin fired' => (QueuedNow(recvq'[x], g) <=> Queued(recvq[x], g))
  BY <1>2, KeptQueued DEF Shrinks, KeptAll
<1>5. id \in fired' => WaitsOf(g)' = {}
  BY <1>3, <1>4, WaitsAfter
<1>6. id \notin fired' => WaitsOf(g)' = WaitsOf(g)
  BY <1>3, <1>4, WaitsAfter DEF WaitsOf
<1> QED BY <1>5, <1>6 DEF id

\* Who runs waits nowhere.
LEMMA RunnersWaitNowhere ==
  ASSUME Waiting, halted = "no", NEW g \in Goroutines, status[g] = "running"
  PROVE  WaitsOf(g) = {}
<1>1. ASSUME NEW c \in Channels PROVE ~ Queued(sendq[c], g)
  <2>1. ASSUME NEW k \in DOMAIN sendq[c], Shared(sendq[c][k]) \notin fired
        PROVE  sendq[c][k].g # g
    BY <2>1, SendersAreKnown, LiveIsBlocked
  <2> QED BY <2>1 DEF Queued, Live
<1>2. ASSUME NEW x \in Sources PROVE ~ Queued(recvq[x], g)
  <2>1. ASSUME NEW k \in DOMAIN recvq[x], Shared(recvq[x][k]) \notin fired
        PROVE  recvq[x][k].g # g
    BY <2>1, ReceiversAreKnown, LiveIsBlocked
  <2> QED BY <2>1 DEF Queued, Live
<1> QED BY <1>1, <1>2 DEF WaitsOf

\* Who parks takes at least one place, and nobody else's places change.
LEMMA GrowsWaits ==
  ASSUME Waiting, halted = "no", NEW g \in Goroutines, Grows(g)
  PROVE  /\ WaitsOf(g) = {}
         /\ WaitsOf(g)' # {}
         /\ \A h \in Goroutines \ {g} : WaitsOf(h)' = WaitsOf(h)
<1>1. WaitsOf(g) = {}
  BY RunnersWaitNowhere DEF Grows
<1>2. <<g, tickets[g] + 1>> \notin fired'
  <2>1. \A id \in fired : id[2] <= tickets[id[1]]
    BY DEF Waiting, OldTickets
  <2>2. tickets[g] \in Nat
    BY DEF Waiting, QueueTypes
  <2> QED BY <2>1, <2>2 DEF Grows
<1>3. \A r : HasNew(r, g) => QueuedNow(r, g)
  BY <1>2 DEF HasNew, QueuedNow, Shared
<1>4. WaitsOf(g)' # {}
  <2>1. \/ \E c \in Channels : QueuedNow(sendq'[c], g)
        \/ \E x \in Sources : QueuedNow(recvq'[x], g)
    BY <1>3 DEF Grows
  <2> QED BY <2>1, WaitsAfter
<1>5. ASSUME NEW h \in Goroutines \ {g} PROVE WaitsOf(h)' = WaitsOf(h)
  <2>1. \A c \in Channels : QueuedNow(sendq'[c], h) <=> Queued(sendq[c], h)
    BY JoinsQueued DEF Grows
  <2>2. \A x \in Sources : QueuedNow(recvq'[x], h) <=> Queued(recvq[x], h)
    BY JoinsQueued DEF Grows
  <2> QED BY <2>1, <2>2, WaitsAfter DEF WaitsOf
<1> QED BY <1>1, <1>4, <1>5

\* Nothing moves after the run has ended.
LEMMA HaltedStays ==
  ASSUME [CommNext]_commVars, halted # "no"
  PROVE  UNCHANGED commVars
<1>1. ~ Idle /\ \A g \in Goroutines : ~ Runs(g)
  BY DEF Idle, Runs
<1>2. \A g \in Goroutines : ~ Operation(g)
  BY <1>1, OperationRuns
<1>3. \A g \in Goroutines : \A op, tm : ~ TimerOp(g, op, tm)
  BY <1>1 DEF TimerOp
<1>4. ~ Resume /\ (\A cx : ~ FireContext(cx)) /\ (\A tm : ~ FireTimer(tm))
  BY <1>1 DEF Resume, FireContext, FireTimer
<1> QED BY <1>2, <1>3, <1>4 DEF CommNext

\* The queues of waiters of channels, timers and contexts implement sets of
\* places to wait at: an operation parks in all its queues at once, leaves
\* them all when one case runs, and never loses a part of them (Shared.fired,
\* pop, Sim.park).
THEOREM WaitSetsImplemented == CommSpec => WaitsSpec
<1>1. CommInit => Wait!Init
  <2> SUFFICES ASSUME CommInit PROVE Wait!Init
    OBVIOUS
  <2>1. \A c \in Channels : \A g : ~ Queued(sendq[c], g)
    BY DEF CommInit, Queued, Live
  <2>2. \A x \in Sources : \A g : ~ Queued(recvq[x], g)
    BY DEF CommInit, Queued, Live
  <2>3. \A g \in Goroutines : WaitsOf(g) = {}
    BY <2>1, <2>2 DEF WaitsOf
  <2> QED BY <2>3 DEF Wait!Init
<1>2. CommInv /\ [CommNext]_commVars => [Wait!Next]_([g \in Goroutines |-> WaitsOf(g)])
  <2> SUFFICES ASSUME CommInv, [CommNext]_commVars
               PROVE  [Wait!Next]_([g \in Goroutines |-> WaitsOf(g)])
    OBVIOUS
  <2> DEFINE waits == [g \in Goroutines |-> WaitsOf(g)]
  <2>1. \A g \in Goroutines : waits[g] = WaitsOf(g) /\ waits'[g] = WaitsOf(g)'
    OBVIOUS
  <2>2. Wait!TypeOK'
    BY DEF Wait!TypeOK, WaitsOf
  <2>3. CASE halted # "no"
    <3>1. UNCHANGED <<sendq, recvq, fired>>
      BY <2>3, HaltedStays DEF commVars, chanVars, waitVars
    <3>2. \A g : WaitsOf(g)' = WaitsOf(g)
      BY <3>1 DEF WaitsOf, Queued, Live
    <3> QED BY <3>2
  <2>4. CASE halted = "no" /\ Shrinks
    <3>1. \A g \in Goroutines : WaitsOf(g)' \in {WaitsOf(g), {}}
      BY <2>4, ShrinksWaits DEF CommInv
    <3>2. Wait!Wake
      BY <3>1 DEF Wait!Wake
    <3> QED BY <2>2, <3>2 DEF Wait!Next
  <2>5. ASSUME halted = "no", NEW g \in Goroutines, Grows(g)
        PROVE  Wait!Next
    <3>1. /\ WaitsOf(g) = {}
          /\ WaitsOf(g)' # {}
          /\ \A h \in Goroutines \ {g} : WaitsOf(h)' = WaitsOf(h)
      BY <2>5, GrowsWaits DEF CommInv
    <3>2. Wait!Park(g)
      BY <3>1 DEF Wait!Park
    <3> QED BY <2>2, <3>2 DEF Wait!Next
  <2>6. CommStep
    BY StepKeeps
  <2> QED BY <2>3, <2>4, <2>5, <2>6 DEF CommStep
<1> QED BY <1>1, <1>2, CommInvariant, PTL DEF CommSpec, WaitsSpec, Wait!Spec

-----------------------------------------------------------------------------
(* Nobody waits where he could be served.                                  *)

BufFits == \A c \in Channels : Len(buf[c]) <= Capacity[c]
MeetInv == BufFits /\ NoMissedRendezvous /\ NoMissedSignal

\* The waiters of r that are live after the step.
LiveNow(r) == {k \in DOMAIN r : Shared(r[k]) \notin fired'}

\* What the channel, the timer or the context lets be after the step.
Steady(c) ==
  /\ closed'[c] = closed[c]
  /\ Len(buf'[c]) = Len(buf[c])
  /\ buf[c] = <<>> => buf'[c] = <<>>
Deserted(c) ==
  /\ LiveNow(sendq'[c]) = {}
  /\ LiveNow(recvq'[c]) = {}
  /\ Len(buf'[c]) <= Capacity[c]
ChannelsMeet == \A c \in Channels : Steady(c) \/ Deserted(c)
TimersMeet ==
  \A tm \in Timers :
    \/ pending'[tm] = NoTok
    \/ timer'[tm] = "fired" /\ LiveNow(recvq'[tm]) = {}
    \/ pending'[tm] = pending[tm] /\ timer'[tm] = timer[tm]
ContextsMeet == \A cx \in Contexts : done'[cx] = done[cx] \/ LiveNow(recvq'[cx]) = {}

\* Where a goroutine may park.
FullAt(c) == ~ closed[c] /\ Live(recvq[c]) = {} /\ Len(buf[c]) >= Capacity[c]
ParksWhereItMay(g) ==
  /\ \A c \in Channels : HasNew(sendq'[c], g) => FullAt(c)
  /\ \A x \in Sources : HasNew(recvq'[x], g) => Empty(x)

LEMMA LiveNowFacts ==
  /\ \A c : Live(sendq[c])' = LiveNow(sendq'[c])
  /\ \A x : Live(recvq[x])' = LiveNow(recvq'[x])
  BY DEF Live, LiveNow, Shared

\* Who is live in a kept queue was live before.
LEMMA KeptLive ==
  ASSUME NEW q, NEW r, Kept(q, r), fired \subseteq fired', NEW k \in LiveNow(r)
  PROVE  \E j \in Live(q) : q[j] = r[k]
<1>1. PICK j \in DOMAIN q : r[k] = q[j]
  BY DEF Kept, LiveNow
<1> QED BY <1>1 DEF Live, LiveNow

\* Who is live in a queue somebody may have joined was live before, or is him.
LEMMA JoinsLive ==
  ASSUME NEW S, NEW q, NEW r, NEW g, Joins(S, q, r, g), UNCHANGED fired, NEW k \in LiveNow(r)
  PROVE  \/ \E j \in Live(q) : q[j] = r[k]
         \/ HasNew(r, g) /\ Shared(r[k]) = <<g, tickets[g] + 1>>
<1>1. PICK base \in Seq(S) :
        /\ Kept(q, base)
        /\ r = base \/ \E w \in S : w.g = g /\ w.n = tickets[g] + 1 /\ r = Append(base, w)
  BY DEF Joins
<1>2. CASE r = base
  BY <1>1, <1>2, KeptLive
<1>3. ASSUME NEW w \in S, w.g = g, w.n = tickets[g] + 1, r = Append(base, w)
      PROVE  \/ \E j \in Live(q) : q[j] = r[k]
             \/ HasNew(r, g) /\ Shared(r[k]) = <<g, tickets[g] + 1>>
  <2>1. /\ r \in Seq(S) /\ Len(r) = Len(base) + 1
        /\ \A i \in 1..Len(base) : r[i] = base[i]
        /\ r[Len(base) + 1] = w
    BY <1>3, AppendProperties
  <2>2. Len(base) \in Nat /\ DOMAIN base = 1..Len(base) /\ DOMAIN r = 1..(Len(base) + 1)
    BY <2>1, LenProperties
  <2>3. k \in DOMAIN r /\ Shared(r[k]) \notin fired'
    BY DEF LiveNow
  <2>4. CASE k = Len(base) + 1
    BY <1>3, <2>1, <2>3, <2>4 DEF HasNew, Shared
  <2>5. CASE k # Len(base) + 1
    <3>1. k \in DOMAIN base /\ r[k] = base[k]
      BY <2>1, <2>2, <2>3, <2>5
    <3>2. k \in LiveNow(base)
      BY <2>3, <3>1 DEF LiveNow
    <3> QED BY <1>1, <3>1, <3>2, KeptLive
  <2> QED BY <2>4, <2>5
<1> QED BY <1>1, <1>2, <1>3

\* A kept queue has no waiter of a park to come.
LEMMA KeptHasNoNew ==
  ASSUME Waiting, NEW g \in Goroutines
  PROVE  /\ \A c \in Channels : \A r : Kept(sendq[c], r) => ~ HasNew(r, g)
         /\ \A x \in Sources : \A r : Kept(recvq[x], r) => ~ HasNew(r, g)
<1>1. tickets[g] \in Nat
  BY DEF Waiting, QueueTypes
<1>2. ASSUME NEW c \in Channels, NEW r, Kept(sendq[c], r), NEW k \in DOMAIN r, r[k].g = g
      PROVE  r[k].n # tickets[g] + 1
  <2>1. PICK j \in DOMAIN sendq[c] : r[k] = sendq[c][j]
    BY <1>2 DEF Kept
  <2>2. r[k].n \in Nat /\ r[k].n <= tickets[g]
    BY <1>2, <2>1, SendersAreKnown
  <2> QED BY <1>1, <2>2
<1>3. ASSUME NEW x \in Sources, NEW r, Kept(recvq[x], r), NEW k \in DOMAIN r, r[k].g = g
      PROVE  r[k].n # tickets[g] + 1
  <2>1. PICK j \in DOMAIN recvq[x] : r[k] = recvq[x][j]
    BY <1>3 DEF Kept
  <2>2. r[k].n \in Nat /\ r[k].n <= tickets[g]
    BY <1>3, <2>1, ReceiversAreKnown
  <2> QED BY <1>1, <2>2
<1> QED BY <1>2, <1>3 DEF HasNew

\* Where nobody waits, nobody waits after a step in which nobody parks.
LEMMA NobodyStays ==
  ASSUME Shrinks
  PROVE  /\ \A c \in Channels : Live(sendq[c]) = {} => LiveNow(sendq'[c]) = {}
         /\ \A x \in Sources : Live(recvq[x]) = {} => LiveNow(recvq'[x]) = {}
<1>1. fired \subseteq fired'
  BY DEF Shrinks
<1>2. ASSUME NEW c \in Channels, Live(sendq[c]) = {} PROVE LiveNow(sendq'[c]) = {}
  BY <1>1, <1>2, KeptLive DEF Shrinks, KeptAll
<1>3. ASSUME NEW x \in Sources, Live(recvq[x]) = {} PROVE LiveNow(recvq'[x]) = {}
  BY <1>1, <1>3, KeptLive DEF Shrinks, KeptAll
<1> QED BY <1>2, <1>3

\* Nobody parks: the live waiters are fewer, on channels, timers and contexts
\* that stay as they were or that nobody waits for.
LEMMA ShrinksMeet ==
  ASSUME MeetInv, Shrinks, ChannelsMeet, TimersMeet, ContextsMeet
  PROVE  MeetInv'
<1>1. ASSUME NEW c \in Channels
      PROVE  /\ LiveNow(sendq'[c]) # {} => Live(sendq[c]) # {}
             /\ LiveNow(recvq'[c]) # {} => Live(recvq[c]) # {}
             /\ \A i \in LiveNow(sendq'[c]), j \in LiveNow(recvq'[c]) :
                  Shared(sendq'[c][i]) = Shared(recvq'[c][j])
  <2>1. c \in Sources /\ fired \subseteq fired'
    BY ChannelsAreSources DEF Shrinks
  <2>2. \A i \in LiveNow(sendq'[c]) : \E k \in Live(sendq[c]) : sendq[c][k] = sendq'[c][i]
    BY <2>1, KeptLive DEF Shrinks, KeptAll
  <2>3. \A j \in LiveNow(recvq'[c]) : \E k \in Live(recvq[c]) : recvq[c][k] = recvq'[c][j]
    BY <2>1, KeptLive DEF Shrinks, KeptAll
  <2>4. \A i \in Live(sendq[c]), j \in Live(recvq[c]) : Shared(sendq[c][i]) = Shared(recvq[c][j])
    BY DEF MeetInv, NoMissedRendezvous
  <2> QED BY <2>2, <2>3, <2>4
<1>2. ASSUME NEW c \in Channels
      PROVE  /\ Len(buf'[c]) <= Capacity[c]
             /\ LiveNow(sendq'[c]) # {} => ~ closed'[c] /\ Len(buf'[c]) = Capacity[c]
             /\ LiveNow(recvq'[c]) # {} => ~ closed'[c] /\ buf'[c] = <<>>
  <2>1. CASE Steady(c)
    BY <1>1, <2>1 DEF Steady, MeetInv, BufFits, NoMissedRendezvous
  <2>2. CASE Deserted(c)
    BY <2>2 DEF Deserted
  <2> QED BY <2>1, <2>2 DEF ChannelsMeet
<1>3. BufFits'
  BY <1>2 DEF BufFits
<1>4. NoMissedRendezvous'
  <2>1. \A c \in Channels : \A i \in LiveNow(sendq'[c]), j \in LiveNow(recvq'[c]) :
          Shared(sendq[c][i])' = Shared(recvq[c][j])'
    BY <1>1 DEF Shared
  <2> QED BY <1>2, <2>1, LiveNowFacts DEF NoMissedRendezvous
<1>5. \A x \in Sources : Live(recvq[x]) = {} => LiveNow(recvq'[x]) = {}
  BY NobodyStays
<1>6. NoMissedSignal'
  <2>1. ASSUME NEW tm \in Timers, pending'[tm] # NoTok
        PROVE  timer'[tm] = "fired" /\ LiveNow(recvq'[tm]) = {}
    <3>1. tm \in Sources
      BY ChannelsAreSources
    <3> QED BY <1>5, <2>1, <3>1 DEF TimersMeet, MeetInv, NoMissedSignal
  <2>2. ASSUME NEW cx \in Contexts, done'[cx]
        PROVE  LiveNow(recvq'[cx]) = {}
    <3>1. cx \in Sources
      BY ChannelsAreSources
    <3> QED BY <1>5, <2>2, <3>1 DEF ContextsMeet, MeetInv, NoMissedSignal
  <2>3. NoTok' = NoTok
    BY DEF NoTok
  <2> QED BY <2>1, <2>2, <2>3, LiveNowFacts DEF NoMissedSignal
<1> QED BY <1>3, <1>4, <1>6 DEF MeetInv

\* A goroutine parks only where it cannot be served.
LEMMA GrowsMeet ==
  ASSUME MeetInv, NEW g \in Goroutines, Grows(g), ParksWhereItMay(g),
         UNCHANGED <<buf, closed, timer, pending, done>>
  PROVE  MeetInv'
<1>1. ASSUME NEW c \in Channels, NEW i \in LiveNow(sendq'[c])
      PROVE  \/ \E k \in Live(sendq[c]) : sendq[c][k] = sendq'[c][i]
             \/ FullAt(c) /\ Shared(sendq'[c][i]) = <<g, tickets[g] + 1>>
  <2>1. Joins(Sender, sendq[c], sendq'[c], g) /\ UNCHANGED fired
    BY DEF Grows
  <2> QED BY <2>1, JoinsLive DEF ParksWhereItMay
<1>2. ASSUME NEW x \in Sources, NEW j \in LiveNow(recvq'[x])
      PROVE  \/ \E k \in Live(recvq[x]) : recvq[x][k] = recvq'[x][j]
             \/ Empty(x) /\ Shared(recvq'[x][j]) = <<g, tickets[g] + 1>>
  <2>1. Joins(Receiver, recvq[x], recvq'[x], g) /\ UNCHANGED fired
    BY DEF Grows
  <2> QED BY <2>1, JoinsLive DEF ParksWhereItMay
<1>3. ASSUME NEW c \in Channels, Empty(c)
      PROVE  buf[c] = <<>> /\ Live(sendq[c]) = {} /\ ~ closed[c]
  BY <1>3, CommAssumption DEF Empty
<1>4. ASSUME NEW c \in Channels
      PROVE  /\ LiveNow(sendq'[c]) # {} => ~ closed[c] /\ Len(buf[c]) >= Capacity[c]
             /\ LiveNow(recvq'[c]) # {} => ~ closed[c] /\ buf[c] = <<>>
             /\ \A i \in LiveNow(sendq'[c]), j \in LiveNow(recvq'[c]) :
                  Shared(sendq'[c][i]) = Shared(recvq'[c][j])
  <2>1. c \in Sources /\ Capacity[c] \in Nat
    BY ChannelsAreSources, CommAssumption
  <2>2. /\ Live(sendq[c]) # {} => ~ closed[c] /\ Len(buf[c]) = Capacity[c]
        /\ Live(recvq[c]) # {} => ~ closed[c] /\ buf[c] = <<>>
        /\ \A i \in Live(sendq[c]), j \in Live(recvq[c]) :
             Shared(sendq[c][i]) = Shared(recvq[c][j])
    BY DEF MeetInv, NoMissedRendezvous
  <2>3. LiveNow(sendq'[c]) # {} => ~ closed[c] /\ Len(buf[c]) >= Capacity[c]
    <3>1. Live(sendq[c]) # {} => ~ closed[c] /\ Len(buf[c]) >= Capacity[c]
      BY <2>1, <2>2
    <3> QED BY <1>1, <3>1, Zenon DEF FullAt
  <2>4. LiveNow(recvq'[c]) # {} => ~ closed[c] /\ buf[c] = <<>>
    BY <1>2, <1>3, <2>1, <2>2
  <2>5. ASSUME NEW i \in LiveNow(sendq'[c]), NEW j \in LiveNow(recvq'[c])
        PROVE  Shared(sendq'[c][i]) = Shared(recvq'[c][j])
    <3>1. CASE FullAt(c) /\ Shared(sendq'[c][i]) = <<g, tickets[g] + 1>>
      <4>1. Live(recvq[c]) = {}
        BY <3>1 DEF FullAt
      <4> QED BY <1>2, <2>1, <3>1, <4>1
    <3>2. ASSUME NEW k \in Live(sendq[c]), sendq[c][k] = sendq'[c][i]
          PROVE  Shared(sendq'[c][i]) = Shared(recvq'[c][j])
      <4>1. ~ Empty(c)
        BY <1>3
      <4>2. PICK l \in Live(recvq[c]) : recvq[c][l] = recvq'[c][j]
        BY <1>2, <2>1, <4>1
      <4> QED BY <2>2, <3>2, <4>2
    <3> QED BY <1>1, <3>1, <3>2
  <2> QED BY <2>3, <2>4, <2>5
<1>5. NoMissedRendezvous'
  <2>1. \A c \in Channels : \A i \in LiveNow(sendq'[c]), j \in LiveNow(recvq'[c]) :
          Shared(sendq[c][i])' = Shared(recvq[c][j])'
    BY <1>4 DEF Shared
  <2>2. ASSUME NEW c \in Channels, LiveNow(sendq'[c]) # {}
        PROVE  ~ closed[c] /\ Len(buf[c]) = Capacity[c]
    <3>1. Len(buf[c]) <= Capacity[c] /\ Len(buf[c]) >= Capacity[c] /\ ~ closed[c]
      BY <1>4, <2>2 DEF MeetInv, BufFits
    <3>2. CASE Live(sendq[c]) # {}
      BY <3>1, <3>2 DEF MeetInv, NoMissedRendezvous
    <3>3. Capacity[c] \in Nat
      BY CommAssumption
    <3> QED BY <3>1, <3>3
  <2>3. \A c \in Channels : LiveNow(recvq'[c]) # {} => ~ closed[c] /\ buf[c] = <<>>
    BY <1>4
  <2>4. \A c \in Channels : Live(sendq[c])' = LiveNow(sendq'[c]) /\ Live(recvq[c])' = LiveNow(recvq'[c])
    BY LiveNowFacts
  <2>5. \A c \in Channels :
          /\ Live(sendq[c])' # {} => ~ closed'[c] /\ Len(buf'[c]) = Capacity[c]
          /\ Live(recvq[c])' # {} => ~ closed'[c] /\ buf'[c] = <<>>
    BY <2>2, <2>3, <2>4
  <2>6. \A c \in Channels : \A i \in Live(sendq[c])', j \in Live(recvq[c])' :
          Shared(sendq[c][i])' = Shared(recvq[c][j])'
    BY <2>1, <2>4
  <2> QED BY <2>5, <2>6, Zenon DEF NoMissedRendezvous
<1>6. NoMissedSignal'
  <2>1. ASSUME NEW tm \in Timers, pending[tm] # NoTok
        PROVE  timer[tm] = "fired" /\ LiveNow(recvq'[tm]) = {}
    <3>1. tm \in Sources /\ ~ Empty(tm)
      BY <2>1, ChannelsAreSources, CommAssumption DEF Empty
    <3> QED BY <1>2, <2>1, <3>1 DEF MeetInv, NoMissedSignal
  <2>2. ASSUME NEW cx \in Contexts, done[cx]
        PROVE  LiveNow(recvq'[cx]) = {}
    <3>1. cx \in Sources /\ ~ Empty(cx)
      BY <2>2, ChannelsAreSources, CommAssumption DEF Empty
    <3> QED BY <1>2, <2>2, <3>1 DEF MeetInv, NoMissedSignal
  <2>3. NoTok' = NoTok
    BY DEF NoTok
  <2> QED BY <2>1, <2>2, <2>3, LiveNowFacts DEF NoMissedSignal
<1>7. BufFits'
  BY DEF MeetInv, BufFits
<1> QED BY <1>5, <1>6, <1>7 DEF MeetInv

\* Which of the two a step is, its tickets tell.
LEMMA StepTells ==
  ASSUME CommInv, CommStep
  PROVE  /\ UNCHANGED tickets => Shrinks
         /\ \A g \in Goroutines : tickets' = [tickets EXCEPT ![g] = @ + 1] => Grows(g)
<1>1. tickets \in [Goroutines -> Nat]
  BY DEF CommInv, Waiting, QueueTypes
<1>2. \A h \in Goroutines : Grows(h) => tickets'[h] # tickets[h]
  BY <1>1 DEF Grows
<1>3. \A g, h \in Goroutines :
        tickets' = [tickets EXCEPT ![g] = @ + 1] /\ h # g => tickets'[h] = tickets[h]
  BY <1>1
<1>4. \A g \in Goroutines : tickets' = [tickets EXCEPT ![g] = @ + 1] => tickets'[g] # tickets[g]
  BY <1>1
<1> QED BY <1>2, <1>3, <1>4 DEF CommStep, Shrinks

\* A step that touches no channel, timer or context.
LEMMA StillMeet ==
  ASSUME MeetInv, Shrinks, UNCHANGED <<buf, closed>>, UNCHANGED <<timer, pending, done>>
  PROVE  MeetInv'
<1>1. ChannelsMeet
  BY DEF ChannelsMeet, Steady
<1>2. TimersMeet /\ ContextsMeet
  BY DEF TimersMeet, ContextsMeet
<1> QED BY <1>1, <1>2, ShrinksMeet

LEMMA SendNowMeets ==
  ASSUME CommInv, CommStep, MeetInv, NEW g \in Goroutines, NEW c \in Channels,
         NEW s \in Operand, NEW i \in Nat, SendNow(g, c, s, i), UNCHANGED sourceVars
  PROVE  MeetInv'
<1>1. UNCHANGED <<timer, pending, done>>
  BY DEF sourceVars
<1>2. Shrinks
  <2>1. UNCHANGED tickets
    BY DEF SendNow, SendUnheld, SendOnClosed, SendToReceiver, SendToBuffer, waitVars
  <2> QED BY <2>1, StepTells
<1>3. CASE UNCHANGED <<buf, closed>>
  BY <1>1, <1>2, <1>3, StillMeet
<1>4. CASE SendToBuffer(g, c, s, i)
  <2>1. /\ Live(recvq[c]) = {} /\ Len(buf[c]) < Capacity[c]
        /\ buf' = [buf EXCEPT ![c] = Append(@, TokenOf(s))]
        /\ closed' = closed
    BY <1>4 DEF SendToBuffer
  <2>2. buf \in [Channels -> Seq(Token)] /\ buf[c] \in Seq(Token) /\ TokenOf(s) \in Token
    BY TokenFacts DEF CommInv, DataTypes
  <2>3. Len(Append(buf[c], TokenOf(s))) = Len(buf[c]) + 1 /\ Len(buf[c]) \in Nat /\ Capacity[c] \in Nat
    BY <2>2, AppendProperties, LenProperties, CommAssumption
  <2>4. c \in Sources /\ Live(sendq[c]) = {}
    <3>1. Len(buf[c]) # Capacity[c]
      BY <2>1, <2>3
    <3> QED BY <3>1, ChannelsAreSources DEF MeetInv, NoMissedRendezvous
  <2>5. Deserted(c)
    <3>1. LiveNow(sendq'[c]) = {} /\ LiveNow(recvq'[c]) = {}
      BY <1>2, <2>1, <2>4, NobodyStays
    <3>2. buf'[c] = Append(buf[c], TokenOf(s))
      BY <2>1, <2>2
    <3>3. Len(buf'[c]) <= Capacity[c]
      BY <2>1, <2>3, <3>2
    <3> QED BY <3>1, <3>3 DEF Deserted
  <2>6. \A d \in Channels \ {c} : Steady(d)
    BY <2>1, <2>2 DEF Steady
  <2>7. ChannelsMeet
    BY <2>5, <2>6 DEF ChannelsMeet
  <2>8. TimersMeet /\ ContextsMeet
    BY <1>1 DEF TimersMeet, ContextsMeet
  <2> QED BY <1>2, <2>7, <2>8, ShrinksMeet
<1> QED BY <1>3, <1>4 DEF SendNow, SendUnheld, SendOnClosed, SendToReceiver, chanVars

LEMMA SendMeets ==
  ASSUME CommInv, CommStep, MeetInv, NEW g \in Goroutines, NEW c \in Channels,
         NEW s \in Operand, Send(g, c, s)
  PROVE  MeetInv'
<1>1. UNCHANGED sourceVars
  BY DEF Send
<1>2. CASE SendNow(g, c, s, 0)
  BY <1>1, <1>2, SendNowMeets
<1>3. CASE ~ SendNow(g, c, s, 0)
  <2>1. /\ NoRoom(g, c, s)
        /\ sendq' = [sendq EXCEPT ![c] = Append(@, NextWaiter(g, 0, TokenOf(s)))]
        /\ recvq' = [recvq EXCEPT ![c] = Rest(@)]
        /\ tickets' = [tickets EXCEPT ![g] = @ + 1]
        /\ UNCHANGED <<buf, closed, fired>>
    BY <1>3 DEF Send
  <2>2. Waiting /\ Grows(g) /\ c \in Sources
    BY <2>1, StepTells, ChannelsAreSources DEF CommInv
  <2>3. \A x \in Sources : ~ HasNew(recvq'[x], g)
    <3>1. \A x \in Sources : Kept(recvq[x], recvq'[x])
      BY <2>1, <2>2, ReceiversRest DEF NoRoom
    <3> QED BY <2>2, <3>1, KeptHasNoNew
  <2>4. \A d \in Channels \ {c} : ~ HasNew(sendq'[d], g)
    <3>1. \A d \in Channels \ {c} : sendq'[d] = sendq[d]
      BY <2>1, <2>2 DEF Waiting, QueueTypes
    <3> QED BY <2>2, <3>1, KeptSame, KeptHasNoNew
  <2>5. ParksWhereItMay(g)
    BY <2>1, <2>3, <2>4 DEF ParksWhereItMay, FullAt, NoRoom
  <2> QED BY <1>1, <2>1, <2>2, <2>5, GrowsMeet DEF sourceVars
<1> QED BY <1>2, <1>3

LEMMA NotifyMeets ==
  ASSUME CommInv, CommStep, MeetInv, NEW g \in Goroutines, NEW c \in Channels,
         NEW s \in Operand, Notify(g, c, s)
  PROVE  MeetInv'
<1>1. UNCHANGED sourceVars
  BY DEF Notify
<1>2. CASE SendNow(g, c, s, 0)
  BY <1>1, <1>2, SendNowMeets
<1>3. CASE ~ SendNow(g, c, s, 0)
  <2>1. UNCHANGED <<tickets, buf, closed>>
    BY <1>3 DEF Notify, chanVars
  <2>2. Shrinks
    BY <2>1, StepTells
  <2> QED BY <1>1, <2>1, <2>2, StillMeet DEF sourceVars
<1> QED BY <1>2, <1>3

LEMMA TakeNowMeets ==
  ASSUME CommInv, CommStep, MeetInv, NEW g \in Goroutines, NEW c \in Channels, NEW i \in Nat,
         TakeNow(g, c, i)
  PROVE  MeetInv'
<1>1. UNCHANGED <<timer, pending, done>>
  BY DEF TakeNow, sourceVars
<1>2. Shrinks
  <2>1. UNCHANGED tickets
    BY DEF TakeNow, TakeFromBuffer, TakeFromSender, TakeFromUnheld, TakeFromClosed, waitVars
  <2> QED BY <2>1, StepTells
<1>3. CASE UNCHANGED <<buf, closed>>
  BY <1>1, <1>2, <1>3, StillMeet
<1>4. CASE TakeFromBuffer(g, c, i)
  <2> DEFINE b == buf[c]
  <2>1. c \in Sources /\ b # <<>> /\ closed' = closed
    BY <1>4, ChannelsAreSources DEF TakeFromBuffer
  <2>2. buf \in [Channels -> Seq(Token)] /\ b \in Seq(Token)
    BY DEF CommInv, DataTypes
  <2>3. Tail(b) \in Seq(Token) /\ Len(Tail(b)) = Len(b) - 1 /\ Len(b) \in Nat \ {0}
    BY <2>1, <2>2, HeadTailProperties, LenProperties, EmptySeq
  <2>4. Live(recvq[c]) = {} /\ Len(b) <= Capacity[c] /\ Capacity[c] \in Nat
    BY <2>1, CommAssumption DEF MeetInv, NoMissedRendezvous, BufFits
  <2>5. Steady(c) \/ Deserted(c)
    <3>1. CASE Live(sendq[c]) = {}
      <4>1. buf'[c] = Tail(b)
        BY <1>4, <2>2, <3>1 DEF TakeFromBuffer
      <4>2. LiveNow(sendq'[c]) = {} /\ LiveNow(recvq'[c]) = {}
        BY <1>2, <2>1, <2>4, <3>1, NobodyStays
      <4>3. Len(buf'[c]) <= Capacity[c]
        BY <2>3, <2>4, <4>1
      <4> QED BY <4>2, <4>3 DEF Deserted
    <3>2. CASE Live(sendq[c]) # {}
      <4>1. buf'[c] = Append(Tail(b), TokenOf(Popped(sendq[c]).s))
        BY <1>4, <2>2, <3>2 DEF TakeFromBuffer
      <4>3. Popped(sendq[c]).s \in Operand
        <5>1. sendq[c] \in Seq(Sender)
          BY DEF CommInv, Waiting, QueueTypes
        <5>2. Popped(sendq[c]) \in Sender
          BY <3>2, <5>1, RestFacts
        <5> QED BY <5>2 DEF Sender
      <4>4. TokenOf(Popped(sendq[c]).s) \in Token
        BY <4>3, TokenFacts DEF CommInv, DataTypes
      <4>5. Len(buf'[c]) = Len(Tail(b)) + 1
        BY <2>3, <4>1, <4>4, AppendProperties
      <4> QED BY <2>1, <2>3, <4>5 DEF Steady
    <3> QED BY <3>1, <3>2
  <2>6. \A d \in Channels \ {c} : Steady(d)
    BY <1>4, <2>1, <2>2 DEF TakeFromBuffer, Steady
  <2>7. ChannelsMeet
    BY <2>5, <2>6 DEF ChannelsMeet
  <2>8. TimersMeet /\ ContextsMeet
    BY <1>1 DEF TimersMeet, ContextsMeet
  <2> QED BY <1>2, <2>7, <2>8, ShrinksMeet
<1> QED BY <1>3, <1>4 DEF TakeNow, TakeFromSender, TakeFromUnheld, TakeFromClosed, chanVars

LEMMA ReceiveNowMeets ==
  ASSUME CommInv, CommStep, MeetInv, NEW g \in Goroutines, NEW x \in Sources, NEW i \in Nat,
         ReceiveNow(g, x, i)
  PROVE  MeetInv'
<1>1. CASE x \in Channels /\ TakeNow(g, x, i)
  BY <1>1, TakeNowMeets
<1>2. CASE x \in Timers /\ TakeTick(g, x, i)
  <2>1. /\ pending' = [pending EXCEPT ![x] = NoTok]
        /\ UNCHANGED <<timer, done, buf, closed, tickets>>
    BY <1>2 DEF TakeTick, chanVars, waitVars
  <2>2. ChannelsMeet /\ ContextsMeet /\ Shrinks
    BY <2>1, StepTells DEF ChannelsMeet, ContextsMeet, Steady
  <2>3. TimersMeet
    BY <1>2, <2>1 DEF TimersMeet, CommInv, DataTypes
  <2> QED BY <2>2, <2>3, ShrinksMeet
<1>3. CASE x \in Contexts /\ SeeDone(x, i)
  <2>1. UNCHANGED <<timer, pending, done, buf, closed, tickets>>
    BY <1>3 DEF SeeDone, chanVars, waitVars, sourceVars
  <2> QED BY <2>1, StepTells, StillMeet
<1> QED BY <1>1, <1>2, <1>3 DEF ReceiveNow

LEMMA RecvMeets ==
  ASSUME CommInv, CommStep, MeetInv, NEW g \in Goroutines, NEW x \in Sources, Recv(g, x)
  PROVE  MeetInv'
<1>1. CASE ReceiveNow(g, x, 0)
  BY <1>1, ReceiveNowMeets
<1>2. CASE ~ ReceiveNow(g, x, 0)
  <2>1. /\ Empty(x)
        /\ sendq' = [c \in Channels |-> IF c = x THEN Rest(sendq[c]) ELSE sendq[c]]
        /\ recvq' = [recvq EXCEPT ![x] = Append(@, NextWaiter(g, 0, NoTok))]
        /\ tickets' = [tickets EXCEPT ![g] = @ + 1]
        /\ UNCHANGED <<buf, closed, fired, timer, pending, done>>
    BY <1>2 DEF Recv, sourceVars
  <2>2. Waiting /\ Grows(g)
    BY <2>1, StepTells DEF CommInv
  <2>3. ASSUME NEW c \in Channels PROVE ~ HasNew(sendq'[c], g)
    <3>1. sendq[c] \in Seq(Sender)
      BY <2>2 DEF Waiting, QueueTypes
    <3>2. CASE c = x
      <4>1. Live(sendq[c]) = {} /\ sendq'[c] = Rest(sendq[c])
        BY <2>1, <3>2, CommAssumption DEF Empty
      <4>2. Kept(sendq[c], Rest(sendq[c]))
        BY <2>1, <3>1, <4>1, KeptRest
      <4> QED BY <2>2, <4>1, <4>2, KeptHasNoNew
    <3>3. CASE c # x
      <4>1. sendq'[c] = sendq[c]
        BY <2>1, <3>3
      <4> QED BY <2>2, <4>1, KeptSame, KeptHasNoNew
    <3> QED BY <3>2, <3>3
  <2>4. \A y \in Sources \ {x} : ~ HasNew(recvq'[y], g)
    <3>1. \A y \in Sources \ {x} : recvq'[y] = recvq[y]
      BY <2>1, <2>2 DEF Waiting, QueueTypes
    <3> QED BY <2>2, <3>1, KeptSame, KeptHasNoNew
  <2>5. ParksWhereItMay(g)
    BY <2>1, <2>3, <2>4 DEF ParksWhereItMay
  <2> QED BY <2>1, <2>2, <2>5, GrowsMeet
<1> QED BY <1>1, <1>2

LEMMA SelectMeets ==
  ASSUME CommInv, CommStep, MeetInv, NEW g \in Goroutines, NEW cases \in Selects(g),
         NEW default \in BOOLEAN, Select(g, cases, default)
  PROVE  MeetInv'
<1>1. ASSUME NEW i \in DOMAIN cases, cases[i].dir = "send",
             SendNow(g, cases[i].on, cases[i].s, i), UNCHANGED sourceVars
      PROVE  MeetInv'
  <2>1. i \in Nat /\ cases[i].on \in Channels /\ cases[i].s \in Operand
    BY <1>1, CaseFacts
  <2> QED BY <1>1, <2>1, SendNowMeets
<1>2. ASSUME NEW i \in DOMAIN cases, cases[i].dir = "recv", ReceiveNow(g, cases[i].on, i)
      PROVE  MeetInv'
  <2>1. i \in Nat /\ cases[i].on \in Sources
    BY <1>2, CaseFacts
  <2> QED BY <1>2, <2>1, ReceiveNowMeets
<1>3. CASE UNCHANGED <<tokenVars, chanVars, waitVars, sourceVars>>
  <2>1. UNCHANGED <<timer, pending, done, buf, closed, tickets>>
    BY <1>3 DEF chanVars, waitVars, sourceVars
  <2> QED BY <2>1, StepTells, StillMeet
<1>4. CASE /\ \A i \in DOMAIN cases : ~ CaseReady(cases[i])
           /\ sendq' = Enqueued(sendq, g, cases, "send")
           /\ recvq' = Enqueued(recvq, g, cases, "recv")
           /\ tickets' = [tickets EXCEPT ![g] = @ + 1]
           /\ UNCHANGED <<tokenVars, buf, closed, fired, sourceVars>>
  <2>1. Waiting /\ Grows(g) /\ UNCHANGED <<timer, pending, done>>
    BY <1>4, StepTells DEF CommInv, sourceVars
  <2>2. sendq \in [Channels -> Seq(Sender)] /\ recvq \in [Sources -> Seq(Receiver)]
    BY <2>1 DEF Waiting, QueueTypes
  <2>3. ASSUME NEW c \in Channels, HasNew(sendq'[c], g)
        PROVE  FullAt(c)
    <3>1. sendq'[c] # sendq[c]
      BY <2>1, <2>3, KeptSame, KeptHasNoNew
    <3>2. PICK i \in DOMAIN cases : cases[i].dir = "send" /\ cases[i].on = c
      BY <1>4, <2>2, <3>1 DEF Enqueued
    <3>3. ~ CaseReady(cases[i])
      BY <1>4
    <3>4. /\ ~ closed[c]
          /\ Live(recvq[c]) = {}
          /\ ~ (Len(buf[c]) < Capacity[c])
      BY <3>2, <3>3 DEF CaseReady
    <3>5. Len(buf[c]) \in Nat /\ Capacity[c] \in Nat
      BY CommAssumption, LenProperties DEF CommInv, DataTypes
    <3> QED BY <3>4, <3>5 DEF FullAt
  <2>4. ASSUME NEW x \in Sources, HasNew(recvq'[x], g)
        PROVE  Empty(x)
    <3>1. recvq'[x] # recvq[x]
      BY <2>1, <2>4, KeptSame, KeptHasNoNew
    <3>2. PICK i \in DOMAIN cases : cases[i].dir = "recv" /\ cases[i].on = x
      BY <1>4, <2>2, <3>1 DEF Enqueued
    <3> QED BY <1>4, <3>2 DEF CaseReady
  <2>5. ParksWhereItMay(g)
    BY <2>3, <2>4 DEF ParksWhereItMay
  <2> QED BY <1>4, <2>1, <2>5, GrowsMeet
<1> QED BY <1>1, <1>2, <1>3, <1>4 DEF Select

\* Queues that are emptied have no live waiters.
LEMMA NobodyInNone == LiveNow(<<>>) = {}
  BY DEF LiveNow

LEMMA CloseMeets ==
  ASSUME CommInv, CommStep, MeetInv, NEW g \in Goroutines, NEW c \in Channels, Close(g, c)
  PROVE  MeetInv'
<1>1. UNCHANGED <<timer, pending, done>>
  BY DEF Close, sourceVars
<1>2. Shrinks
  <2>1. UNCHANGED tickets
    BY DEF Close, waitVars
  <2> QED BY <2>1, StepTells
<1>3. CASE closed[c]
  <2>1. UNCHANGED <<buf, closed>>
    BY <1>3 DEF Close, chanVars
  <2> QED BY <1>1, <1>2, <2>1, StillMeet
<1>4. CASE ~ closed[c]
  <2>1. /\ closed' = [closed EXCEPT ![c] = TRUE]
        /\ sendq' = [sendq EXCEPT ![c] = <<>>]
        /\ recvq' = [recvq EXCEPT ![c] = <<>>]
        /\ buf' = buf
    BY <1>4 DEF Close
  <2>2. sendq'[c] = <<>> /\ recvq'[c] = <<>>
    BY <2>1, ChannelsAreSources DEF CommInv, Waiting, QueueTypes
  <2>3. Deserted(c)
    BY <2>1, <2>2, NobodyInNone DEF Deserted, MeetInv, BufFits
  <2>4. \A d \in Channels \ {c} : Steady(d)
    BY <2>1 DEF Steady, CommInv, DataTypes
  <2>5. ChannelsMeet /\ TimersMeet /\ ContextsMeet
    BY <1>1, <2>3, <2>4 DEF ChannelsMeet, TimersMeet, ContextsMeet
  <2> QED BY <1>2, <2>5, ShrinksMeet
<1> QED BY <1>3, <1>4

LEMMA RemakeMeets ==
  ASSUME CommInv, CommStep, MeetInv, NEW g \in Goroutines, NEW c \in Channels, Remake(g, c)
  PROVE  MeetInv'
<1>1. UNCHANGED <<timer, pending, done>>
  BY DEF Remake, sourceVars
<1>2. Shrinks
  <2>1. UNCHANGED tickets
    BY DEF Remake, waitVars
  <2> QED BY <2>1, StepTells
<1>3. CASE UNCHANGED chanVars
  BY <1>1, <1>2, <1>3, StillMeet DEF chanVars
<1>4. CASE /\ buf' = [buf EXCEPT ![c] = <<>>]
           /\ closed' = [closed EXCEPT ![c] = FALSE]
           /\ sendq' = [sendq EXCEPT ![c] = <<>>]
           /\ recvq' = [recvq EXCEPT ![c] = <<>>]
  <2>1. sendq'[c] = <<>> /\ recvq'[c] = <<>> /\ buf'[c] = <<>>
    BY <1>4, ChannelsAreSources DEF CommInv, Waiting, QueueTypes, DataTypes
  <2>2. Len(buf'[c]) = 0 /\ Capacity[c] \in Nat
    BY <2>1, EmptySeq, CommAssumption
  <2>3. Len(buf'[c]) <= Capacity[c]
    BY <2>2
  <2>4. Deserted(c)
    BY <2>1, <2>3, NobodyInNone DEF Deserted
  <2>5. \A d \in Channels \ {c} : Steady(d)
    BY <1>4 DEF Steady, CommInv, DataTypes
  <2>6. ChannelsMeet /\ TimersMeet /\ ContextsMeet
    BY <1>1, <2>4, <2>5 DEF ChannelsMeet, TimersMeet, ContextsMeet
  <2> QED BY <1>2, <2>6, ShrinksMeet
<1> QED BY <1>3, <1>4 DEF Remake

\* A context ends.
LEMMA FinishesMeet ==
  ASSUME CommInv, CommStep, MeetInv, NEW cx \in Contexts, Finishes(cx)
  PROVE  MeetInv'
<1>1. /\ done' = [done EXCEPT ![cx] = TRUE]
      /\ recvq' = [recvq EXCEPT ![cx] = <<>>]
      /\ UNCHANGED <<tickets, timer, pending, buf, closed>>
  BY DEF Finishes, chanVars
<1>2. Shrinks
  BY <1>1, StepTells
<1>3. recvq'[cx] = <<>>
  BY <1>1, ChannelsAreSources DEF CommInv, Waiting, QueueTypes
<1>4. ChannelsMeet /\ TimersMeet
  BY <1>1 DEF ChannelsMeet, Steady, TimersMeet
<1>5. ContextsMeet
  BY <1>1, <1>3, NobodyInNone DEF ContextsMeet, CommInv, DataTypes
<1> QED BY <1>2, <1>4, <1>5, ShrinksMeet

LEMMA CancelMeets ==
  ASSUME CommInv, CommStep, MeetInv, NEW g \in Goroutines, NEW cx \in Contexts, Cancel(g, cx)
  PROVE  MeetInv'
<1>1. CASE done[cx]
  <2>1. UNCHANGED <<timer, pending, done, buf, closed, tickets>>
    BY <1>1 DEF Cancel, chanVars, waitVars, sourceVars
  <2> QED BY <2>1, StepTells, StillMeet
<1>2. CASE ~ done[cx]
  BY <1>2, FinishesMeet DEF Cancel
<1> QED BY <1>1, <1>2

LEMMA TimerOpMeets ==
  ASSUME CommInv, CommStep, MeetInv, NEW g \in Goroutines, NEW op, NEW tm \in Timers,
         TimerOp(g, op, tm)
  PROVE  MeetInv'
<1>1. /\ pending' = [pending EXCEPT ![tm] = NoTok]
      /\ timer' = [timer EXCEPT ![tm] = IF op = "stop" THEN "stopped" ELSE "running"]
      /\ UNCHANGED <<done, buf, closed, tickets>>
  BY DEF TimerOp, chanVars, waitVars
<1>2. Shrinks
  BY <1>1, StepTells
<1>3. ChannelsMeet /\ ContextsMeet
  BY <1>1 DEF ChannelsMeet, Steady, ContextsMeet
<1>4. TimersMeet
  BY <1>1 DEF TimersMeet, CommInv, DataTypes
<1> QED BY <1>2, <1>3, <1>4, ShrinksMeet

LEMMA FireTimerMeets ==
  ASSUME CommInv, CommStep, MeetInv, NEW tm \in Timers, FireTimer(tm)
  PROVE  MeetInv'
<1>1. /\ timer' = [timer EXCEPT ![tm] = "fired"]
      /\ UNCHANGED <<done, buf, closed, tickets>>
      /\ \A t \in Timers \ {tm} : pending'[t] = pending[t]
  BY DEF FireTimer, chanVars, CommInv, DataTypes
<1>2. Shrinks
  BY <1>1, StepTells
<1>3. ChannelsMeet /\ ContextsMeet
  BY <1>1 DEF ChannelsMeet, Steady, ContextsMeet
<1>4. timer'[tm] = "fired" /\ \A t \in Timers \ {tm} : timer'[t] = timer[t]
  BY <1>1 DEF CommInv, DataTypes
<1>5. pending'[tm] = NoTok \/ LiveNow(recvq'[tm]) = {}
  <2>1. tm \in Sources
    BY ChannelsAreSources
  <2>2. CASE Live(recvq[tm]) = {}
    BY <1>2, <2>1, <2>2, NobodyStays
  <2>3. CASE Live(recvq[tm]) # {}
    BY <2>3 DEF FireTimer, MeetInv, NoMissedSignal
  <2> QED BY <2>2, <2>3
<1>6. TimersMeet
  BY <1>1, <1>4, <1>5 DEF TimersMeet
<1> QED BY <1>2, <1>3, <1>6, ShrinksMeet

LEMMA StepMeets ==
  ASSUME CommInv, MeetInv, [CommNext]_commVars
  PROVE  MeetInv'
<1>1. CommStep
  BY StepKeeps
<1>2. CASE UNCHANGED <<chanVars, waitVars, sourceVars>>
  <2>1. UNCHANGED <<timer, pending, done, buf, closed, tickets>>
    BY <1>2 DEF chanVars, waitVars, sourceVars
  <2> QED BY <1>1, <2>1, StepTells, StillMeet
<1>3. ASSUME NEW g \in Goroutines, Operation(g)
      PROVE  MeetInv'
  <2>1. Sendable(g) \subseteq Operand
    <3>1. \A v \in Values : Raw(g, v) \in Operand
      BY DEF Raw, Operand, Minters, Payloads
    <3>2. DOMAIN loc \subseteq Operand
      BY TokensAreOperands DEF CommInv, DataTypes
    <3> QED BY <3>1, <3>2 DEF Sendable
  <2> QED BY <1>1, <1>2, <1>3, <2>1, SendMeets, NotifyMeets, RecvMeets, SelectMeets, CloseMeets,
             RemakeMeets, CancelMeets DEF Operation
<1>4. ASSUME NEW g \in Goroutines, NEW op \in {"start", "reset", "stop"}, NEW tm \in Timers,
             TimerOp(g, op, tm)
      PROVE  MeetInv'
  BY <1>1, <1>4, TimerOpMeets
<1>5. ASSUME NEW cx \in Contexts, FireContext(cx)
      PROVE  MeetInv'
  BY <1>1, <1>5, FinishesMeet DEF FireContext
<1>6. ASSUME NEW tm \in Timers, FireTimer(tm)
      PROVE  MeetInv'
  BY <1>1, <1>6, FireTimerMeets
<1> QED BY <1>2, <1>3, <1>4, <1>5, <1>6 DEF CommNext, commVars

LEMMA MeetInvariant == CommSpec => []MeetInv
<1>1. CommInit => MeetInv
  <2> SUFFICES ASSUME CommInit PROVE MeetInv
    OBVIOUS
  <2>1. \A c \in Channels : buf[c] = <<>> /\ Live(sendq[c]) = {}
    BY DEF CommInit, Live
  <2>2. \A x \in Sources : Live(recvq[x]) = {}
    BY DEF CommInit, Live
  <2>3. \A c \in Channels : Len(buf[c]) = 0 /\ Capacity[c] \in Nat
    BY <2>1, EmptySeq, CommAssumption
  <2>4. BufFits
    BY <2>3 DEF BufFits
  <2>5. NoMissedRendezvous
    BY <2>1, <2>2, ChannelsAreSources DEF NoMissedRendezvous
  <2>6. NoMissedSignal
    BY DEF CommInit, NoMissedSignal
  <2> QED BY <2>4, <2>5, <2>6 DEF MeetInv
<1>2. CommInv /\ MeetInv /\ [CommNext]_commVars => MeetInv'
  BY StepMeets
<1> QED BY <1>1, <1>2, CommInvariant, PTL DEF CommSpec

\* Nobody waits at a channel that could serve him: a sender waits only while
\* the channel is open and full, a receiver only while it is open and empty,
\* and no sender waits while another goroutine waits to receive (Sim.send,
\* Sim.recv, Sim.caseReady).
THEOREM NoRendezvousIsMissed == CommSpec => []NoMissedRendezvous
<1>1. MeetInv => NoMissedRendezvous
  BY DEF MeetInv
<1> QED BY <1>1, MeetInvariant, PTL

\* Nobody waits for a tick that has come or for a context that is done, and a
\* tick stays in a timer only after it has fired (Sim.fireTimer,
\* Sim.takeTick, Sim.finishContext).
THEOREM NoSignalIsMissed == CommSpec => []NoMissedSignal
<1>1. MeetInv => NoMissedSignal
  BY DEF MeetInv
<1> QED BY <1>1, MeetInvariant, PTL

-----------------------------------------------------------------------------
(* Every token is where the view draws it.                                 *)

BufferInPlace(c) ==
  /\ \A k \in DOMAIN buf[c] : buf[c][k] \in DOMAIN loc /\ loc[buf[c][k]] = Slot(c, k)
  /\ \A x \in DOMAIN loc : loc[x].node = c => loc[x].slot \in DOMAIN buf[c] /\ buf[c][loc[x].slot] = x
TickInPlace(tm) ==
  /\ \A x \in DOMAIN loc : loc[x].node = tm => pending[tm] = x
  /\ pending[tm] # NoTok => pending[tm] \in DOMAIN loc /\ loc[pending[tm]] = At(tm)
HandsInPlace ==
  \A c \in Channels : \A k \in Live(sendq[c]) :
    sendq[c][k].i = 0 => sendq[c][k].s \in HeldBy(loc, sendq[c][k].g)

\* A node has made every token that bears its name.
Numbered == \A x \in DOMAIN loc : x.n <= born[x.by]

PlaceInv ==
  /\ \A c \in Channels : BufferInPlace(c)
  /\ \A tm \in Timers : TickInPlace(tm)
  /\ HandsInPlace
  /\ Numbered

\* The two maps agree on the tokens at other nodes than those of A.
Apart(L, M, A) ==
  /\ \A x \in DOMAIN L : L[x].node \notin A => x \in DOMAIN M /\ M[x] = L[x]
  /\ \A x \in DOMAIN M : M[x].node \notin A => x \in DOMAIN L /\ L[x] = M[x]

LEMMA DropFacts ==
  ASSUME NEW L, NEW g
  PROVE  /\ \A x \in DOMAIN DropHeld(L, g) : x \in DOMAIN L /\ DropHeld(L, g)[x] = L[x]
         /\ \A x \in DOMAIN L : L[x].node # g => x \in DOMAIN DropHeld(L, g)
  BY DEF DropHeld, Without, HeldBy

LEMMA ShelvedFacts ==
  ASSUME NEW L, NEW c, NEW b, \A i, j \in DOMAIN b : b[i] = b[j] => i = j
  PROVE  /\ DOMAIN Shelved(L, c, b) = DOMAIN L
         /\ \A k \in DOMAIN b : b[k] \in DOMAIN L => Shelved(L, c, b)[b[k]] = Slot(c, k)
         /\ \A x \in DOMAIN L : (\A k \in DOMAIN b : b[k] # x) => Shelved(L, c, b)[x] = L[x]
<1>1. ASSUME NEW k \in DOMAIN b, b[k] \in DOMAIN L
      PROVE  Shelved(L, c, b)[b[k]] = Slot(c, k)
  <2>1. (CHOOSE j \in DOMAIN b : b[j] = b[k]) = k
    OBVIOUS
  <2> QED BY <1>1, <2>1 DEF Shelved
<1> QED BY <1>1 DEF Shelved

LEMMA ApartSame ==
  ASSUME NEW L, NEW A
  PROVE  Apart(L, L, A)
  BY DEF Apart

LEMMA ApartDrop ==
  ASSUME NEW L, NEW A, NEW g \in A
  PROVE  Apart(L, DropHeld(L, g), A)
<1> DEFINE M == DropHeld(L, g)
<1>1. /\ \A x \in DOMAIN M : x \in DOMAIN L /\ M[x] = L[x]
      /\ \A x \in DOMAIN L : L[x].node # g => x \in DOMAIN M
  BY DropFacts
<1> HIDE DEF M
<1>2. Apart(L, M, A)
  BY <1>1 DEF Apart
<1> QED BY <1>2 DEF M

LEMMA ApartWithout ==
  ASSUME NEW L, NEW A, NEW T, \A x \in T \cap DOMAIN L : L[x].node \in A
  PROVE  Apart(L, Without(L, T), A)
  BY DEF Apart, Without

\* A token goes from one place of A to another.
LEMMA ApartMoved ==
  ASSUME NEW L, NEW M, NEW A, Apart(L, M, A), NEW tok, NEW place,
         tok \in DOMAIN L => L[tok].node \in A, place.node \in A
  PROVE  Apart(L, Moved(M, tok, place), A)
<1> DEFINE N == Moved(M, tok, place)
<1>1. /\ DOMAIN N = DOMAIN M \cup {tok}
      /\ N[tok] = place
      /\ \A x \in DOMAIN M : x # tok => N[x] = M[x]
  BY DEF Moved
<1> HIDE DEF N
<1>2. ASSUME NEW x \in DOMAIN L, L[x].node \notin A
      PROVE  x \in DOMAIN N /\ N[x] = L[x]
  BY <1>1, <1>2 DEF Apart
<1>3. ASSUME NEW x \in DOMAIN N, N[x].node \notin A
      PROVE  x \in DOMAIN L /\ L[x] = N[x]
  <2>1. x # tok /\ x \in DOMAIN M /\ N[x] = M[x]
    BY <1>1, <1>3
  <2> QED BY <1>3, <2>1 DEF Apart
<1>4. Apart(L, N, A)
  BY <1>2, <1>3 DEF Apart
<1> QED BY <1>4 DEF N

LEMMA NoTokIsNoToken == NoTok \notin Token
  BY DEF NoTok, Token

\* The tokens at nodes that a step does not touch stay in place.
LEMMA UntouchedInPlace ==
  ASSUME PlaceInv, NEW A, Apart(loc, loc', A)
  PROVE  /\ \A c \in Channels : c \notin A /\ buf'[c] = buf[c] => BufferInPlace(c)'
         /\ \A tm \in Timers : tm \notin A /\ pending'[tm] = pending[tm] => TickInPlace(tm)'
<1>1. ASSUME NEW c \in Channels, c \notin A, buf'[c] = buf[c]
      PROVE  BufferInPlace(c)'
  <2>1. BufferInPlace(c)
    BY DEF PlaceInv
  <2>2. ASSUME NEW k \in DOMAIN buf'[c]
        PROVE  buf'[c][k] \in DOMAIN loc' /\ loc'[buf'[c][k]] = Slot(c, k)
    <3>1. buf[c][k] \in DOMAIN loc /\ loc[buf[c][k]] = Slot(c, k) /\ Slot(c, k).node = c
      BY <1>1, <2>1 DEF BufferInPlace, Slot
    <3> QED BY <1>1, <3>1 DEF Apart
  <2>3. ASSUME NEW x \in DOMAIN loc', loc'[x].node = c
        PROVE  loc'[x].slot \in DOMAIN buf'[c] /\ buf'[c][loc'[x].slot] = x
    <3>1. x \in DOMAIN loc /\ loc[x] = loc'[x]
      BY <1>1, <2>3 DEF Apart
    <3> QED BY <1>1, <2>1, <2>3, <3>1 DEF BufferInPlace
  <2> QED BY <2>2, <2>3 DEF BufferInPlace, Slot
<1>2. ASSUME NEW tm \in Timers, tm \notin A, pending'[tm] = pending[tm]
      PROVE  TickInPlace(tm)'
  <2>1. TickInPlace(tm)
    BY DEF PlaceInv
  <2>2. ASSUME NEW x \in DOMAIN loc', loc'[x].node = tm
        PROVE  pending'[tm] = x
    <3>1. x \in DOMAIN loc /\ loc[x] = loc'[x]
      BY <1>2, <2>2 DEF Apart
    <3> QED BY <1>2, <2>1, <2>2, <3>1 DEF TickInPlace
  <2>3. ASSUME pending'[tm] # NoTok
        PROVE  pending'[tm] \in DOMAIN loc' /\ loc'[pending'[tm]] = At(tm)
    <3>1. pending[tm] \in DOMAIN loc /\ loc[pending[tm]] = At(tm) /\ At(tm).node = tm
      BY <1>2, <2>1, <2>3 DEF TickInPlace, At
    <3> QED BY <1>2, <3>1 DEF Apart
  <2> QED BY <2>2, <2>3 DEF TickInPlace, At, NoTok
<1> QED BY <1>1, <1>2

\* A sender that waits has its token at hand as long as nobody serves him.
LEMMA UntouchedHands ==
  ASSUME HandsInPlace, Shrinks, NEW A, Apart(loc, loc', A),
         \A h \in Goroutines \cap A : WaitsOf(h)' = {},
         CommInv
  PROVE  HandsInPlace'
<1> SUFFICES ASSUME NEW c \in Channels, NEW k \in LiveNow(sendq'[c]), sendq'[c][k].i = 0
             PROVE  sendq'[c][k].s \in HeldBy(loc', sendq'[c][k].g)
  BY LiveNowFacts DEF HandsInPlace, HeldBy
<1>1. PICK j \in Live(sendq[c]) : sendq[c][j] = sendq'[c][k]
  BY KeptLive DEF Shrinks, KeptAll
<1>2. /\ sendq'[c][k].g \in Goroutines
      /\ sendq'[c][k].s \in HeldBy(loc, sendq'[c][k].g)
  <2>1. sendq[c][j].g \in Goroutines
    BY SendersAreKnown DEF CommInv, Live
  <2>2. sendq[c][j].s \in HeldBy(loc, sendq[c][j].g)
    BY <1>1 DEF HandsInPlace
  <2> QED BY <1>1, <2>1, <2>2
<1>3. ASSUME NEW h \in Goroutines, sendq'[c][k].g = h, sendq'[c][k].s \in HeldBy(loc, h)
      PROVE  sendq'[c][k].s \in HeldBy(loc', h)
  <2>1. QueuedNow(sendq'[c], h)
    BY <1>3 DEF QueuedNow, LiveNow
  <2>2. WaitsOf(h)' # {}
    BY <2>1, WaitsAfter
  <2>3. h \notin A
    BY <2>2
  <2> QED BY <1>3, <2>3 DEF HeldBy, Apart
<1> QED BY <1>2, <1>3

\* A goroutine parks, perhaps to send the token it has at hand.
LEMMA ParkedHands ==
  ASSUME CommInv, halted = "no", HandsInPlace, NEW g \in Goroutines, Grows(g),
         Apart(loc, loc', {g}),
         \A c \in Channels : \A k \in DOMAIN sendq'[c] :
           \/ \E j \in DOMAIN sendq[c] : sendq[c][j] = sendq'[c][k]
           \/ sendq'[c][k].i = 0 => sendq'[c][k].s \in HeldBy(loc', sendq'[c][k].g)
  PROVE  HandsInPlace'
<1> SUFFICES ASSUME NEW c \in Channels, NEW k \in LiveNow(sendq'[c]), sendq'[c][k].i = 0
             PROVE  sendq'[c][k].s \in HeldBy(loc', sendq'[c][k].g)
  BY LiveNowFacts DEF HandsInPlace, HeldBy
<1>1. k \in DOMAIN sendq'[c] /\ Shared(sendq'[c][k]) \notin fired
  BY DEF LiveNow, Grows
<1>2. ASSUME NEW j \in DOMAIN sendq[c], sendq[c][j] = sendq'[c][k]
      PROVE  sendq'[c][k].s \in HeldBy(loc', sendq'[c][k].g)
  <2>1. j \in Live(sendq[c])
    BY <1>1, <1>2 DEF Live
  <2>2. sendq[c][j].s \in HeldBy(loc, sendq[c][j].g)
    BY <1>2, <2>1 DEF HandsInPlace
  <2>3. status[sendq[c][j].g] = "blocked"
    BY <1>1, <1>2, SendersAreKnown, LiveIsBlocked DEF CommInv
  <2>4. sendq[c][j].g # g
    BY <2>3 DEF Grows
  <2>5. sendq[c][j].s \in HeldBy(loc', sendq[c][j].g)
    BY <2>2, <2>4 DEF HeldBy, Apart
  <2> QED BY <1>2, <2>5
<1> QED BY <1>1, <1>2

\* Whoever runs or is served in a step waits nowhere after it.
LEMMA RunnersLeave ==
  ASSUME CommInv, Shrinks, NEW g \in Goroutines, Runs(g)
  PROVE  WaitsOf(g)' = {}
<1>1. halted = "no" /\ status[g] = "running" /\ Waiting
  BY NilIsNoGoroutine DEF Runs, CommInv, Sched, ReadyExact
<1>2. WaitsOf(g) = {}
  BY <1>1, RunnersWaitNowhere
<1> QED BY <1>1, <1>2, ShrinksWaits

\* A step in which nobody parks, and which touches the nodes of A.
LEMMA ShrinksPlace ==
  ASSUME CommInv, PlaceInv, Shrinks, NEW A, Apart(loc, loc', A),
         \A h \in Goroutines \cap A : WaitsOf(h)' = {},
         \A c \in Channels : BufferInPlace(c)' \/ (c \notin A /\ buf'[c] = buf[c]),
         \A tm \in Timers : TickInPlace(tm)' \/ (tm \notin A /\ pending'[tm] = pending[tm]),
         Numbered'
  PROVE  PlaceInv'
<1>1. HandsInPlace'
  BY UntouchedHands DEF PlaceInv
<1>2. \A c \in Channels : BufferInPlace(c)'
  BY UntouchedInPlace
<1>3. \A tm \in Timers : TickInPlace(tm)'
  BY UntouchedInPlace
<1> QED BY <1>1, <1>2, <1>3 DEF PlaceInv

\* A step that moves no token.
LEMMA PlaceStays ==
  ASSUME CommInv, PlaceInv, Shrinks, UNCHANGED <<loc, born, buf, pending>>
  PROVE  PlaceInv'
<1>1. Apart(loc, loc', {})
  BY ApartSame
<1>2. Numbered'
  BY DEF PlaceInv, Numbered
<1> QED BY <1>1, <1>2, ShrinksPlace

\* A token that is new, or that a goroutine may use, and the counts of tokens.
LEMMA TokenIsFree ==
  ASSUME DataTypes, Numbered, NEW s \in Operand, NEW f, MayUse(f, s)
  PROVE  /\ TokenOf(s) \in DOMAIN loc => loc[TokenOf(s)].node = f
         /\ \A x \in DOMAIN loc \cup {TokenOf(s)} : x.n <= Minted(s)[x.by]
<1>1. s.by \in Minters /\ s.n \in Nat /\ born \in [Minters -> Nat] /\ DOMAIN loc \subseteq Token
  BY DEF DataTypes, Operand
<1>2. \A x \in DOMAIN loc : x.by \in Minters /\ x.n \in Nat /\ x.n <= born[x.by] /\ born[x.by] \in Nat
  BY <1>1 DEF Numbered, Token
<1>3. CASE s.n = 0
  <2> DEFINE n == born[s.by] + 1
  <2>1. TokenOf(s) = [s EXCEPT !.n = n] /\ Minted(s) = [born EXCEPT ![s.by] = n]
    BY <1>3 DEF TokenOf, Minted
  <2>2. TokenOf(s).by = s.by /\ TokenOf(s).n = n
    BY <2>1 DEF Operand
  <2>3. n \in Nat /\ n > born[s.by]
    BY <1>1
  <2> HIDE DEF n
  <2>4. TokenOf(s) \notin DOMAIN loc
    BY <1>1, <1>2, <2>2, <2>3
  <2>5. Minted(s)[s.by] = n /\ \A m \in Minters \ {s.by} : Minted(s)[m] = born[m]
    BY <1>1, <2>1
  <2>6. \A x \in DOMAIN loc : x.n <= Minted(s)[x.by]
    BY <1>1, <1>2, <2>3, <2>5
  <2> QED BY <2>2, <2>3, <2>4, <2>5, <2>6
<1>4. CASE s.n # 0
  BY <1>2, <1>4 DEF TokenOf, Minted, MayUse
<1> QED BY <1>3, <1>4

\* The nodes of a scene are different.
LEMMA NodesDiffer ==
  /\ \A g \in Goroutines : g \notin Channels /\ g \notin Timers
  /\ \A c \in Channels : c \notin Goroutines /\ c \notin Timers
  /\ \A tm \in Timers : tm \notin Goroutines /\ tm \notin Channels
  BY CommAssumption DEF Sources

\* A step that touches only goroutines: those of A, who wait nowhere after it.
LEMMA HandsPlace ==
  ASSUME CommInv, PlaceInv, Shrinks, NEW A, A \subseteq Goroutines, Apart(loc, loc', A),
         \A h \in A : WaitsOf(h)' = {}, UNCHANGED <<buf, pending>>, Numbered'
  PROVE  PlaceInv'
<1>1. \A c \in Channels : c \notin A /\ buf'[c] = buf[c]
  BY NodesDiffer
<1>2. \A tm \in Timers : tm \notin A /\ pending'[tm] = pending[tm]
  BY NodesDiffer
<1>3. \A h \in Goroutines \cap A : WaitsOf(h)' = {}
  OBVIOUS
<1>4. Numbered'
  OBVIOUS
<1> QED BY <1>1, <1>2, <1>3, <1>4, ShrinksPlace

\* A token goes from goroutine f to h, who drops what he holds, or is dropped.
LEMMA HandedOver ==
  ASSUME CommInv, PlaceInv, Shrinks, NEW f \in Goroutines, NEW h \in Goroutines,
         NEW s \in Operand, MayUse(f, s), born' = Minted(s), UNCHANGED <<buf, pending>>,
         WaitsOf(f)' = {}, WaitsOf(h)' = {},
         \/ loc' = Moved(DropHeld(loc, h), TokenOf(s), At(h))
         \/ loc' = Moved(loc, TokenOf(s), At(h))
         \/ loc' = Without(loc, {TokenOf(s)})
  PROVE  PlaceInv'
<1> DEFINE tok == TokenOf(s)
           A == {f, h}
<1>1. /\ tok \in DOMAIN loc => loc[tok].node = f
      /\ \A x \in DOMAIN loc \cup {tok} : x.n <= Minted(s)[x.by]
  BY TokenIsFree DEF CommInv, PlaceInv
<1> HIDE DEF tok
<1>2. At(h).node \in A /\ A \subseteq Goroutines
  BY DEF At
<1>3. Apart(loc, Moved(DropHeld(loc, h), tok, At(h)), A)
  <2>1. Apart(loc, DropHeld(loc, h), A)
    BY ApartDrop
  <2> QED BY <1>1, <1>2, <2>1, ApartMoved
<1>4. Apart(loc, Moved(loc, tok, At(h)), A)
  <2>1. Apart(loc, loc, A)
    BY ApartSame
  <2> QED BY <1>1, <1>2, <2>1, ApartMoved
<1>5. Apart(loc, Without(loc, {tok}), A)
  BY <1>1, ApartWithout
<1>6. Apart(loc, loc', A)
  BY <1>3, <1>4, <1>5 DEF tok
<1>7. DOMAIN loc' \subseteq DOMAIN loc \cup {tok}
  BY DEF Moved, DropHeld, Without, tok
<1>8. Numbered'
  BY <1>1, <1>7 DEF Numbered
<1> QED BY <1>2, <1>6, <1>8, HandsPlace

LEMMA ReceiverLeaves ==
  ASSUME CommInv, Shrinks, halted = "no", NEW x \in Sources, Live(recvq[x]) # {},
         Shared(Popped(recvq[x])) \in fired'
  PROVE  \E h \in Goroutines : h = Popped(recvq[x]).g /\ WaitsOf(h)' = {}
<1> PICK r : r = Popped(recvq[x])
  OBVIOUS
<1>1. r \in Receiver /\ r.g \in Goroutines /\ Shared(r) = <<r.g, tickets[r.g]>>
  BY PoppedReceiver DEF CommInv
<1>2. <<r.g, tickets[r.g]>> \in fired'
  BY <1>1
<1>3. \A h \in Goroutines : <<h, tickets[h]>> \in fired' => WaitsOf(h)' = {}
  BY ShrinksWaits DEF CommInv
<1> QED BY <1>1, <1>2, <1>3

\* A sender that is served may use what it sends.
LEMMA SenderLeaves ==
  ASSUME CommInv, PlaceInv, Shrinks, halted = "no", NEW c \in Channels, Live(sendq[c]) # {},
         SenderMay(Popped(sendq[c])), Shared(Popped(sendq[c])) \in fired'
  PROVE  /\ Popped(sendq[c]).s \in Operand
         /\ \E h \in Goroutines : /\ h = Popped(sendq[c]).g
                                 /\ MayUse(h, Popped(sendq[c]).s)
                                 /\ WaitsOf(h)' = {}
<1> PICK w : w = Popped(sendq[c])
  OBVIOUS
<1>1. w \in Sender /\ w.g \in Goroutines /\ Shared(w) = <<w.g, tickets[w.g]>>
  BY PoppedSender DEF CommInv
<1>2. <<w.g, tickets[w.g]>> \in fired'
  BY <1>1
<1>3. \A h \in Goroutines : <<h, tickets[h]>> \in fired' => WaitsOf(h)' = {}
  BY ShrinksWaits DEF CommInv
<1>4. MayUse(w.g, w.s)
  <2>1. CASE w.i # 0
    BY <2>1 DEF SenderMay
  <2>2. CASE w.i = 0
    <3>1. sendq[c] \in Seq(Sender)
      BY DEF CommInv, Waiting, QueueTypes
    <3>2. FirstLive(sendq[c]) \in Live(sendq[c]) /\ w = sendq[c][FirstLive(sendq[c])]
      BY <3>1, RestFacts DEF Popped
    <3>3. w.s \in HeldBy(loc, w.g)
      BY <2>2, <3>2 DEF PlaceInv, HandsInPlace
    <3> QED BY <3>3 DEF HeldBy, MayUse
  <2> QED BY <2>1, <2>2
<1> QED BY <1>1, <1>2, <1>3, <1>4 DEF Sender

LEMMA SendToBufferPlace ==
  ASSUME CommInv, PlaceInv, Shrinks, NEW g \in Goroutines, Runs(g), NEW c \in Channels,
         NEW s \in Operand, NEW i \in Nat, SendToBuffer(g, c, s, i), UNCHANGED pending
  PROVE  PlaceInv'
<1> DEFINE tok == TokenOf(s)
           b == buf[c]
           n == Len(b) + 1
           A == {g, c}
<1>1. /\ tok \in DOMAIN loc => loc[tok].node = g
      /\ \A x \in DOMAIN loc \cup {tok} : x.n <= Minted(s)[x.by]
  BY TokenIsFree DEF CommInv, PlaceInv, SendToBuffer
<1>2. buf \in [Channels -> Seq(Token)] /\ b \in Seq(Token) /\ tok \in Token
  BY TokenFacts DEF CommInv, DataTypes
<1>3. /\ buf' = [buf EXCEPT ![c] = Append(@, tok)]
      /\ loc' = Moved(loc, tok, Slot(c, n))
      /\ born' = Minted(s)
  BY DEF SendToBuffer
<1>4. buf'[c] = Append(b, tok) /\ \A d \in Channels \ {c} : buf'[d] = buf[d]
  BY <1>2, <1>3
<1> HIDE DEF tok, b
<1>5. /\ DOMAIN buf'[c] = 1..n
      /\ DOMAIN b = 1..(n - 1)
      /\ n \in Nat \ {0}
      /\ buf'[c][n] = tok
      /\ \A k \in 1..(n - 1) : buf'[c][k] = b[k]
  <2>1. Len(b) \in Nat /\ DOMAIN b = 1..Len(b)
    BY <1>2, LenProperties
  <2>2. /\ Append(b, tok) \in Seq(Token)
        /\ Len(Append(b, tok)) = Len(b) + 1
        /\ \A k \in 1..Len(b) : Append(b, tok)[k] = b[k]
        /\ Append(b, tok)[Len(b) + 1] = tok
    BY <1>2, AppendProperties
  <2>3. DOMAIN Append(b, tok) = 1..(Len(b) + 1)
    BY <2>2, LenProperties
  <2> QED BY <1>4, <2>1, <2>2, <2>3
<1> HIDE DEF n
<1>6. BufferInPlace(c)
  BY DEF PlaceInv
<1>7. /\ DOMAIN loc' = DOMAIN loc \cup {tok}
      /\ loc'[tok] = Slot(c, n)
      /\ \A x \in DOMAIN loc : x # tok => loc'[x] = loc[x]
  BY <1>3 DEF Moved
<1>8. \A k, j : Slot(c, k).node = c /\ Slot(c, k).slot = k
  BY DEF Slot
<1>9. g # c
  BY NodesDiffer
<1>10. \A k \in 1..(n - 1) : b[k] \in DOMAIN loc /\ loc[b[k]] = Slot(c, k) /\ b[k] # tok
  BY <1>1, <1>5, <1>6, <1>8, <1>9 DEF BufferInPlace, b
<1>11. ASSUME NEW k \in 1..n
       PROVE  buf'[c][k] \in DOMAIN loc' /\ loc'[buf'[c][k]] = Slot(c, k)
  <2>1. CASE k = n
    BY <1>5, <1>7, <2>1
  <2>2. CASE k # n
    <3>1. k \in 1..(n - 1)
      BY <1>5, <2>2
    <3> QED BY <1>5, <1>7, <1>10, <3>1
  <2> QED BY <2>1, <2>2
<1>12. ASSUME NEW x \in DOMAIN loc', loc'[x].node = c
       PROVE  loc'[x].slot \in 1..n /\ buf'[c][loc'[x].slot] = x
  <2>1. CASE x = tok
    BY <1>5, <1>7, <1>8, <2>1
  <2>2. CASE x # tok
    <3>1. x \in DOMAIN loc /\ loc[x] = loc'[x]
      BY <1>7, <2>2
    <3>2. loc[x].slot \in 1..(n - 1) /\ b[loc[x].slot] = x
      BY <1>5, <1>6, <1>12, <3>1 DEF BufferInPlace, b
    <3> QED BY <1>5, <3>1, <3>2
  <2> QED BY <2>1, <2>2
<1>13. BufferInPlace(c)'
  BY <1>5, <1>11, <1>12 DEF BufferInPlace, Slot
<1>14. Apart(loc, loc', A)
  <2>1. Slot(c, n).node \in A
    BY <1>8
  <2> QED BY <1>1, <1>3, <2>1, ApartSame, ApartMoved
<1>15. \A h \in Goroutines \cap A : WaitsOf(h)' = {}
  <2>1. \A h \in Goroutines \cap A : h = g
    BY NodesDiffer
  <2> QED BY <2>1, RunnersLeave
<1>16. Numbered'
  BY <1>1, <1>3, <1>7 DEF Numbered
<1>17. \A d \in Channels : BufferInPlace(d)' \/ (d \notin A /\ buf'[d] = buf[d])
  <2>1. \A d \in Channels \ {c} : d \notin A
    BY NodesDiffer
  <2> QED BY <1>4, <1>13, <2>1
<1>18. \A tm \in Timers : tm \notin A /\ pending'[tm] = pending[tm]
  BY NodesDiffer
<1> QED BY <1>14, <1>15, <1>16, <1>17, <1>18, ShrinksPlace

LEMMA SendNowPlace ==
  ASSUME CommInv, PlaceInv, CommStep, NEW g \in Goroutines, Runs(g), NEW c \in Channels,
         NEW s \in Operand, NEW i \in Nat, SendNow(g, c, s, i), UNCHANGED sourceVars
  PROVE  PlaceInv'
<1>1. UNCHANGED pending /\ halted = "no"
  BY DEF sourceVars, Runs
<1>2. Shrinks
  <2>1. UNCHANGED tickets
    BY DEF SendNow, SendUnheld, SendOnClosed, SendToReceiver, SendToBuffer, waitVars
  <2> QED BY <2>1, StepTells
<1>3. WaitsOf(g)' = {}
  BY <1>2, RunnersLeave
<1>4. CASE SendUnheld(g, s)
  <2>1. UNCHANGED <<loc, born, buf>>
    BY <1>4 DEF SendUnheld, tokenVars, chanVars
  <2> QED BY <1>1, <1>2, <2>1, PlaceStays
<1>5. CASE SendOnClosed(g, c, s)
  <2>1. /\ MayUse(g, s)
        /\ born' = Minted(s)
        /\ UNCHANGED buf
        /\ loc' = Moved(loc, TokenOf(s), At(g))
    BY <1>5 DEF SendOnClosed, chanVars
  <2> QED BY <1>1, <1>2, <1>3, <2>1, HandedOver
<1>6. CASE SendToReceiver(g, c, s, i)
  <2> DEFINE r == Popped(recvq[c])
  <2>1. /\ MayUse(g, s)
        /\ born' = Minted(s)
        /\ UNCHANGED buf
        /\ Live(recvq[c]) # {}
        /\ Shared(r) \in fired'
        /\ loc' = Moved(DropHeld(loc, r.g), TokenOf(s), At(r.g))
    BY <1>6 DEF SendToReceiver, chanVars
  <2> HIDE DEF r
  <2>2. c \in Sources
    BY ChannelsAreSources
  <2>3. PICK h \in Goroutines : h = r.g /\ WaitsOf(h)' = {}
    BY <1>1, <1>2, <2>1, <2>2, ReceiverLeaves DEF r
  <2>4. loc' = Moved(DropHeld(loc, h), TokenOf(s), At(h))
    BY <2>1, <2>3
  <2> QED BY <1>1, <1>2, <1>3, <2>1, <2>3, <2>4, HandedOver
<1>7. CASE SendToBuffer(g, c, s, i)
  BY <1>1, <1>2, <1>7, SendToBufferPlace
<1> QED BY <1>4, <1>5, <1>6, <1>7 DEF SendNow

\* A goroutine parks, and no token moves but the one it has at hand.
LEMMA GrowsPlace ==
  ASSUME CommInv, halted = "no", PlaceInv, NEW g \in Goroutines, Grows(g),
         Apart(loc, loc', {g}), UNCHANGED <<buf, pending>>, Numbered',
         \A c \in Channels : \A k \in DOMAIN sendq'[c] :
           \/ \E j \in DOMAIN sendq[c] : sendq[c][j] = sendq'[c][k]
           \/ sendq'[c][k].i = 0 => sendq'[c][k].s \in HeldBy(loc', sendq'[c][k].g)
  PROVE  PlaceInv'
<1>1. HandsInPlace'
  BY ParkedHands DEF PlaceInv
<1>2. \A c \in Channels : c \notin {g} /\ buf'[c] = buf[c]
  BY NodesDiffer
<1>3. \A tm \in Timers : tm \notin {g} /\ pending'[tm] = pending[tm]
  BY NodesDiffer
<1>4. \A c \in Channels : BufferInPlace(c)'
  BY <1>2, UntouchedInPlace
<1>5. \A tm \in Timers : TickInPlace(tm)'
  BY <1>3, UntouchedInPlace
<1> QED BY <1>1, <1>4, <1>5 DEF PlaceInv

\* What goroutine g may send is no key, nor becomes one.
LEMMA SendableFacts ==
  ASSUME DataTypes, NEW g \in Goroutines
  PROVE  \A s \in Sendable(g) : s \in Operand /\ TokenOf(s).by \notin Mutexes
<1>1. ASSUME NEW v \in Values
      PROVE  Raw(g, v) \in Operand /\ TokenOf(Raw(g, v)).by = g /\ g \notin Mutexes
  BY SchedAssumption DEF Raw, Operand, Minters, Payloads, TokenOf
<1>2. ASSUME NEW x \in DOMAIN loc, x.by \notin Mutexes
      PROVE  x \in Operand /\ TokenOf(x).by \notin Mutexes
  BY <1>2, TokensAreOperands DEF DataTypes, TokenOf, Token
<1> QED BY <1>1, <1>2 DEF Sendable

LEMMA SendPlace ==
  ASSUME CommInv, PlaceInv, CommStep, NEW g \in Goroutines, NEW c \in Channels,
         NEW s \in Sendable(g), Send(g, c, s)
  PROVE  PlaceInv'
<1>1. Runs(g) /\ UNCHANGED sourceVars /\ s \in Operand /\ TokenOf(s).by \notin Mutexes
  BY SendableFacts DEF Send, CommInv
<1>2. CASE SendNow(g, c, s, 0)
  BY <1>1, <1>2, SendNowPlace
<1>3. CASE ~ SendNow(g, c, s, 0)
  <2> DEFINE tok == TokenOf(s)
             w == NextWaiter(g, 0, tok)
  <2>1. /\ MayUse(g, s)
        /\ sendq' = [sendq EXCEPT ![c] = Append(@, w)]
        /\ tickets' = [tickets EXCEPT ![g] = @ + 1]
        /\ loc' = Moved(loc, tok, At(g))
        /\ born' = Minted(s)
        /\ UNCHANGED buf
    BY <1>3 DEF Send, NoRoom
  <2>2. w.g = g /\ w.s = tok
    BY DEF NextWaiter
  <2>3. /\ tok \in DOMAIN loc => loc[tok].node = g
        /\ \A x \in DOMAIN loc \cup {tok} : x.n <= Minted(s)[x.by]
    BY <1>1, <2>1, TokenIsFree DEF CommInv, PlaceInv
  <2>4. w \in Sender
    <3>1. tok \in Token
      BY <1>1, TokenFacts DEF CommInv, DataTypes
    <3> QED BY <3>1, TokensAreOperands, NewWaiters DEF CommInv
  <2> HIDE DEF w, tok
  <2>5. At(g).node = g
    BY DEF At
  <2>6. Apart(loc, loc', {g})
    <3>1. Apart(loc, loc, {g})
      BY ApartSame
    <3> QED BY <2>1, <2>3, <2>5, <3>1, ApartMoved
  <2>7. DOMAIN loc' = DOMAIN loc \cup {tok} /\ loc'[tok] = At(g)
    BY <2>1 DEF Moved
  <2>8. tok \in HeldBy(loc', g)
    BY <1>1, <2>5, <2>7 DEF HeldBy, tok
  <2>9. Numbered'
    BY <2>1, <2>3, <2>7 DEF Numbered
  <2>10. Grows(g) /\ halted = "no" /\ UNCHANGED pending
    BY <1>1, <2>1, StepTells DEF Runs, sourceVars
  <2>11. ASSUME NEW d \in Channels, NEW k \in DOMAIN sendq'[d]
         PROVE  \/ \E j \in DOMAIN sendq[d] : sendq[d][j] = sendq'[d][k]
                \/ sendq'[d][k].s \in HeldBy(loc', sendq'[d][k].g)
    <3>1. sendq \in [Channels -> Seq(Sender)] /\ sendq[c] \in Seq(Sender)
      BY DEF CommInv, Waiting, QueueTypes
    <3>2. CASE d # c
      BY <2>1, <3>1, <3>2
    <3>3. CASE d = c
      <4>1. sendq'[d] = Append(sendq[c], w)
        BY <2>1, <3>1, <3>3
      <4>2. /\ Append(sendq[c], w) \in Seq(Sender)
            /\ Len(Append(sendq[c], w)) = Len(sendq[c]) + 1
            /\ \A j \in 1..Len(sendq[c]) : Append(sendq[c], w)[j] = sendq[c][j]
            /\ Append(sendq[c], w)[Len(sendq[c]) + 1] = w
        BY <2>4, <3>1, AppendProperties
      <4>3. DOMAIN sendq[c] = 1..Len(sendq[c]) /\ Len(sendq[c]) \in Nat
        BY <3>1, LenProperties
      <4>4. DOMAIN sendq'[d] = 1..(Len(sendq[c]) + 1)
        BY <4>1, <4>2, LenProperties
      <4>5. CASE k = Len(sendq[c]) + 1
        BY <2>2, <2>8, <4>1, <4>2, <4>5
      <4>6. CASE k # Len(sendq[c]) + 1
        <5>1. k \in DOMAIN sendq[c]
          BY <4>3, <4>4, <4>6
        <5> QED BY <3>3, <4>1, <4>2, <4>3, <5>1
      <4> QED BY <4>5, <4>6
    <3> QED BY <3>2, <3>3
  <2> QED BY <2>1, <2>6, <2>9, <2>10, <2>11, GrowsPlace
<1> QED BY <1>2, <1>3

LEMMA NotifyPlace ==
  ASSUME CommInv, PlaceInv, CommStep, NEW g \in Goroutines, NEW c \in Channels,
         NEW s \in Sendable(g), Notify(g, c, s)
  PROVE  PlaceInv'
<1>1. Runs(g) /\ UNCHANGED sourceVars /\ s \in Operand
  BY SendableFacts DEF Notify, CommInv
<1>2. CASE SendNow(g, c, s, 0)
  BY <1>1, <1>2, SendNowPlace
<1>3. CASE ~ SendNow(g, c, s, 0)
  <2>1. /\ MayUse(g, s)
        /\ loc' = Without(loc, {TokenOf(s)})
        /\ born' = Minted(s)
        /\ UNCHANGED <<tickets, buf, pending>>
    BY <1>1, <1>3 DEF Notify, NoRoom, chanVars, sourceVars
  <2>2. Shrinks
    BY <2>1, StepTells
  <2>3. WaitsOf(g)' = {}
    BY <1>1, <2>2, RunnersLeave
  <2> QED BY <1>1, <2>1, <2>2, <2>3, HandedOver
<1> QED BY <1>2, <1>3

-----------------------------------------------------------------------------
(* Receiving.                                                              *)

\* The tokens that are at node c in the map L are those of the sequence b, each
\* once.
Holds(L, c, b) ==
  /\ \A i, j \in DOMAIN b : b[i] = b[j] => i = j
  /\ \A k \in DOMAIN b : b[k] \in DOMAIN L /\ L[b[k]].node = c
  /\ \A x \in DOMAIN L : L[x].node = c => \E k \in DOMAIN b : b[k] = x

\* They are drawn anew, in the order of b.
Drawn(L, c, b) ==
  /\ \A k \in DOMAIN b : b[k] \in DOMAIN L /\ L[b[k]] = Slot(c, k)
  /\ \A x \in DOMAIN L : L[x].node = c => L[x].slot \in DOMAIN b /\ b[L[x].slot] = x
LEMMA Reshelved ==
  ASSUME NEW L, NEW c, NEW b, Holds(L, c, b)
  PROVE  /\ DOMAIN Shelved(L, c, b) = DOMAIN L
         /\ Drawn(Shelved(L, c, b), c, b)
         /\ Apart(L, Shelved(L, c, b), {c})
<1> DEFINE M == Shelved(L, c, b)
<1>1. /\ DOMAIN M = DOMAIN L
      /\ \A k \in DOMAIN b : b[k] \in DOMAIN L => M[b[k]] = Slot(c, k)
      /\ \A x \in DOMAIN L : (\A k \in DOMAIN b : b[k] # x) => M[x] = L[x]
  BY ShelvedFacts DEF Holds
<1> HIDE DEF M
<1>2. \A k : Slot(c, k).node = c /\ Slot(c, k).slot = k
  BY DEF Slot
<1>3. \A x \in DOMAIN L : L[x].node # c => M[x] = L[x]
  BY <1>1 DEF Holds
<1>4. Drawn(M, c, b)
  BY <1>1, <1>2, <1>3 DEF Drawn, Holds
<1>5. Apart(L, M, {c})
  <2>1. \A x \in DOMAIN M : M[x].node # c => L[x].node # c
    BY <1>1, <1>2 DEF Holds
  <2> QED BY <1>1, <1>3, <2>1 DEF Apart
<1> QED BY <1>1, <1>4, <1>5 DEF M

LEMMA ApartTwice ==
  ASSUME NEW L, NEW M, NEW N, NEW A, NEW B, Apart(L, M, A), Apart(M, N, B), B \subseteq A
  PROVE  Apart(L, N, A)
<1>1. ASSUME NEW x \in DOMAIN L, L[x].node \notin A
      PROVE  x \in DOMAIN N /\ N[x] = L[x]
  <2>1. x \in DOMAIN M /\ M[x] = L[x]
    BY <1>1 DEF Apart
  <2> QED BY <1>1, <2>1 DEF Apart
<1>2. ASSUME NEW x \in DOMAIN N, N[x].node \notin A
      PROVE  x \in DOMAIN L /\ L[x] = N[x]
  <2>1. x \in DOMAIN M /\ M[x] = N[x]
    BY <1>2 DEF Apart
  <2> QED BY <1>2, <2>1 DEF Apart
<1> QED BY <1>1, <1>2 DEF Apart

\* What is in place is what is drawn.
LEMMA InPlaceIsDrawn ==
  ASSUME NEW c
  PROVE  /\ BufferInPlace(c) <=> Drawn(loc, c, buf[c])
         /\ BufferInPlace(c)' <=> Drawn(loc', c, buf'[c])
  BY DEF BufferInPlace, Drawn, Slot

\* The tokens in a buffer are different.
LEMMA BufferIsHeld ==
  ASSUME NEW c, BufferInPlace(c)
  PROVE  Holds(loc, c, buf[c])
<1>1. \A k : Slot(c, k).node = c /\ Slot(c, k).slot = k
  BY DEF Slot
<1> QED BY <1>1 DEF BufferInPlace, Holds

\* The oldest token of a buffer, and the others.
LEMMA HeadApart ==
  ASSUME DataTypes, PlaceInv, NEW c \in Channels, buf[c] # <<>>
  PROVE  LET b == buf[c]
         IN  /\ Head(b) \in DOMAIN loc /\ loc[Head(b)].node = c
             /\ \A k \in DOMAIN Tail(b) : Tail(b)[k] \in DOMAIN loc
                                       /\ loc[Tail(b)[k]].node = c /\ Tail(b)[k] # Head(b)
             /\ \A i, j \in DOMAIN Tail(b) : Tail(b)[i] = Tail(b)[j] => i = j
             /\ \A x \in DOMAIN loc : loc[x].node = c /\ x # Head(b) =>
                  \E k \in DOMAIN Tail(b) : Tail(b)[k] = x
<1> DEFINE b == buf[c]
           t == Tail(b)
<1>1. b \in Seq(Token) /\ b # <<>>
  BY DEF DataTypes
<1>2. Holds(loc, c, b)
  BY BufferIsHeld DEF PlaceInv
<1> HIDE DEF b
<1>3. /\ Head(b) = b[1] /\ 1 \in DOMAIN b
      /\ DOMAIN b = 1..Len(b) /\ Len(b) \in Nat
      /\ DOMAIN t = 1..(Len(b) - 1)
      /\ \A k \in DOMAIN t : t[k] = b[k + 1]
  BY <1>1
<1> HIDE DEF t
<1>4. \A k \in DOMAIN t : k + 1 \in DOMAIN b /\ k + 1 # 1 /\ t[k] = b[k + 1]
  BY <1>3
<1>5. \A k \in DOMAIN t : t[k] \in DOMAIN loc /\ loc[t[k]].node = c /\ t[k] # Head(b)
  BY <1>2, <1>3, <1>4 DEF Holds
<1>6. ASSUME NEW i \in DOMAIN t, NEW j \in DOMAIN t, t[i] = t[j]
      PROVE  i = j
  <2>1. i + 1 = j + 1
    BY <1>2, <1>4, <1>6 DEF Holds
  <2> QED BY <1>3, <2>1
<1>7. ASSUME NEW x \in DOMAIN loc, loc[x].node = c, x # Head(b)
      PROVE  \E k \in DOMAIN t : t[k] = x
  <2>1. PICK k \in DOMAIN b : b[k] = x
    BY <1>2, <1>7 DEF Holds
  <2>2. k # 1
    BY <1>3, <1>7, <2>1
  <2>3. k - 1 \in DOMAIN t /\ t[k - 1] = b[k]
    BY <1>3, <2>2
  <2> QED BY <2>1, <2>3
<1>8. Head(b) \in DOMAIN loc /\ loc[Head(b)].node = c
  BY <1>2, <1>3 DEF Holds
<1> QED BY <1>5, <1>6, <1>7, <1>8 DEF b, t

\* L is the world once the oldest token of c is in the hands of g: what the
\* buffer still holds.
WithoutHead(L, c, g) ==
  /\ L = Moved(DropHeld(loc, g), Head(buf[c]), At(g))
  /\ Holds(L, c, Tail(buf[c]))
  /\ Apart(loc, L, {g, c})
  /\ DOMAIN L \subseteq DOMAIN loc
  /\ \A x \in DOMAIN L : L[x].node = c => x \in DOMAIN loc /\ loc[x] = L[x]

LEMMA HeadTaken ==
  ASSUME DataTypes, PlaceInv, NEW c \in Channels, buf[c] # <<>>, NEW g \in Goroutines
  PROVE  \E L : WithoutHead(L, c, g)
<1> PICK L : L = Moved(DropHeld(loc, g), Head(buf[c]), At(g))
  OBVIOUS
<1> DEFINE t == Tail(buf[c])
           h == Head(buf[c])
           D == DropHeld(loc, g)
<1>1. /\ h \in DOMAIN loc /\ loc[h].node = c
      /\ \A k \in DOMAIN t : t[k] \in DOMAIN loc /\ loc[t[k]].node = c /\ t[k] # h
      /\ \A i, j \in DOMAIN t : t[i] = t[j] => i = j
      /\ \A x \in DOMAIN loc : loc[x].node = c /\ x # h => \E k \in DOMAIN t : t[k] = x
  BY HeadApart
<1>2. L = Moved(D, h, At(g))
  OBVIOUS
<1> HIDE DEF t, h
<1>3. /\ \A x \in DOMAIN D : x \in DOMAIN loc /\ D[x] = loc[x]
      /\ \A x \in DOMAIN loc : loc[x].node # g => x \in DOMAIN D
      /\ Apart(loc, D, {g, c})
  BY DropFacts, ApartDrop
<1> HIDE DEF D
<1>4. /\ DOMAIN L = DOMAIN D \cup {h}
      /\ L[h] = At(g)
      /\ \A x \in DOMAIN D : x # h => L[x] = D[x]
  BY <1>2 DEF Moved
<1>5. c # g /\ At(g).node = g
  BY NodesDiffer DEF At
<1>6. \A x \in DOMAIN L : L[x].node = c => x # h /\ x \in DOMAIN loc /\ loc[x] = L[x]
  BY <1>3, <1>4, <1>5
<1>7. \A x \in DOMAIN loc : loc[x].node = c /\ x # h => x \in DOMAIN L /\ L[x] = loc[x]
  BY <1>3, <1>4, <1>5
<1>8. Holds(L, c, t)
  <2>1. \A k \in DOMAIN t : t[k] \in DOMAIN L /\ L[t[k]].node = c
    BY <1>1, <1>7
  <2>2. \A x \in DOMAIN L : L[x].node = c => \E k \in DOMAIN t : t[k] = x
    BY <1>1, <1>6
  <2> QED BY <1>1, <2>1, <2>2 DEF Holds
<1>9. Apart(loc, L, {g, c})
  <2>1. At(g).node \in {g, c} /\ (h \in DOMAIN loc => loc[h].node \in {g, c})
    BY <1>1, <1>5
  <2> QED BY <1>2, <1>3, <2>1, ApartMoved
<1>10. DOMAIN L \subseteq DOMAIN loc
  BY <1>1, <1>3, <1>4
<1> QED BY <1>2, <1>6, <1>8, <1>9, <1>10 DEF WithoutHead, t, D, h

\* A step that draws the buffer of c anew, in a map that is apart from loc at
\* the nodes of A only.
LEMMA RedrawnPlace ==
  ASSUME CommInv, PlaceInv, Shrinks, NEW c \in Channels, NEW A, c \in A, A \subseteq Goroutines \cup {c},
         \A h \in Goroutines \cap A : WaitsOf(h)' = {},
         NEW L, Apart(loc, L, A), NEW b, Holds(L, c, b), loc' = Shelved(L, c, b),
         buf' = [buf EXCEPT ![c] = b], UNCHANGED pending,
         \A x \in DOMAIN L : x.n <= born'[x.by]
  PROVE  PlaceInv'
<1>1. buf'[c] = b /\ \A d \in Channels \ {c} : buf'[d] = buf[d]
  BY DEF CommInv, DataTypes
<1>2. DOMAIN loc' = DOMAIN L /\ Drawn(loc', c, b) /\ Apart(L, loc', {c})
  BY Reshelved
<1>3. BufferInPlace(c)'
  BY <1>1, <1>2, InPlaceIsDrawn
<1>4. Apart(loc, loc', A)
  <2>1. {c} \subseteq A
    OBVIOUS
  <2> QED BY <1>2, <2>1, ApartTwice
<1>5. Numbered'
  BY <1>2 DEF Numbered
<1>6. \A d \in Channels : BufferInPlace(d)' \/ (d \notin A /\ buf'[d] = buf[d])
  BY <1>1, <1>3, NodesDiffer
<1>7. \A tm \in Timers : tm \notin A /\ pending'[tm] = pending[tm]
  BY NodesDiffer
<1> QED BY <1>4, <1>5, <1>6, <1>7, ShrinksPlace

LEMMA TakeAlonePlace ==
  ASSUME CommInv, PlaceInv, Shrinks, NEW g \in Goroutines, Runs(g), NEW c \in Channels,
         buf[c] # <<>>,
         buf' = [buf EXCEPT ![c] = Tail(@)],
         loc' = Shelved(Moved(DropHeld(loc, g), Head(buf[c]), At(g)), c, Tail(buf[c])),
         UNCHANGED <<born, pending>>
  PROVE  PlaceInv'
<1> PICK b : b = Tail(buf[c])
  OBVIOUS
<1> PICK A : A = {g, c}
  OBVIOUS
<1> PICK L : WithoutHead(L, c, g)
  <2>1. DataTypes
    BY DEF CommInv
  <2> QED BY <2>1, HeadTaken
<1>1. /\ L = Moved(DropHeld(loc, g), Head(buf[c]), At(g))
      /\ Holds(L, c, b) /\ Apart(loc, L, A) /\ DOMAIN L \subseteq DOMAIN loc
  BY DEF WithoutHead
<1>2. loc' = Shelved(L, c, b) /\ buf' = [buf EXCEPT ![c] = b]
  BY <1>1
<1>3. c \in A /\ A \subseteq Goroutines \cup {c} /\ \A h \in Goroutines \cap A : WaitsOf(h)' = {}
  <2>1. \A h \in Goroutines \cap A : h = g
    BY NodesDiffer
  <2> QED BY <2>1, RunnersLeave
<1>4. \A x \in DOMAIN L : x.n <= born'[x.by]
  BY <1>1 DEF PlaceInv, Numbered
<1> QED BY <1>1, <1>2, <1>3, <1>4, RedrawnPlace

LEMMA TakeAndRefillPlace ==
  ASSUME CommInv, PlaceInv, Shrinks, NEW g \in Goroutines, Runs(g), NEW c \in Channels,
         buf[c] # <<>>, Live(sendq[c]) # {}, NEW w, w = Popped(sendq[c]), SenderMay(w),
         Shared(w) \in fired', NEW refilled, refilled = Append(Tail(buf[c]), TokenOf(w.s)),
         buf' = [buf EXCEPT ![c] = refilled],
         loc' = Shelved(Moved(Moved(DropHeld(loc, g), Head(buf[c]), At(g)), TokenOf(w.s), At(c)), c, refilled),
         born' = Minted(w.s), UNCHANGED pending
  PROVE  PlaceInv'
<1> PICK t : t = Tail(buf[c])
  OBVIOUS
<1> PICK L : WithoutHead(L, c, g)
  <2>1. DataTypes
    BY DEF CommInv
  <2> QED BY <2>1, HeadTaken
<1>4. /\ L = Moved(DropHeld(loc, g), Head(buf[c]), At(g))
      /\ Holds(L, c, t)
      /\ Apart(loc, L, {g, c})
      /\ DOMAIN L \subseteq DOMAIN loc
      /\ \A x \in DOMAIN L : L[x].node = c => x \in DOMAIN loc /\ loc[x] = L[x]
  BY DEF WithoutHead
<1>1. w.s \in Operand /\ \E h \in Goroutines : h = w.g /\ MayUse(h, w.s) /\ WaitsOf(h)' = {}
  <2>1. halted = "no"
    BY DEF Runs
  <2>2. SenderMay(Popped(sendq[c])) /\ Shared(Popped(sendq[c])) \in fired'
    OBVIOUS
  <2>3. /\ Popped(sendq[c]).s \in Operand
        /\ \E h \in Goroutines : h = Popped(sendq[c]).g /\ MayUse(h, Popped(sendq[c]).s) /\ WaitsOf(h)' = {}
    BY <2>1, <2>2, SenderLeaves
  <2> QED BY <2>3
<1>2. PICK h \in Goroutines : MayUse(h, w.s) /\ WaitsOf(h)' = {}
  BY <1>1
<1> PICK tok : tok = TokenOf(w.s)
  OBVIOUS
<1> DEFINE M == Moved(L, tok, At(c))
           A == {g, c, h}
<1>3. /\ tok \in DOMAIN loc => loc[tok].node = h
      /\ \A x \in DOMAIN loc \cup {tok} : x.n <= Minted(w.s)[x.by]
  BY <1>1, <1>2, TokenIsFree DEF CommInv, PlaceInv
<1>5. loc' = Shelved(M, c, refilled) /\ refilled = Append(t, tok)
  BY <1>4
<1>6. At(c).node = c /\ c # h
  BY NodesDiffer DEF At
<1>7. Apart(loc, M, A)
  <2>1. Apart(loc, L, A)
    BY <1>4 DEF Apart
  <2>2. tok \in DOMAIN loc => loc[tok].node \in A
    BY <1>3
  <2>3. At(c).node \in A
    BY <1>6
  <2> QED BY <2>1, <2>2, <2>3, ApartMoved
<1>8. /\ DOMAIN M = DOMAIN L \cup {tok}
      /\ M[tok] = At(c)
      /\ \A x \in DOMAIN L : x # tok => M[x] = L[x]
  BY DEF Moved
<1> HIDE DEF M
<1>9. \A k \in DOMAIN t : t[k] \in DOMAIN M /\ M[t[k]].node = c /\ t[k] # tok
  <2> SUFFICES ASSUME NEW k \in DOMAIN t
               PROVE  t[k] \in DOMAIN M /\ M[t[k]].node = c /\ t[k] # tok
    OBVIOUS
  <2>1. t[k] \in DOMAIN L /\ L[t[k]].node = c
    BY <1>4 DEF Holds
  <2>2. t[k] \in DOMAIN loc /\ loc[t[k]].node = c
    BY <1>4, <2>1
  <2>3. t[k] # tok
    BY <1>3, <1>6, <2>2
  <2> QED BY <1>8, <2>1, <2>3
<1>10. Holds(M, c, refilled)
  <2>1. t \in Seq(Token) /\ tok \in Token
    BY <1>1, BufferFacts, TokenFacts DEF CommInv, DataTypes
  <2>2. DOMAIN t = 1..Len(t) /\ Len(t) \in Nat
    BY <2>1, LenProperties
  <2>3. /\ refilled \in Seq(Token) /\ Len(refilled) = Len(t) + 1
        /\ \A k \in 1..Len(t) : refilled[k] = t[k]
        /\ refilled[Len(t) + 1] = tok
    BY <1>5, <2>1, AppendProperties
  <2>4. DOMAIN refilled = 1..(Len(t) + 1)
    BY <2>3, LenProperties
  <2>5. \A k \in DOMAIN refilled : k = Len(t) + 1 \/ k \in DOMAIN t
    BY <2>2, <2>4
  <2>6. \A k \in DOMAIN t : k \in DOMAIN refilled /\ refilled[k] = t[k]
    BY <2>2, <2>3, <2>4
  <2>7. Len(t) + 1 \in DOMAIN refilled
    BY <2>2, <2>4
  <2>8. ASSUME NEW k \in DOMAIN refilled
        PROVE  refilled[k] \in DOMAIN M /\ M[refilled[k]].node = c
    <3>1. CASE k = Len(t) + 1
      <4>1. refilled[k] = tok
        BY <2>3, <3>1
      <4> QED BY <1>6, <1>8, <4>1
    <3>2. CASE k \in DOMAIN t
      <4>1. refilled[k] = t[k]
        BY <2>6, <3>2
      <4> QED BY <1>9, <3>2, <4>1
    <3> QED BY <2>5, <3>1, <3>2
  <2>9. ASSUME NEW i \in DOMAIN refilled, NEW j \in DOMAIN refilled, refilled[i] = refilled[j]
        PROVE  i = j
    <3>1. \A k \in DOMAIN t : refilled[k] = t[k] /\ t[k] # tok
      BY <1>9, <2>6
    <3>2. \A k, l \in DOMAIN t : t[k] = t[l] => k = l
      BY <1>4 DEF Holds
    <3>3. CASE i \in DOMAIN t /\ j \in DOMAIN t
      BY <2>9, <3>1, <3>2, <3>3
    <3>4. CASE i = Len(t) + 1 \/ j = Len(t) + 1
      <4>1. refilled[i] = tok
        BY <2>3, <2>9, <3>4
      <4>2. refilled[j] = tok
        BY <2>9, <4>1
      <4> QED BY <2>5, <3>1, <4>1, <4>2
    <3> QED BY <2>5, <3>3, <3>4
  <2>10. ASSUME NEW x \in DOMAIN M, M[x].node = c
         PROVE  \E k \in DOMAIN refilled : refilled[k] = x
    <3>1. CASE x = tok
      BY <2>3, <2>7, <3>1
    <3>2. CASE x # tok
      <4>1. PICK k \in DOMAIN t : t[k] = x
        BY <1>4, <1>8, <2>10, <3>2 DEF Holds
      <4> QED BY <2>6, <4>1
    <3> QED BY <3>1, <3>2
  <2> QED BY <2>8, <2>9, <2>10 DEF Holds
<1>11. c \in A /\ A \subseteq Goroutines \cup {c} /\ \A k \in Goroutines \cap A : WaitsOf(k)' = {}
  <2>1. \A k \in Goroutines \cap A : k = g \/ k = h
    BY NodesDiffer
  <2> QED BY <1>2, <2>1, RunnersLeave
<1>12. \A x \in DOMAIN M : x.n <= born'[x.by]
  BY <1>3, <1>4, <1>8
<1> HIDE DEF A
<1> QED BY <1>5, <1>7, <1>10, <1>11, <1>12, RedrawnPlace

LEMMA TakeNowPlace ==
  ASSUME CommInv, PlaceInv, CommStep, NEW g \in Goroutines, Runs(g), NEW c \in Channels,
         NEW i \in Nat, TakeNow(g, c, i)
  PROVE  PlaceInv'
<1>1. UNCHANGED pending /\ halted = "no"
  BY DEF TakeNow, sourceVars, Runs
<1>2. Shrinks
  <2>1. UNCHANGED tickets
    BY DEF TakeNow, TakeFromBuffer, TakeFromSender, TakeFromUnheld, TakeFromClosed, waitVars
  <2> QED BY <2>1, StepTells
<1>3. CASE TakeFromUnheld(c) \/ TakeFromClosed(c, i)
  <2>1. UNCHANGED <<loc, born, buf>>
    BY <1>3 DEF TakeFromUnheld, TakeFromClosed, tokenVars, chanVars
  <2> QED BY <1>1, <1>2, <2>1, PlaceStays
<1>4. CASE TakeFromSender(g, c, i)
  <2> DEFINE w == Popped(sendq[c])
  <2>1. /\ Live(sendq[c]) # {} /\ SenderMay(w) /\ Shared(w) \in fired'
        /\ loc' = Moved(DropHeld(loc, g), TokenOf(w.s), At(g))
        /\ born' = Minted(w.s)
        /\ UNCHANGED buf
    BY <1>4 DEF TakeFromSender
  <2>2. w.s \in Operand /\ \E h \in Goroutines : h = w.g /\ MayUse(h, w.s) /\ WaitsOf(h)' = {}
    BY <1>1, <1>2, <2>1, SenderLeaves
  <2>3. PICK s \in Operand : s = w.s
    BY <2>2
  <2> HIDE DEF w
  <2>4. PICK h \in Goroutines : MayUse(h, s) /\ WaitsOf(h)' = {}
    BY <2>2, <2>3
  <2>5. loc' = Moved(DropHeld(loc, g), TokenOf(s), At(g)) /\ born' = Minted(s)
    BY <2>1, <2>3
  <2>6. WaitsOf(g)' = {}
    BY <1>2, RunnersLeave
  <2> QED BY <1>1, <1>2, <2>1, <2>4, <2>5, <2>6, HandedOver
<1>5. CASE TakeFromBuffer(g, c, i) /\ Live(sendq[c]) = {}
  <2>1. /\ buf[c] # <<>>
        /\ buf' = [buf EXCEPT ![c] = Tail(@)]
        /\ loc' = Shelved(Moved(DropHeld(loc, g), Head(buf[c]), At(g)), c, Tail(buf[c]))
        /\ UNCHANGED born
    BY <1>5 DEF TakeFromBuffer
  <2> QED BY <1>1, <1>2, <2>1, TakeAlonePlace
<1>6. CASE TakeFromBuffer(g, c, i) /\ Live(sendq[c]) # {}
  <2> PICK w : w = Popped(sendq[c])
    OBVIOUS
  <2> PICK refilled : refilled = Append(Tail(buf[c]), TokenOf(w.s))
    OBVIOUS
  <2>1. /\ buf[c] # <<>> /\ Live(sendq[c]) # {} /\ SenderMay(w) /\ Shared(w) \in fired'
        /\ buf' = [buf EXCEPT ![c] = refilled]
        /\ loc' = Shelved(Moved(Moved(DropHeld(loc, g), Head(buf[c]), At(g)), TokenOf(w.s), At(c)), c, refilled)
        /\ born' = Minted(w.s)
    BY <1>6 DEF TakeFromBuffer
  <2> QED BY <1>1, <1>2, <2>1, TakeAndRefillPlace
<1> QED BY <1>3, <1>4, <1>5, <1>6 DEF TakeNow

LEMMA TakeTickPlace ==
  ASSUME CommInv, PlaceInv, Shrinks, NEW g \in Goroutines, Runs(g), NEW tm \in Timers,
         NEW i \in Nat, TakeTick(g, tm, i)
  PROVE  PlaceInv'
<1> PICK tok : tok = pending[tm]
  OBVIOUS
<1>1. /\ tok # NoTok
      /\ pending' = [pending EXCEPT ![tm] = NoTok]
      /\ loc' = Moved(DropHeld(loc, g), tok, At(g))
      /\ UNCHANGED <<born, buf>>
  BY DEF TakeTick, chanVars
<1>2. pending'[tm] = NoTok /\ \A t \in Timers \ {tm} : pending'[t] = pending[t]
  BY <1>1 DEF CommInv, DataTypes
<1>3. /\ \A x \in DOMAIN loc : loc[x].node = tm => x = tok
      /\ tok \in DOMAIN loc /\ loc[tok] = At(tm)
  BY <1>1 DEF PlaceInv, TickInPlace
<1>4. At(tm).node = tm /\ At(g).node = g /\ g # tm
  BY NodesDiffer DEF At
<1> PICK A : A = {g, tm}
  OBVIOUS
<1>5. Apart(loc, loc', A)
  <2>1. Apart(loc, DropHeld(loc, g), A)
    BY ApartDrop
  <2>2. loc[tok].node \in A /\ At(g).node \in A
    BY <1>3, <1>4
  <2> QED BY <1>1, <2>1, <2>2, ApartMoved
<1>6. /\ \A x \in DOMAIN DropHeld(loc, g) : x \in DOMAIN loc /\ DropHeld(loc, g)[x] = loc[x]
      /\ DOMAIN loc' = DOMAIN DropHeld(loc, g) \cup {tok}
      /\ loc'[tok] = At(g)
      /\ \A x \in DOMAIN DropHeld(loc, g) : x # tok => loc'[x] = DropHeld(loc, g)[x]
  BY <1>1, DropFacts DEF Moved
<1>7. \A x \in DOMAIN loc' : loc'[x].node # tm
  BY <1>3, <1>4, <1>6
<1>8. TickInPlace(tm)'
  BY <1>2, <1>7 DEF TickInPlace, NoTok
<1>9. Numbered'
  BY <1>1, <1>3, <1>6 DEF PlaceInv, Numbered
<1>10. \A h \in Goroutines \cap A : WaitsOf(h)' = {}
  <2>1. \A h \in Goroutines \cap A : h = g
    BY NodesDiffer
  <2> QED BY <2>1, RunnersLeave
<1>11. \A c \in Channels : c \notin A /\ buf'[c] = buf[c]
  BY <1>1, NodesDiffer
<1>12. \A t \in Timers : TickInPlace(t)' \/ (t \notin A /\ pending'[t] = pending[t])
  BY <1>2, <1>8, NodesDiffer
<1> QED BY <1>5, <1>9, <1>10, <1>11, <1>12, ShrinksPlace

LEMMA ReceiveNowPlace ==
  ASSUME CommInv, PlaceInv, CommStep, NEW g \in Goroutines, Runs(g), NEW x \in Sources,
         NEW i \in Nat, ReceiveNow(g, x, i)
  PROVE  PlaceInv'
<1>1. CASE x \in Channels /\ TakeNow(g, x, i)
  BY <1>1, TakeNowPlace
<1>2. CASE x \in Timers /\ TakeTick(g, x, i)
  BY <1>2, StepTells, TakeTickPlace DEF TakeTick, waitVars
<1>3. CASE x \in Contexts /\ SeeDone(x, i)
  <2>1. UNCHANGED <<loc, born, buf, pending, tickets>>
    BY <1>3 DEF SeeDone, tokenVars, chanVars, waitVars, sourceVars
  <2> QED BY <2>1, StepTells, PlaceStays
<1> QED BY <1>1, <1>2, <1>3 DEF ReceiveNow

LEMMA RecvPlace ==
  ASSUME CommInv, PlaceInv, CommStep, NEW g \in Goroutines, NEW x \in Sources, Recv(g, x)
  PROVE  PlaceInv'
<1>1. Runs(g)
  BY DEF Recv
<1>2. CASE ReceiveNow(g, x, 0)
  BY <1>1, <1>2, ReceiveNowPlace
<1>3. CASE ~ ReceiveNow(g, x, 0)
  <2>1. /\ sendq' = [c \in Channels |-> IF c = x THEN Rest(sendq[c]) ELSE sendq[c]]
        /\ tickets' = [tickets EXCEPT ![g] = @ + 1]
        /\ UNCHANGED <<loc, born, buf, pending>>
    BY <1>3 DEF Recv, tokenVars, sourceVars
  <2>2. Grows(g) /\ halted = "no"
    BY <1>1, <2>1, StepTells DEF Runs
  <2>3. ASSUME NEW c \in Channels, NEW k \in DOMAIN sendq'[c]
        PROVE  \E j \in DOMAIN sendq[c] : sendq[c][j] = sendq'[c][k]
    <3>1. sendq[c] \in Seq(Sender)
      BY DEF CommInv, Waiting, QueueTypes
    <3>2. sendq'[c] = Rest(sendq[c]) \/ sendq'[c] = sendq[c]
      BY <2>1
    <3> QED BY <3>1, <3>2, RestFacts
  <2>4. Apart(loc, loc', {g})
    BY <2>1, ApartSame
  <2>5. Numbered'
    BY <2>1 DEF PlaceInv, Numbered
  <2> QED BY <2>1, <2>2, <2>3, <2>4, <2>5, GrowsPlace
<1> QED BY <1>2, <1>3

\* A select numbers its cases from 1.
LEMMA CaseIndex ==
  ASSUME NEW g, NEW cases \in Selects(g)
  PROVE  \A i \in DOMAIN cases : i # 0
<1>1. PICK n \in 1..MaxCases : cases \in [1..n -> Cases(g)]
  BY DEF Selects
<1> QED BY <1>1, CommAssumption

LEMMA SelectPlace ==
  ASSUME CommInv, PlaceInv, CommStep, NEW g \in Goroutines, NEW cases \in Selects(g),
         NEW default \in BOOLEAN, Select(g, cases, default)
  PROVE  PlaceInv'
<1> USE DEF Select
<1>1. Runs(g) /\ halted = "no"
  BY DEF Runs
<1>2. ASSUME NEW i \in DOMAIN cases, cases[i].dir = "send",
             SendNow(g, cases[i].on, cases[i].s, i), UNCHANGED sourceVars
      PROVE  PlaceInv'
  <2>1. i \in Nat /\ cases[i].on \in Channels /\ cases[i].s \in Operand
    BY <1>2, CaseFacts
  <2> QED BY <1>1, <1>2, <2>1, SendNowPlace
<1>3. ASSUME NEW i \in DOMAIN cases, cases[i].dir = "recv", ReceiveNow(g, cases[i].on, i)
      PROVE  PlaceInv'
  <2>1. i \in Nat /\ cases[i].on \in Sources
    BY <1>3, CaseFacts
  <2> QED BY <1>1, <1>3, <2>1, ReceiveNowPlace
<1>4. CASE UNCHANGED <<tokenVars, chanVars, waitVars, sourceVars>>
  <2>1. UNCHANGED <<loc, born, buf, pending, tickets>>
    BY <1>4 DEF tokenVars, chanVars, waitVars, sourceVars
  <2> QED BY <2>1, StepTells, PlaceStays
<1>5. CASE /\ sendq' = Enqueued(sendq, g, cases, "send")
           /\ tickets' = [tickets EXCEPT ![g] = @ + 1]
           /\ UNCHANGED <<tokenVars, buf, sourceVars>>
  <2>1. UNCHANGED <<loc, born, buf, pending>> /\ Grows(g)
    BY <1>5, StepTells DEF tokenVars, sourceVars
  <2>2. ASSUME NEW c \in Channels, NEW k \in DOMAIN sendq'[c]
        PROVE  \/ \E j \in DOMAIN sendq[c] : sendq[c][j] = sendq'[c][k]
               \/ sendq'[c][k].i # 0
    <3>1. sendq \in [Channels -> Seq(Sender)] /\ sendq[c] \in Seq(Sender)
      BY DEF CommInv, Waiting, QueueTypes
    <3>2. CASE sendq'[c] = sendq[c]
      BY <3>2
    <3>3. CASE sendq'[c] # sendq[c]
      <4>1. PICK i \in DOMAIN cases :
              /\ cases[i].dir = "send"
              /\ sendq'[c] = Append(sendq[c], NextWaiter(g, i, cases[i].s))
        BY <1>5, <3>1, <3>3 DEF Enqueued
      <4> DEFINE w == NextWaiter(g, i, cases[i].s)
      <4>2. w \in Sender /\ w.i # 0
        <5>1. i \in Nat /\ i # 0 /\ cases[i].s \in Operand
          BY <4>1, CaseFacts, CaseIndex
        <5> QED BY <5>1, NewWaiters DEF CommInv, NextWaiter
      <4> HIDE DEF w
      <4>3. /\ sendq'[c] \in Seq(Sender)
            /\ Len(sendq'[c]) = Len(sendq[c]) + 1
            /\ \A j \in 1..Len(sendq[c]) : sendq'[c][j] = sendq[c][j]
            /\ sendq'[c][Len(sendq[c]) + 1] = w
        BY <3>1, <4>1, <4>2, AppendProperties DEF w
      <4>4. /\ DOMAIN sendq[c] = 1..Len(sendq[c]) /\ Len(sendq[c]) \in Nat
            /\ DOMAIN sendq'[c] = 1..(Len(sendq[c]) + 1)
        BY <3>1, <4>3, LenProperties
      <4>5. k = Len(sendq[c]) + 1 \/ k \in DOMAIN sendq[c]
        BY <4>4
      <4> QED BY <4>2, <4>3, <4>4, <4>5
    <3> QED BY <3>2, <3>3
  <2>3. Apart(loc, loc', {g})
    BY <2>1, ApartSame
  <2>4. Numbered'
    BY <2>1 DEF PlaceInv, Numbered
  <2> QED BY <1>1, <2>1, <2>2, <2>3, <2>4, GrowsPlace
<1> QED BY <1>2, <1>3, <1>4, <1>5

LEMMA RemakePlace ==
  ASSUME CommInv, PlaceInv, CommStep, NEW g \in Goroutines, NEW c \in Channels, Remake(g, c)
  PROVE  PlaceInv'
<1>1. Shrinks /\ UNCHANGED pending
  <2>1. UNCHANGED tickets /\ UNCHANGED pending
    BY DEF Remake, waitVars, sourceVars
  <2> QED BY <2>1, StepTells
<1>2. CASE UNCHANGED <<tokenVars, chanVars, waitVars>>
  <2>1. UNCHANGED <<loc, born, buf>>
    BY <1>2 DEF tokenVars, chanVars
  <2> QED BY <1>1, <2>1, PlaceStays
<1>3. CASE /\ loc' = Without(loc, {buf[c][k] : k \in DOMAIN buf[c]})
           /\ buf' = [buf EXCEPT ![c] = <<>>]
           /\ UNCHANGED born
  <2>1. buf'[c] = <<>> /\ \A d \in Channels \ {c} : buf'[d] = buf[d]
    BY <1>3 DEF CommInv, DataTypes
  <2>2. Holds(loc, c, buf[c])
    BY BufferIsHeld DEF PlaceInv
  <2> DEFINE T == {buf[c][k] : k \in DOMAIN buf[c]}
  <2>3. \A x \in DOMAIN loc : loc[x].node = c <=> x \in T
    BY <2>2 DEF Holds
  <2>4. loc' = Without(loc, T)
    BY <1>3
  <2> HIDE DEF T
  <2>5. Apart(loc, loc', {c})
    BY <2>3, <2>4, ApartWithout
  <2>6. DOMAIN loc' \subseteq DOMAIN loc /\ \A x \in DOMAIN loc' : loc'[x].node # c
    BY <2>3, <2>4 DEF Without
  <2>7. BufferInPlace(c)'
    BY <2>1, <2>6 DEF BufferInPlace
  <2>8. Numbered'
    BY <1>3, <2>6 DEF PlaceInv, Numbered
  <2>9. \A d \in Channels : BufferInPlace(d)' \/ (d \notin {c} /\ buf'[d] = buf[d])
    BY <2>1, <2>7
  <2>10. \A tm \in Timers : tm \notin {c} /\ pending'[tm] = pending[tm]
    BY <1>1, NodesDiffer
  <2>11. \A h \in Goroutines \cap {c} : WaitsOf(h)' = {}
    BY NodesDiffer
  <2> QED BY <1>1, <2>5, <2>8, <2>9, <2>10, <2>11, ShrinksPlace
<1> QED BY <1>2, <1>3 DEF Remake

LEMMA TimerOpPlace ==
  ASSUME CommInv, PlaceInv, CommStep, NEW g \in Goroutines, NEW op, NEW tm \in Timers,
         TimerOp(g, op, tm)
  PROVE  PlaceInv'
<1>1. /\ loc' = Without(loc, {pending[tm]})
      /\ pending' = [pending EXCEPT ![tm] = NoTok]
      /\ UNCHANGED <<born, buf>>
      /\ Shrinks
  BY StepTells DEF TimerOp, chanVars, waitVars
<1>2. pending'[tm] = NoTok /\ \A t \in Timers \ {tm} : pending'[t] = pending[t]
  BY <1>1 DEF CommInv, DataTypes
<1>3. \A x \in DOMAIN loc : loc[x].node = tm <=> x = pending[tm]
  <2>1. NoTok \notin DOMAIN loc
    BY NoTokIsNoToken DEF CommInv, DataTypes
  <2>2. TickInPlace(tm)
    BY DEF PlaceInv
  <2> QED BY <2>1, <2>2 DEF TickInPlace, At
<1>4. Apart(loc, loc', {tm})
  BY <1>1, <1>3, ApartWithout
<1>5. DOMAIN loc' \subseteq DOMAIN loc /\ \A x \in DOMAIN loc' : loc'[x].node # tm
  BY <1>1, <1>3 DEF Without
<1>6. TickInPlace(tm)'
  BY <1>2, <1>5 DEF TickInPlace, NoTok
<1>7. Numbered'
  BY <1>1, <1>5 DEF PlaceInv, Numbered
<1>8. \A h \in Goroutines \cap {tm} : WaitsOf(h)' = {}
  BY NodesDiffer
<1>9. \A c \in Channels : c \notin {tm} /\ buf'[c] = buf[c]
  BY <1>1, NodesDiffer
<1>10. \A t \in Timers : TickInPlace(t)' \/ (t \notin {tm} /\ pending'[t] = pending[t])
  BY <1>2, <1>6
<1> QED BY <1>1, <1>4, <1>7, <1>8, <1>9, <1>10, ShrinksPlace

\* A timer that runs has no tick to keep: it gives the new one to the first
\* waiter, or keeps it.
LEMMA FireTimerPlace ==
  ASSUME CommInv, MeetInv, PlaceInv, CommStep, NEW tm \in Timers, FireTimer(tm)
  PROVE  PlaceInv'
<1> PICK s : s = Raw(tm, Nil)
  OBVIOUS
<1>1. s \in Operand /\ \A f : MayUse(f, s)
  BY DEF Raw, Operand, Minters, Payloads, MayUse
<1> PICK tick : tick = TokenOf(s)
  OBVIOUS
<1>2. /\ tick \notin DOMAIN loc
      /\ \A x \in DOMAIN loc \cup {tick} : x.n <= Minted(s)[x.by]
  <2>1. \A f : /\ tick \in DOMAIN loc => loc[tick].node = f
               /\ \A x \in DOMAIN loc \cup {tick} : x.n <= Minted(s)[x.by]
    BY <1>1, TokenIsFree DEF CommInv, PlaceInv
  <2>2. PICK f : tick \in DOMAIN loc => f # loc[tick].node
    <3>1. \E f : f \notin {loc[tick].node}
      <4>1. {loc[tick].node} \notin {loc[tick].node} \/ {} \notin {loc[tick].node}
        OBVIOUS
      <4> QED BY <4>1
    <3> QED BY <3>1
  <2> QED BY <2>1, <2>2
<1>3. /\ born' = Minted(s)
      /\ halted = "no"
      /\ UNCHANGED buf
      /\ Shrinks
  BY StepTells DEF FireTimer, Idle, chanVars
<1>4. CASE Live(recvq[tm]) # {}
  <2> DEFINE r == Popped(recvq[tm])
  <2>1. /\ Shared(r) \in fired'
        /\ loc' = Moved(DropHeld(loc, r.g), tick, At(r.g))
        /\ UNCHANGED pending
    BY <1>4 DEF FireTimer
  <2>2. \E h \in Goroutines : h = r.g /\ WaitsOf(h)' = {}
    BY <1>3, <1>4, <2>1, ChannelsAreSources, ReceiverLeaves
  <2> HIDE DEF r
  <2>3. PICK h \in Goroutines : h = r.g /\ WaitsOf(h)' = {}
    BY <2>2
  <2>4. loc' = Moved(DropHeld(loc, h), TokenOf(s), At(h)) /\ MayUse(h, s)
    BY <1>1, <2>1, <2>3
  <2> QED BY <1>1, <1>3, <2>1, <2>3, <2>4, HandedOver
<1>5. CASE Live(recvq[tm]) = {}
  <2>1. /\ loc' = Moved(loc, tick, At(tm))
        /\ pending' = [pending EXCEPT ![tm] = tick]
    BY <1>5 DEF FireTimer
  <2>2. pending[tm] = NoTok
    BY DEF FireTimer, MeetInv, NoMissedSignal
  <2>3. \A x \in DOMAIN loc : loc[x].node # tm
    <3>1. NoTok \notin DOMAIN loc
      BY NoTokIsNoToken DEF CommInv, DataTypes
    <3> QED BY <2>2, <3>1 DEF PlaceInv, TickInPlace
  <2>4. pending'[tm] = tick /\ \A t \in Timers \ {tm} : pending'[t] = pending[t]
    BY <2>1 DEF CommInv, DataTypes
  <2>5. /\ DOMAIN loc' = DOMAIN loc \cup {tick}
        /\ loc'[tick] = At(tm)
        /\ \A x \in DOMAIN loc : x # tick => loc'[x] = loc[x]
    BY <2>1 DEF Moved
  <2>6. At(tm).node = tm
    BY DEF At
  <2>7. Apart(loc, loc', {tm})
    <3>1. Apart(loc, loc, {tm})
      BY ApartSame
    <3> QED BY <1>2, <2>1, <2>6, <3>1, ApartMoved
  <2>8. TickInPlace(tm)'
    BY <2>3, <2>4, <2>5 DEF TickInPlace, At
  <2>9. Numbered'
    BY <1>2, <1>3, <2>5 DEF Numbered
  <2>10. \A h \in Goroutines \cap {tm} : WaitsOf(h)' = {}
    BY NodesDiffer
  <2>11. \A c \in Channels : c \notin {tm} /\ buf'[c] = buf[c]
    BY <1>3, NodesDiffer
  <2>12. \A t \in Timers : TickInPlace(t)' \/ (t \notin {tm} /\ pending'[t] = pending[t])
    BY <2>4, <2>8
  <2> QED BY <1>3, <2>7, <2>9, <2>10, <2>11, <2>12, ShrinksPlace
<1> QED BY <1>4, <1>5

LEMMA FinishPlace ==
  ASSUME CommInv, PlaceInv, CommStep, NEW g \in Goroutines, Finish(g),
         UNCHANGED <<chanVars, waitVars, sourceVars>>
  PROVE  PlaceInv'
<1>1. /\ loc' = DropHeld(loc, g)
      /\ UNCHANGED <<born, buf, pending, tickets>>
      /\ Runs(g)
  BY DEF Finish, chanVars, waitVars, sourceVars
<1>2. Shrinks
  BY <1>1, StepTells
<1> PICK A : A = {g}
  OBVIOUS
<1>3. Apart(loc, loc', A)
  BY <1>1, ApartDrop
<1>4. Numbered'
  <2>1. DOMAIN loc' \subseteq DOMAIN loc
    BY <1>1, DropFacts
  <2> QED BY <1>1, <2>1 DEF PlaceInv, Numbered
<1>5. A \subseteq Goroutines /\ \A h \in A : WaitsOf(h)' = {}
  BY <1>1, <1>2, RunnersLeave
<1> QED BY <1>1, <1>2, <1>3, <1>4, <1>5, HandsPlace

LEMMA StepPlaces ==
  ASSUME CommInv, MeetInv, PlaceInv, [CommNext]_commVars
  PROVE  PlaceInv'
<1>1. CommStep
  BY StepKeeps
<1>2. ASSUME UNCHANGED <<loc, born, buf, pending, tickets>>
      PROVE  PlaceInv'
  BY <1>1, <1>2, StepTells, PlaceStays
<1>3. ASSUME NEW g \in Goroutines, Operation(g)
      PROVE  PlaceInv'
  <2>1. CASE \E c \in Channels : Close(g, c)
    <3>1. UNCHANGED <<loc, born, buf, pending, tickets>>
      BY <2>1 DEF Close, tokenVars, chanVars, waitVars, sourceVars
    <3> QED BY <1>2, <3>1
  <2>2. CASE \E cx \in Contexts : Cancel(g, cx)
    <3>1. UNCHANGED <<loc, born, buf, pending, tickets>>
      BY <2>2 DEF Cancel, Finishes, tokenVars, chanVars, waitVars, sourceVars
    <3> QED BY <1>2, <3>1
  <2>3. CASE \E members \in SUBSET Goroutines \ {{}} :
               Go(g, members) /\ UNCHANGED <<chanVars, waitVars, sourceVars>>
    <3>1. UNCHANGED <<loc, born, buf, pending, tickets>>
      BY <2>3 DEF Go, tokenVars, chanVars, waitVars, sourceVars
    <3> QED BY <1>2, <3>1
  <2>4. CASE Panic(g) /\ UNCHANGED <<chanVars, waitVars, sourceVars>>
    <3>1. UNCHANGED <<loc, born, buf, pending, tickets>>
      BY <2>4 DEF Panic, tokenVars, chanVars, waitVars, sourceVars
    <3> QED BY <1>2, <3>1
  <2> QED BY <1>1, <1>3, <2>1, <2>2, <2>3, <2>4, SendPlace, NotifyPlace, RecvPlace, SelectPlace,
             RemakePlace, FinishPlace DEF Operation
<1>4. ASSUME NEW g \in Goroutines, NEW op \in {"start", "reset", "stop"}, NEW tm \in Timers,
             TimerOp(g, op, tm)
      PROVE  PlaceInv'
  BY <1>1, <1>4, TimerOpPlace
<1>5. ASSUME NEW cx \in Contexts, FireContext(cx)
      PROVE  PlaceInv'
  <2>1. UNCHANGED <<loc, born, buf, pending, tickets>>
    BY <1>5 DEF FireContext, Finishes, tokenVars, chanVars
  <2> QED BY <1>2, <2>1
<1>6. ASSUME NEW tm \in Timers, FireTimer(tm)
      PROVE  PlaceInv'
  BY <1>1, <1>6, FireTimerPlace
<1>7. CASE Resume /\ UNCHANGED <<chanVars, waitVars, sourceVars>>
  <2>1. UNCHANGED <<loc, born, buf, pending, tickets>>
    BY <1>7 DEF Resume, tokenVars, chanVars, waitVars, sourceVars
  <2> QED BY <1>2, <2>1
<1>8. CASE UNCHANGED commVars
  <2>1. UNCHANGED <<loc, born, buf, pending, tickets>>
    BY <1>8 DEF commVars, tokenVars, chanVars, waitVars, sourceVars
  <2> QED BY <1>2, <2>1
<1> QED BY <1>3, <1>4, <1>5, <1>6, <1>7, <1>8 DEF CommNext

\* At first there are only the keys, at their mutexes.
LEMMA InitPlaces == CommInit => PlaceInv
<1> SUFFICES ASSUME CommInit PROVE PlaceInv
  OBVIOUS
<1>1. ASSUME NEW x \in DOMAIN loc
      PROVE  \E m \in Mutexes : x = KeyOf(m) /\ loc[x] = At(m)
  <2>1. loc = [k \in {KeyOf(m) : m \in Mutexes} |-> At(k.by)]
    BY DEF CommInit, SchedInit
  <2>2. PICK m \in Mutexes : x = KeyOf(m)
    BY <2>1
  <2>3. loc[x] = At(x.by)
    BY <2>1, <2>2
  <2> QED BY <2>2, <2>3 DEF KeyOf
<1>2. \A x \in DOMAIN loc : loc[x].node \in Mutexes /\ x.n = 1 /\ x.by \in Mutexes
  BY <1>1 DEF At, KeyOf
<1>3. \A c \in Channels : buf[c] = <<>>
  BY DEF CommInit
<1>4. \A c \in Channels : BufferInPlace(c)
  BY <1>2, <1>3, CommAssumption DEF BufferInPlace, Sources
<1>5. \A tm \in Timers : TickInPlace(tm)
  <2>1. \A tm \in Timers : pending[tm] = NoTok /\ tm \notin Mutexes
    BY CommAssumption DEF CommInit, Sources
  <2> QED BY <1>2, <2>1 DEF TickInPlace
<1>6. HandsInPlace
  BY DEF HandsInPlace, CommInit, Live
<1>7. Numbered
  <2>1. \A m \in Mutexes : born[m] = 1
    BY DEF CommInit, SchedInit, Minters
  <2> QED BY <1>2, <2>1 DEF Numbered
<1> QED BY <1>4, <1>5, <1>6, <1>7 DEF PlaceInv

LEMMA PlaceInvariant == CommSpec => []PlaceInv
<1>1. CommInv /\ MeetInv /\ PlaceInv /\ [CommNext]_commVars => PlaceInv'
  BY StepPlaces
<1> QED BY <1>1, InitPlaces, CommInvariant, MeetInvariant, PTL DEF CommSpec

\* The world the view draws is the one the program runs in: every token of a
\* buffer is drawn in its slot and a slot shows only what is in it, a tick is
\* drawn at the timer that keeps it, and what a waiting sender sends is drawn
\* at the sender (Sim.locs against CHRT.buf, TimerRT.pending and the waiters).
THEOREM TokensStayInPlace == CommSpec => []TokensInPlace
<1>1. PlaceInv => TokensInPlace
  BY DEF PlaceInv, BufferInPlace, TickInPlace, HandsInPlace, TokensInPlace
<1> QED BY <1>1, PlaceInvariant, PTL

-----------------------------------------------------------------------------
(* The inductive invariant.                                                *)

\* Nothing is due before t.
Ahead(t) ==
  /\ \A g \in Goroutines : status[g] = "working" => workEnd[g] >= t
  /\ \A g \in Goroutines : wake[g] # Nil => wake[g] >= t
  /\ \A tm \in Timers : fireAt[tm] # Nil => fireAt[tm] >= t
  /\ \A cx \in Contexts : ~ done[cx] /\ Deadline[cx] # Nil => Deadline[cx] >= t

\* Who sleeps or works, and which timer runs, has a time, and it is not past.
Calendar ==
  /\ \A g \in Goroutines : status[g] = "sleeping" <=> wake[g] # Nil
  /\ \A g \in Goroutines : status[g] = "working" => workEnd[g] # Nil
  /\ \A tm \in Timers : timer[tm] = "running" <=> fireAt[tm] # Nil
  /\ Ahead(now)
  /\ Until # Nil => now <= Until

\* Whoever the clock wakes, and whoever no longer runs.
Away == {"working", "sleeping"}
Ended == {"panicked", "leaked", "deadlocked"}

\* A goroutine has the floor in a flush only, things fire only while the program
\* runs, nobody is given up before the verdict, and a run that was stopped has its
\* reason.
Turns ==
  /\ cur # Nil => phase = "flush"
  /\ phase = "fire" => halted = "no"
  /\ outcome = "none"
  /\ halted = "no" => \A g \in Goroutines : status[g] \notin Ended
  /\ halted # "no" => errors \/ \E g \in Goroutines : status[g] = "panicked"

Going == CommInv /\ Calendar /\ Turns
Concluded ==
  /\ halted # "no" \/ cur = Nil
  /\ VerdictFits
  /\ Until = Nil => VerdictIsFinal
TimeInv ==
  /\ ClockTypeOK
  /\ phase # "over" => Going
  /\ phase = "over" => Concluded

\* What an operation, a tick and a deadline do to the goroutines: those that
\* work and sleep go on with it, no other begins to, and a run ends with its
\* reason.
Course ==
  /\ \A h \in Goroutines :
       status[h] \in Away \/ status'[h] \in Away => status'[h] = status[h]
  /\ halted' = "no" => \A h \in Goroutines : status'[h] \in Ended => status'[h] = status[h]
  /\ halted' # "no" => errors' \/ \E h \in Goroutines : status'[h] = "panicked"

\* The operation leaves the clock's things alone.
Effect ==
  /\ Course
  /\ UNCHANGED timer
  /\ \A cx \in Contexts : done[cx] => done'[cx]

-----------------------------------------------------------------------------
(* What operations do to the goroutines.                                   *)

LEMMA WakesCourse ==
  ASSUME NEW ws, Wakes(ws), \A h \in Names(ws) : status[h] \notin Away,
         halted = "no", halted' = halted
  PROVE  Course
<1>1. \A h \in Goroutines : status'[h] = IF h \in Names(ws) THEN "running" ELSE status[h]
  BY DEF Wakes, Names
<1> QED BY <1>1 DEF Course, Away, Ended

LEMMA ReturnsCourse ==
  ASSUME NEW val, NEW ws, Returns(val, ws), \A h \in Names(ws) : status[h] \notin Away,
         halted = "no"
  PROVE  Course
  BY WakesCourse DEF Returns

LEMMA ReturnsAloneCourse ==
  ASSUME NEW val, Returns(val, <<>>), halted = "no"
  PROVE  Course
  BY EmptyEntries, ReturnsCourse

LEMMA PanicsCourse ==
  ASSUME NEW p \in Goroutines, NEW ws, Panics(p, ws), status[p] \notin Away,
         \A h \in Names(ws) : status[h] \notin Away
  PROVE  Course
<1>1. \A h \in Goroutines :
        status'[h] = IF h = p THEN "panicked" ELSE IF h \in Names(ws) THEN "running" ELSE status[h]
  BY DEF Panics, Names
<1>2. halted' = "panic"
  BY DEF Panics
<1> QED BY <1>1, <1>2 DEF Course, Away

LEMMA FatalCourse ==
  ASSUME Fatal
  PROVE  Course
  BY DEF Fatal, Course

LEMMA ParksCourse ==
  ASSUME NEW g \in Goroutines, status[g] = "running", status \in [Goroutines -> Statuses],
         Parks(g), halted = "no"
  PROVE  Course
<1>1. \A h \in Goroutines : status'[h] = IF h = g THEN "blocked" ELSE status[h]
  BY DEF Parks
<1> QED BY <1>1 DEF Parks, Course, Away, Ended

\* Who has the floor.
LEMMA Runner ==
  ASSUME CommInv, NEW g \in Goroutines, Runs(g)
  PROVE  status[g] = "running" /\ halted = "no" /\ status \in [Goroutines -> Statuses]
  BY NilIsNoGoroutine DEF CommInv, Sched, RunTypes, ReadyExact, Runs

\* The waiter that is served is blocked.
LEMMA ServedReceiver ==
  ASSUME CommInv, halted = "no", NEW x \in Sources, Live(recvq[x]) # {}, NEW val
  PROVE  \A h \in Names(<<Entry(Popped(recvq[x]).g, val)>>) : status[h] \notin Away
<1>1. status[Popped(recvq[x]).g] = "blocked"
  BY PoppedReceiver DEF CommInv
<1>2. Names(<<Entry(Popped(recvq[x]).g, val)>>) = {Popped(recvq[x]).g}
  BY DEF Names, Entry
<1> QED BY <1>1, <1>2 DEF Away

LEMMA ServedSender ==
  ASSUME CommInv, halted = "no", NEW c \in Channels, Live(sendq[c]) # {}, NEW val
  PROVE  \A h \in Names(<<Entry(Popped(sendq[c]).g, val)>>) : status[h] \notin Away
<1>1. status[Popped(sendq[c]).g] = "blocked"
  BY PoppedSender DEF CommInv
<1>2. Names(<<Entry(Popped(sendq[c]).g, val)>>) = {Popped(sendq[c]).g}
  BY DEF Names, Entry
<1> QED BY <1>1, <1>2 DEF Away

LEMMA SendNowEffect ==
  ASSUME CommInv, NEW g \in Goroutines, NEW c \in Channels, NEW s, NEW i, Runs(g),
         SendNow(g, c, s, i)
  PROVE  Course
<1>1. halted = "no" /\ status[g] \notin Away /\ c \in Sources
  BY Runner, ChannelsAreSources DEF Away
<1>2. CASE SendUnheld(g, s)
  BY <1>2, FatalCourse DEF SendUnheld
<1>3. CASE SendOnClosed(g, c, s)
  BY <1>1, <1>3, EmptyEntries, PanicsCourse DEF SendOnClosed
<1>4. CASE SendToReceiver(g, c, s, i)
  BY <1>1, <1>4, ServedReceiver, ReturnsCourse DEF SendToReceiver
<1>5. CASE SendToBuffer(g, c, s, i)
  BY <1>1, <1>5, ReturnsAloneCourse DEF SendToBuffer
<1> QED BY <1>2, <1>3, <1>4, <1>5 DEF SendNow

LEMMA StillEffect ==
  ASSUME Course, UNCHANGED sourceVars
  PROVE  Effect
  BY DEF Effect, sourceVars

LEMMA SendEffect ==
  ASSUME CommInv, NEW g \in Goroutines, NEW c \in Channels, NEW s, Send(g, c, s)
  PROVE  Effect
<1>1. Runs(g) /\ UNCHANGED sourceVars
  BY DEF Send
<1>2. CASE SendNow(g, c, s, 0)
  BY <1>1, <1>2, SendNowEffect, StillEffect
<1>3. CASE Parks(g)
  BY <1>1, <1>3, Runner, ParksCourse, StillEffect
<1> QED BY <1>2, <1>3 DEF Send

LEMMA NotifyEffect ==
  ASSUME CommInv, NEW g \in Goroutines, NEW c \in Channels, NEW s, Notify(g, c, s)
  PROVE  Effect
<1>1. Runs(g) /\ UNCHANGED sourceVars /\ halted = "no"
  BY Runner DEF Notify
<1>2. CASE SendNow(g, c, s, 0)
  BY <1>1, <1>2, SendNowEffect, StillEffect
<1>3. CASE Returns(Unit, <<>>)
  BY <1>1, <1>3, ReturnsAloneCourse, StillEffect
<1> QED BY <1>2, <1>3 DEF Notify

LEMMA TakeNowEffect ==
  ASSUME CommInv, NEW g \in Goroutines, NEW c \in Channels, NEW i, Runs(g), TakeNow(g, c, i)
  PROVE  Effect
<1>1. halted = "no" /\ UNCHANGED sourceVars
  BY Runner DEF TakeNow
<1>2. CASE TakeFromBuffer(g, c, i)
  <2>1. CASE Live(sendq[c]) = {} /\ Returns(Result(i, TRUE, Head(buf[c])), <<>>)
    BY <1>1, <2>1, ReturnsAloneCourse, StillEffect
  <2>2. CASE /\ Live(sendq[c]) # {}
             /\ Returns(Result(i, TRUE, Head(buf[c])),
                        <<Entry(Popped(sendq[c]).g,
                                Sent(Popped(sendq[c]).i, TokenOf(Popped(sendq[c]).s)))>>)
    BY <1>1, <2>2, ServedSender, ReturnsCourse, StillEffect
  <2> QED BY <1>2, <2>1, <2>2 DEF TakeFromBuffer
<1>3. CASE TakeFromSender(g, c, i)
  <2>1. /\ Live(sendq[c]) # {}
        /\ Returns(Result(i, TRUE, TokenOf(Popped(sendq[c]).s)),
                   <<Entry(Popped(sendq[c]).g,
                           Sent(Popped(sendq[c]).i, TokenOf(Popped(sendq[c]).s)))>>)
    BY <1>3 DEF TakeFromSender
  <2> QED BY <1>1, <2>1, ServedSender, ReturnsCourse, StillEffect
<1>4. CASE TakeFromUnheld(c)
  BY <1>1, <1>4, FatalCourse, StillEffect DEF TakeFromUnheld
<1>5. CASE TakeFromClosed(c, i)
  BY <1>1, <1>5, ReturnsAloneCourse, StillEffect DEF TakeFromClosed
<1> QED BY <1>2, <1>3, <1>4, <1>5 DEF TakeNow

LEMMA ReceiveNowEffect ==
  ASSUME CommInv, NEW g \in Goroutines, NEW x \in Sources, NEW i, Runs(g), ReceiveNow(g, x, i)
  PROVE  Effect
<1>1. halted = "no"
  BY Runner
<1>2. CASE x \in Channels /\ TakeNow(g, x, i)
  BY <1>2, TakeNowEffect
<1>3. CASE x \in Timers /\ TakeTick(g, x, i)
  BY <1>1, <1>3, ReturnsAloneCourse DEF TakeTick, Effect
<1>4. CASE x \in Contexts /\ SeeDone(x, i)
  BY <1>1, <1>4, ReturnsAloneCourse, StillEffect DEF SeeDone
<1> QED BY <1>2, <1>3, <1>4 DEF ReceiveNow

LEMMA RecvEffect ==
  ASSUME CommInv, NEW g \in Goroutines, NEW x \in Sources, Recv(g, x)
  PROVE  Effect
<1>1. Runs(g)
  BY DEF Recv
<1>2. CASE ReceiveNow(g, x, 0)
  BY <1>1, <1>2, ReceiveNowEffect
<1>3. CASE Parks(g) /\ UNCHANGED sourceVars
  BY <1>1, <1>3, Runner, ParksCourse, StillEffect
<1> QED BY <1>2, <1>3 DEF Recv

LEMMA SelectEffect ==
  ASSUME CommInv, NEW g \in Goroutines, NEW cases \in Selects(g), NEW default,
         Select(g, cases, default)
  PROVE  Effect
<1>1. Runs(g) /\ halted = "no"
  BY Runner DEF Select
<1>2. ASSUME NEW i \in DOMAIN cases, cases[i].dir = "send",
             SendNow(g, cases[i].on, cases[i].s, i), UNCHANGED sourceVars
      PROVE  Effect
  <2>1. cases[i].on \in Channels
    BY <1>2, CaseFacts
  <2> QED BY <1>1, <1>2, <2>1, SendNowEffect, StillEffect
<1>3. ASSUME NEW i \in DOMAIN cases, cases[i].dir = "recv", ReceiveNow(g, cases[i].on, i)
      PROVE  Effect
  <2>1. cases[i].on \in Sources
    BY <1>3, CaseFacts
  <2> QED BY <1>1, <1>3, <2>1, ReceiveNowEffect
<1>4. CASE Returns(Result(-1, FALSE, NoTok), <<>>) /\ UNCHANGED sourceVars
  BY <1>1, <1>4, ReturnsAloneCourse, StillEffect
<1>5. CASE Parks(g) /\ UNCHANGED sourceVars
  BY <1>1, <1>5, Runner, ParksCourse, StillEffect
<1> QED BY <1>2, <1>3, <1>4, <1>5 DEF Select

LEMMA CloseEffect ==
  ASSUME CommInv, NEW g \in Goroutines, NEW c \in Channels, Close(g, c)
  PROVE  Effect
<1>1. Waiting /\ halted = "no" /\ status[g] \notin Away /\ c \in Sources /\ UNCHANGED sourceVars
  BY Runner, ChannelsAreSources DEF CommInv, Close, Away
<1>2. CASE Panics(g, <<>>)
  BY <1>1, <1>2, EmptyEntries, PanicsCourse, StillEffect
<1>3. ASSUME NEW order \in QueueOrder(recvq[c])
      PROVE  \A h \in Names(EntriesOf(recvq[c], order, FALSE)) : status[h] \notin Away
  BY <1>1, WokenFacts DEF Away
<1>4. ASSUME NEW order \in QueueOrder(recvq[c]), Returns(Unit, EntriesOf(recvq[c], order, FALSE))
      PROVE  Effect
  BY <1>1, <1>3, <1>4, ReturnsCourse, StillEffect
<1>5. ASSUME NEW k \in Live(sendq[c])
      PROVE  k \in Nat /\ sendq[c][k].g \in Goroutines /\ status[sendq[c][k].g] \notin Away
  <2>1. k \in DOMAIN sendq[c] /\ sendq[c] \in Seq(Sender) /\ Shared(sendq[c][k]) \notin fired
    BY <1>1 DEF Live, Waiting, QueueTypes
  <2>2. k \in Nat
    BY <2>1, SeqDomain
  <2>3. /\ sendq[c][k].g \in Goroutines /\ sendq[c][k].n \in Nat \ {0}
        /\ sendq[c][k].n <= tickets[sendq[c][k].g]
        /\ <<sendq[c][k].g, sendq[c][k].n>> \notin fired
    BY <1>1, <2>1, SendersAreKnown
  <2>4. status[sendq[c][k].g] = "blocked"
    BY <1>1, <2>3, LiveIsBlocked
  <2> QED BY <2>2, <2>3, <2>4 DEF Away
<1>6. ASSUME NEW order \in QueueOrder(recvq[c]), NEW k \in Live(sendq[c]),
             Panics(sendq[c][k].g, EntriesOf(recvq[c], order, FALSE))
      PROVE  Effect
  BY <1>1, <1>3, <1>5, <1>6, PanicsCourse, StillEffect
<1>7. CASE ~ closed[c]
  <2> DEFINE stuck == {k \in Live(sendq[c]) :
                         \A j \in Live(recvq[c]) : Shared(recvq[c][j]) # Shared(sendq[c][k])}
             first == CHOOSE k \in stuck : \A j \in stuck : k <= j
  <2>1. PICK order \in QueueOrder(recvq[c]) :
          IF stuck = {} THEN Returns(Unit, EntriesOf(recvq[c], order, FALSE))
          ELSE Panics(sendq[c][first].g, EntriesOf(recvq[c], order, FALSE))
    BY <1>7 DEF Close
  <2>2. CASE stuck = {}
    BY <1>4, <2>1, <2>2
  <2>3. CASE stuck # {}
    <3>1. stuck \subseteq Nat
      BY <1>5
    <3>2. first \in stuck
      BY <2>3, <3>1, LeastNumber
    <3> QED BY <1>6, <2>1, <2>3, <3>2
  <2> QED BY <2>2, <2>3
<1> QED BY <1>2, <1>7 DEF Close

LEMMA RemakeEffect ==
  ASSUME CommInv, NEW g \in Goroutines, NEW c \in Channels, Remake(g, c)
  PROVE  Effect
<1>1. halted = "no" /\ UNCHANGED sourceVars
  BY Runner DEF Remake
<1> QED BY <1>1, ReturnsAloneCourse, FatalCourse, StillEffect DEF Remake

LEMMA FinishesDone ==
  ASSUME CommInv, NEW cx \in Contexts, Finishes(cx)
  PROVE  UNCHANGED timer /\ \A x \in Contexts : done'[x] = (done[x] \/ x = cx)
<1>1. done \in [Contexts -> BOOLEAN]
  BY DEF CommInv, DataTypes
<1>2. \A x \in Contexts : done'[x] = IF x = cx THEN TRUE ELSE done[x]
  BY <1>1 DEF Finishes
<1> QED BY <1>1, <1>2 DEF Finishes

LEMMA CancelEffect ==
  ASSUME CommInv, NEW g \in Goroutines, NEW cx \in Contexts, Cancel(g, cx)
  PROVE  Effect
<1>1. Waiting /\ halted = "no" /\ cx \in Sources
  BY Runner, ChannelsAreSources DEF CommInv, Cancel
<1>2. CASE done[cx]
  BY <1>1, <1>2, ReturnsAloneCourse, StillEffect DEF Cancel
<1>3. ASSUME NEW order \in QueueOrder(recvq[cx]), Finishes(cx),
             Returns(Unit, EntriesOf(recvq[cx], order, FALSE))
      PROVE  Effect
  <2>1. \A h \in Names(EntriesOf(recvq[cx], order, FALSE)) : status[h] \notin Away
    BY <1>1, WokenFacts DEF Away
  <2> QED BY <1>1, <1>3, <2>1, ReturnsCourse, FinishesDone DEF Effect
<1> QED BY <1>2, <1>3 DEF Cancel

LEMMA FireContextEffect ==
  ASSUME CommInv, NEW cx \in Contexts, FireContext(cx)
  PROVE  Effect /\ \A x \in Contexts : done'[x] = (done[x] \/ x = cx)
<1>1. Waiting /\ halted = "no" /\ halted' = halted /\ cx \in Sources
  BY ChannelsAreSources DEF CommInv, FireContext, Idle
<1>2. PICK order \in QueueOrder(recvq[cx]) :
        Finishes(cx) /\ Wakes(EntriesOf(recvq[cx], order, FALSE))
  BY DEF FireContext
<1>3. \A h \in Names(EntriesOf(recvq[cx], order, FALSE)) : status[h] \notin Away
  BY <1>1, WokenFacts DEF Away
<1> QED BY <1>1, <1>2, <1>3, WakesCourse, FinishesDone DEF Effect

LEMMA FireTimerEffect ==
  ASSUME CommInv, NEW tm \in Timers, FireTimer(tm)
  PROVE  Course /\ UNCHANGED done /\ timer' = [timer EXCEPT ![tm] = "fired"]
<1>1. halted = "no" /\ halted' = halted /\ tm \in Sources
  BY ChannelsAreSources DEF FireTimer, Idle
<1>2. CASE Live(recvq[tm]) # {}
  <2>1. PICK val : Wakes(<<Entry(Popped(recvq[tm]).g, val)>>)
    BY <1>2 DEF FireTimer
  <2> QED BY <1>1, <1>2, <2>1, ServedReceiver, WakesCourse DEF FireTimer
<1>3. CASE Live(recvq[tm]) = {}
  <2>1. Wakes(<<>>)
    BY <1>3 DEF FireTimer
  <2> QED BY <1>1, <2>1, EmptyEntries, WakesCourse DEF FireTimer
<1> QED BY <1>2, <1>3

LEMMA TimerOpEffect ==
  ASSUME CommInv, NEW g \in Goroutines, NEW op, NEW tm \in Timers, TimerOp(g, op, tm)
  PROVE  /\ Course /\ UNCHANGED done
         /\ timer' = [timer EXCEPT ![tm] = IF op = "stop" THEN "stopped" ELSE "running"]
  BY Runner, ReturnsAloneCourse DEF TimerOp

LEMMA GoEffect ==
  ASSUME CommInv, NEW g \in Goroutines, NEW members \in SUBSET Goroutines, Go(g, members),
         UNCHANGED sourceVars
  PROVE  Effect
<1>1. halted = "no"
  BY Runner DEF Go
<1>2. CASE Fatal
  BY <1>2, FatalCourse, StillEffect
<1>3. ASSUME \A m \in members : status[m] = "idle", NEW order \in Orders(members),
             Returns(Unit, [k \in DOMAIN order |-> Entry(order[k], Unit)])
      PROVE  Effect
  <2>1. IsFiniteSet(members)
    BY FS_Subset, SchedAssumption
  <2>2. Names([k \in DOMAIN order |-> Entry(order[k], Unit)]) = members
    BY <2>1, OrderedEntries
  <2>3. \A h \in Names([k \in DOMAIN order |-> Entry(order[k], Unit)]) : status[h] \notin Away
    BY <1>3, <2>2 DEF Away
  <2> QED BY <1>1, <1>3, <2>3, ReturnsCourse, StillEffect
<1> QED BY <1>2, <1>3 DEF Go

LEMMA FinishEffect ==
  ASSUME CommInv, NEW g \in Goroutines, Finish(g), UNCHANGED sourceVars
  PROVE  Effect
<1>1. status[g] = "running" /\ halted = "no" /\ halted' = "no" /\ status \in [Goroutines -> Statuses]
  BY Runner DEF Finish
<1>2. \A h \in Goroutines : status'[h] = IF h = g THEN "done" ELSE status[h]
  BY <1>1 DEF Finish
<1>3. Course
  BY <1>1, <1>2 DEF Course, Away, Ended
<1> QED BY <1>3, StillEffect

LEMMA OperationEffect ==
  ASSUME CommInv, NEW g \in Goroutines, Operation(g)
  PROVE  Effect
<1>1. ASSUME NEW members \in SUBSET Goroutines \ {{}}, Go(g, members),
             UNCHANGED <<chanVars, waitVars, sourceVars>>
      PROVE  Effect
  BY <1>1, GoEffect
<1>2. ASSUME Panic(g), UNCHANGED sourceVars
      PROVE  Effect
  BY <1>2, Runner, EmptyEntries, PanicsCourse, StillEffect DEF Panic, Away
<1> QED
  BY <1>1, <1>2, SendEffect, NotifyEffect, RecvEffect, SelectEffect, CloseEffect, RemakeEffect,
     CancelEffect, FinishEffect DEF Operation

-----------------------------------------------------------------------------
(* Times.                                                                  *)

LEMMA CommTypesFollow == CommInv => CommTypeOK
  BY DEF CommInv, Sched, RunTypes, Entries, Waiting, QueueTypes, DataTypes, CommTypeOK, SchedTypeOK

LEMMA NilIsNoTime == Nil \notin Times /\ Forever \in Nat
  BY ClockAssumption DEF Times

LEMMA LaterFacts ==
  ASSUME now \in Times, NEW ms \in 0..Forever, Fits(ms)
  PROVE  Later(now, ms) \in Times /\ Later(now, ms) >= now
  BY ClockAssumption DEF Later, Fits, Times

LEMMA LeastTime ==
  ASSUME NEW T \in SUBSET Nat, T # {}
  PROVE  Min(T) \in T /\ \A y \in T : Min(T) <= y
  BY LeastNumber DEF Min

\* What is due is a time of the calendar.
LEMMA DueFacts ==
  ASSUME ClockTypeOK, Calendar
  PROVE  /\ DueTimes \subseteq Times
         /\ \A g \in Goroutines : status[g] = "working" => workEnd[g] \in DueTimes
         /\ \A g \in Goroutines : wake[g] # Nil => wake[g] \in DueTimes
         /\ \A tm \in Timers : fireAt[tm] # Nil => fireAt[tm] \in DueTimes
         /\ \A cx \in Contexts : ~ done[cx] /\ Deadline[cx] # Nil => Deadline[cx] \in DueTimes
         /\ \A t \in Times : Ahead(t) => \A x \in DueTimes : x >= t
<1>1. /\ workEnd \in [Goroutines -> Times \cup {Nil}]
      /\ wake \in [Goroutines -> Times \cup {Nil}]
      /\ fireAt \in [Timers -> Times \cup {Nil}]
  BY DEF ClockTypeOK
<1>2. Deadline \in [Contexts -> Times \cup {Nil}]
  BY ClockAssumption DEF Times
<1>3. DueTimes \subseteq Times
  BY <1>1, <1>2 DEF DueTimes, Calendar
<1>4. \A g \in Goroutines : wake[g] # Nil => wake[g] \in DueTimes
  BY DEF DueTimes, Calendar, Parked
<1>5. \A tm \in Timers : fireAt[tm] # Nil => fireAt[tm] \in DueTimes
  BY DEF DueTimes, Calendar
<1>6. \A g \in Goroutines : status[g] = "working" => workEnd[g] \in DueTimes
  BY DEF DueTimes
<1>7. \A cx \in Contexts : ~ done[cx] /\ Deadline[cx] # Nil => Deadline[cx] \in DueTimes
  BY DEF DueTimes
<1>8. ASSUME NEW t \in Times, Ahead(t), NEW x \in DueTimes
      PROVE  x >= t
  BY <1>8 DEF DueTimes, Ahead
<1> QED BY <1>3, <1>4, <1>5, <1>6, <1>7, <1>8

\* The clock looks no further than to the first thing that is due.
LEMMA NextFacts ==
  ASSUME ClockTypeOK, Calendar
  PROVE  /\ NextTime \in Times
         /\ (\E g \in Goroutines : Alive(g)) => \A x \in DueTimes : NextTime <= x
         /\ NextTime = Forever \/ NextTime \in DueTimes
         /\ NextTime # Forever => \E g \in Goroutines : Alive(g)
<1>1. DueTimes \cup {Forever} \subseteq Times /\ Times \subseteq Nat
  BY DueFacts, ClockAssumption DEF Times
<1> DEFINE m == Min(DueTimes \cup {Forever})
<1>2. m \in DueTimes \cup {Forever} /\ \A y \in DueTimes \cup {Forever} : m <= y
  BY <1>1, LeastTime
<1>3. NextTime = IF \E g \in Goroutines : Alive(g) THEN m ELSE Forever
  BY DEF NextTime
<1> HIDE DEF m
<1> QED BY <1>1, <1>2, <1>3

-----------------------------------------------------------------------------
(* The steps.                                                              *)

\* Parts of the invariant after a step that leaves who is away alone.
LEMMA AheadStays ==
  ASSUME Ahead(now), Course, UNCHANGED <<now, workEnd, wake>>,
         \A tm \in Timers : fireAt'[tm] # Nil => fireAt'[tm] >= now,
         \A cx \in Contexts : done[cx] => done'[cx]
  PROVE  Ahead(now)'
  BY DEF Ahead, Course, Away

LEMMA CalendarStays ==
  ASSUME Calendar, Course, UNCHANGED <<now, workEnd, wake>>,
         \A tm \in Timers : fireAt'[tm] # Nil => fireAt'[tm] >= now,
         \A tm \in Timers : timer'[tm] = "running" <=> fireAt'[tm] # Nil,
         \A cx \in Contexts : done[cx] => done'[cx]
  PROVE  Calendar'
<1>1. Ahead(now)'
  BY AheadStays DEF Calendar
<1> QED BY <1>1 DEF Calendar, Course, Away

LEMMA TurnsStay ==
  ASSUME Turns, Course, halted = "no", UNCHANGED outcome, cur' # Nil => phase' = "flush",
         phase' = "fire" => halted' = "no"
  PROVE  Turns'
  BY DEF Turns, Course, Ended

LEMMA GoingOn ==
  ASSUME CommInv', Calendar', Turns', phase' \in {"flush", "fire"}, now' \in Times,
         outcome' \in Outcomes,
         workEnd' \in [Goroutines -> Times \cup {Nil}], wake' \in [Goroutines -> Times \cup {Nil}],
         fireAt' \in [Timers -> Times \cup {Nil}]
  PROVE  TimeInv'
<1>1. CommTypeOK'
  BY CommTypesFollow, PTL
<1> QED BY <1>1 DEF TimeInv, ClockTypeOK, Going

LEMMA OperationKeepsTime ==
  ASSUME TimeInv, NEW g \in Goroutines, Operation(g), UNCHANGED clockVars, phase # "over"
  PROVE  TimeInv' /\ Punctual
<1>1. CommInv /\ Calendar /\ Turns /\ ClockTypeOK
  BY DEF TimeInv, Going
<1>2. CommInv' /\ Course /\ UNCHANGED timer /\ \A cx \in Contexts : done[cx] => done'[cx]
  BY <1>1, OperationKeeps, OperationEffect DEF CommStep, Effect
<1>3. Runs(g)
  BY OperationRuns
<1>4. halted = "no" /\ cur # Nil /\ phase = "flush"
  BY <1>1, <1>3, NilIsNoGoroutine DEF Runs, Turns
<1>5. UNCHANGED <<now, phase, outcome, workEnd, wake, fireAt>>
  BY DEF clockVars, dueVars, runVars
<1>6. Calendar'
  BY <1>1, <1>2, <1>5, CalendarStays DEF Calendar, Ahead
<1>7. Turns'
  BY <1>1, <1>2, <1>4, <1>5, TurnsStay
<1>8. TimeInv'
  BY <1>1, <1>2, <1>4, <1>5, <1>6, <1>7, GoingOn DEF ClockTypeOK
<1>9. Punctual
  BY <1>1, <1>2, <1>4, <1>5, ClockAssumption DEF Punctual, Course, Away, ClockTypeOK, Times
<1> QED BY <1>8, <1>9

LEMMA SetTimerKeepsTime ==
  ASSUME TimeInv, NEW g \in Goroutines, NEW tm \in Timers, NEW op \in {"start", "reset", "stop"},
         SetTimer(g, op, tm), phase # "over"
  PROVE  TimeInv' /\ Punctual
<1>1. CommInv /\ Calendar /\ Turns /\ ClockTypeOK
  BY DEF TimeInv, Going
<1>2. /\ TimerOp(g, op, tm)
      /\ op = "stop" \/ Fits(After[tm])
      /\ fireAt' = [fireAt EXCEPT ![tm] = IF op = "stop" THEN Nil ELSE Later(now, After[tm])]
      /\ UNCHANGED <<workEnd, wake, now, phase, outcome>>
  BY DEF SetTimer, runVars
<1>3. CommInv' /\ Course /\ UNCHANGED done
  BY <1>1, <1>2, TimerOpKeeps, TimerOpEffect DEF CommStep
<1>4. timer' = [timer EXCEPT ![tm] = IF op = "stop" THEN "stopped" ELSE "running"]
  BY <1>1, <1>2, TimerOpEffect
<1>5. halted = "no" /\ cur # Nil /\ phase = "flush"
  BY <1>1, <1>2, NilIsNoGoroutine DEF TimerOp, Runs, Turns
<1>6. now \in Times /\ After[tm] \in 0..Forever
  BY <1>1, ClockAssumption DEF ClockTypeOK
<1>7. op # "stop" => Later(now, After[tm]) \in Times /\ Later(now, After[tm]) >= now
  BY <1>2, <1>6, LaterFacts
<1>8. timer \in [Timers -> {"idle", "running", "fired", "stopped"}] /\ fireAt \in [Timers -> Times \cup {Nil}]
  BY <1>1 DEF ClockTypeOK, CommTypeOK
<1>9. fireAt' \in [Timers -> Times \cup {Nil}]
  BY <1>2, <1>7, <1>8
<1>10. ASSUME NEW x \in Timers
       PROVE  /\ fireAt'[x] # Nil => fireAt'[x] >= now
              /\ timer'[x] = "running" <=> fireAt'[x] # Nil
              /\ timer'[x] # "fired" \/ timer[x] = "fired"
  <2>1. CASE x = tm
    <3>1. /\ timer'[x] = IF op = "stop" THEN "stopped" ELSE "running"
          /\ fireAt'[x] = IF op = "stop" THEN Nil ELSE Later(now, After[tm])
      BY <1>2, <1>4, <1>8, <2>1
    <3> QED BY <1>7, <3>1, NilIsNoTime
  <2>2. CASE x # tm
    <3>1. timer'[x] = timer[x] /\ fireAt'[x] = fireAt[x]
      BY <1>2, <1>4, <1>8, <2>2
    <3> QED BY <1>1, <3>1 DEF Calendar, Ahead
  <2> QED BY <2>1, <2>2
<1>11. Calendar'
  BY <1>1, <1>2, <1>3, <1>10, CalendarStays
<1>12. Turns'
  BY <1>1, <1>2, <1>3, <1>5, TurnsStay
<1>13. TimeInv'
  BY <1>1, <1>2, <1>3, <1>5, <1>9, <1>11, <1>12, GoingOn DEF ClockTypeOK
<1>14. Punctual
  BY <1>1, <1>2, <1>3, <1>5, <1>10, ClockAssumption DEF Punctual, Course, Away, ClockTypeOK, Times
<1> QED BY <1>13, <1>14

\* A goroutine that leaves the floor for a time waits in no queue.
LEMMA GoesAway ==
  ASSUME CommInv, NEW g \in Goroutines, Runs(g), NEW st \in Away,
         status' = [status EXCEPT ![g] = st], cur' = Nil, input' = Unit,
         UNCHANGED <<waitMu, ready, halted, errors>>,
         UNCHANGED <<tokenVars, chanVars, waitVars, sourceVars>>
  PROVE  CommInv'
<1>1. Sched /\ Waiting /\ status[g] = "running" /\ halted = "no"
  BY Runner DEF CommInv
<1>2. RunTypes'
  BY <1>1, UnitIsAResult DEF Sched, RunTypes, Statuses, Away
<1>3. ReadyExact'
  BY <1>1, NilIsNoGoroutine DEF Sched, RunTypes, ReadyExact, Runs, Away
<1>4. UNCHANGED <<sendq, recvq, tickets, fired>>
  BY DEF chanVars, waitVars
<1>5. KeptAll /\ QueueTypes'
  BY <1>1, <1>4, StillKept
<1>6. \A h \in Goroutines : status'[h] = "blocked" <=> status[h] = "blocked"
  BY <1>1 DEF Sched, RunTypes, Away
<1>7. Waiting'
  BY <1>1, <1>4, <1>5, <1>6, CalmStep
<1>8. DataTypes'
  BY DEF CommInv, DataTypes, tokenVars, chanVars, sourceVars
<1> QED BY <1>2, <1>3, <1>7, <1>8 DEF CommInv, Sched

LEMMA WorkKeepsTime ==
  ASSUME TimeInv, NEW g \in Goroutines, NEW ms \in Durations, Work(g, ms), phase # "over"
  PROVE  TimeInv' /\ Punctual
<1>1. CommInv /\ Calendar /\ Turns /\ ClockTypeOK
  BY DEF TimeInv, Going
<1>2. /\ Runs(g) /\ Fits(ms)
      /\ status' = [status EXCEPT ![g] = "working"]
      /\ workEnd' = [workEnd EXCEPT ![g] = Later(now, ms)]
      /\ cur' = Nil /\ input' = Unit
      /\ UNCHANGED <<waitMu, ready, halted, errors, wake, fireAt, now, phase, outcome>>
      /\ UNCHANGED <<tokenVars, chanVars, waitVars, sourceVars>>
  BY DEF Work, runVars
<1>3. UNCHANGED <<timer, done>>
  BY <1>2 DEF sourceVars
<1>4. CommInv'
  BY <1>1, <1>2, GoesAway DEF Away
<1>5. status[g] = "running" /\ status \in [Goroutines -> Statuses] /\ halted = "no"
  BY <1>1, <1>2, Runner
<1>6. now \in Times /\ ms \in 0..Forever /\ workEnd \in [Goroutines -> Times \cup {Nil}]
  BY <1>1, ClockAssumption DEF ClockTypeOK
<1>7. Later(now, ms) \in Times /\ Later(now, ms) >= now
  BY <1>2, <1>6, LaterFacts
<1>8. \A h \in Goroutines :
        /\ status'[h] = IF h = g THEN "working" ELSE status[h]
        /\ workEnd'[h] = IF h = g THEN Later(now, ms) ELSE workEnd[h]
  BY <1>2, <1>5, <1>6
<1>9. Ahead(now)'
  BY <1>1, <1>2, <1>3, <1>7, <1>8 DEF Calendar, Ahead
<1>10. Calendar'
  BY <1>1, <1>2, <1>3, <1>5, <1>7, <1>8, <1>9, NilIsNoTime DEF Calendar
<1>11. Turns'
  BY <1>1, <1>2, <1>5, <1>8 DEF Turns, Ended
<1>12. workEnd' \in [Goroutines -> Times \cup {Nil}]
  BY <1>2, <1>6, <1>7
<1>13. TimeInv'
  BY <1>1, <1>2, <1>4, <1>10, <1>11, <1>12, GoingOn DEF ClockTypeOK
<1>14. Punctual
  BY <1>2, <1>3, <1>5, <1>6, <1>8, ClockAssumption DEF Punctual, Times
<1> QED BY <1>13, <1>14

LEMMA SleepKeepsTime ==
  ASSUME TimeInv, NEW g \in Goroutines, NEW ms \in Durations, Sleep(g, ms), phase # "over"
  PROVE  TimeInv' /\ Punctual
<1>1. CommInv /\ Calendar /\ Turns /\ ClockTypeOK
  BY DEF TimeInv, Going
<1>2. /\ Runs(g) /\ Fits(ms)
      /\ status' = [status EXCEPT ![g] = "sleeping"]
      /\ wake' = [wake EXCEPT ![g] = Later(now, ms)]
      /\ cur' = Nil /\ input' = Unit
      /\ UNCHANGED <<waitMu, ready, halted, errors, workEnd, fireAt, now, phase, outcome>>
      /\ UNCHANGED <<tokenVars, chanVars, waitVars, sourceVars>>
  BY DEF Sleep, runVars
<1>3. UNCHANGED <<timer, done>>
  BY <1>2 DEF sourceVars
<1>4. CommInv'
  BY <1>1, <1>2, GoesAway DEF Away
<1>5. status[g] = "running" /\ status \in [Goroutines -> Statuses] /\ halted = "no"
  BY <1>1, <1>2, Runner
<1>6. now \in Times /\ ms \in 0..Forever /\ wake \in [Goroutines -> Times \cup {Nil}]
  BY <1>1, ClockAssumption DEF ClockTypeOK
<1>7. Later(now, ms) \in Times /\ Later(now, ms) >= now
  BY <1>2, <1>6, LaterFacts
<1>8. \A h \in Goroutines :
        /\ status'[h] = IF h = g THEN "sleeping" ELSE status[h]
        /\ wake'[h] = IF h = g THEN Later(now, ms) ELSE wake[h]
  BY <1>2, <1>5, <1>6
<1>9. Ahead(now)'
  BY <1>1, <1>2, <1>3, <1>7, <1>8 DEF Calendar, Ahead
<1>10. Calendar'
  BY <1>1, <1>2, <1>3, <1>5, <1>7, <1>8, <1>9, NilIsNoTime DEF Calendar
<1>11. Turns'
  BY <1>1, <1>2, <1>5, <1>8 DEF Turns, Ended
<1>12. wake' \in [Goroutines -> Times \cup {Nil}]
  BY <1>2, <1>6, <1>7
<1>13. TimeInv'
  BY <1>1, <1>2, <1>4, <1>10, <1>11, <1>12, GoingOn DEF ClockTypeOK
<1>14. wake[g] = Nil
  BY <1>1, <1>5 DEF Calendar
<1>15. Punctual
  BY <1>2, <1>3, <1>5, <1>6, <1>7, <1>8, <1>14, NilIsNoTime, ClockAssumption DEF Punctual, Times
<1> QED BY <1>13, <1>15

LEMMA FlushKeepsTime ==
  ASSUME TimeInv, Flush, UNCHANGED <<chanVars, waitVars, sourceVars, clockVars>>
  PROVE  TimeInv' /\ Punctual
<1>1. phase = "flush" /\ Resume /\ halted = "no"
  BY DEF Flush, Resume, Idle
<1>2. CommInv /\ Calendar /\ Turns /\ ClockTypeOK
  BY <1>1 DEF TimeInv, Going
<1>3. CommInv' /\ status' = status
  BY <1>1, <1>2, ResumeKeeps, ResumeReady DEF CommStep, CommInv
<1>4. UNCHANGED <<now, phase, outcome, workEnd, wake, fireAt, timer, done, halted, errors>>
  BY <1>1 DEF clockVars, dueVars, runVars, sourceVars, Resume
<1>5. Course
  BY <1>1, <1>3, <1>4 DEF Course
<1>6. Calendar'
  BY <1>2, <1>4, <1>5, CalendarStays DEF Calendar, Ahead
<1>7. Turns'
  BY <1>1, <1>2, <1>4, <1>5, TurnsStay
<1>8. TimeInv'
  BY <1>1, <1>2, <1>3, <1>4, <1>6, <1>7, GoingOn DEF ClockTypeOK
<1>9. Punctual
  BY <1>2, <1>3, <1>4, ClockAssumption DEF Punctual, ClockTypeOK, Times
<1> QED BY <1>8, <1>9

LEMMA AdvanceKeepsTime ==
  ASSUME TimeInv, Advance
  PROVE  TimeInv' /\ Punctual
<1>1. /\ phase = "flush" /\ cur = Nil /\ halted = "no"
      /\ NextTime # Forever
      /\ ~ PastUntil
      /\ now' = NextTime
      /\ phase' = "fire"
      /\ UNCHANGED <<commVars, workEnd, wake, fireAt, outcome>>
  BY DEF Advance, Waits, Idle, dueVars
<1>2. CommInv /\ Calendar /\ Turns /\ ClockTypeOK
  BY <1>1 DEF TimeInv, Going
<1>3. UNCHANGED <<status, cur, halted, errors, timer, done>>
  BY <1>1 DEF commVars, schedVars, sourceVars
<1>4. CommInv'
  BY <1>1, <1>2, StepKeeps DEF CommStep
<1>5. NextTime \in Times /\ \A x \in DueTimes : NextTime <= x
  BY <1>1, <1>2, NextFacts
<1>6. \A x \in DueTimes : x >= now' /\ x \in Times
  BY <1>1, <1>2, <1>5, DueFacts, ClockAssumption DEF Times
<1>7. Ahead(now)'
  BY <1>1, <1>2, <1>3, <1>6, DueFacts DEF Ahead
<1>8. NextTime >= now
  <2>1. NextTime \in DueTimes
    BY <1>1, <1>2, NextFacts
  <2> QED BY <1>2, <2>1, DueFacts DEF Calendar, ClockTypeOK
<1>9. Until # Nil => now' <= Until
  <2>1. Until # Nil => Until \in Nat /\ NextTime \in Nat
    BY <1>5, ClockAssumption DEF Times
  <2> QED BY <1>1, <2>1 DEF PastUntil
<1>10. Calendar'
  BY <1>1, <1>2, <1>3, <1>7, <1>9 DEF Calendar
<1>11. Turns'
  BY <1>1, <1>2, <1>3 DEF Turns, Ended
<1>12. TimeInv'
  BY <1>1, <1>2, <1>4, <1>5, <1>10, <1>11, GoingOn DEF ClockTypeOK
<1>13. Punctual
  BY <1>1, <1>2, <1>3, <1>8 DEF Punctual, ClockTypeOK
<1> QED BY <1>12, <1>13

LEMMA FireDeadlineKeepsTime ==
  ASSUME TimeInv, NEW cx \in Contexts, FireDeadline(cx)
  PROVE  TimeInv' /\ Punctual
<1>1. /\ phase = "fire" /\ cx \in DueContexts /\ FireContext(cx)
      /\ UNCHANGED <<now, phase, outcome, workEnd, wake, fireAt>>
  BY DEF FireDeadline, FirstOf, clockVars, dueVars, runVars
<1>2. CommInv /\ Calendar /\ Turns /\ ClockTypeOK
  BY <1>1 DEF TimeInv, Going
<1>3. /\ CommInv' /\ Course /\ UNCHANGED timer
      /\ \A x \in Contexts : done'[x] = (done[x] \/ x = cx)
  BY <1>1, <1>2, FireContextKeeps, FireContextEffect DEF CommStep, Effect
<1>4. halted = "no" /\ halted' = "no" /\ cur' = Nil
  BY <1>1 DEF FireContext, Idle
<1>5. Deadline[cx] = now
  <2>1. ~ done[cx] /\ Deadline[cx] # Nil /\ Deadline[cx] <= now
    BY <1>1 DEF DueContexts
  <2>2. Deadline[cx] \in Nat /\ now \in Nat /\ Deadline[cx] >= now
    BY <1>2, <2>1, ClockAssumption DEF Calendar, Ahead, ClockTypeOK, Times
  <2> QED BY <2>1, <2>2
<1>6. \A x \in Contexts : done[x] => done'[x]
  BY <1>3
<1>7. Calendar'
  BY <1>1, <1>2, <1>3, <1>6, CalendarStays DEF Calendar, Ahead
<1>8. Turns'
  BY <1>1, <1>2, <1>3, <1>4, TurnsStay
<1>9. TimeInv'
  BY <1>1, <1>2, <1>3, <1>7, <1>8, GoingOn DEF ClockTypeOK
<1>10. \A x \in Contexts : ~ done[x] /\ done'[x] => now = Deadline[x]
  BY <1>3, <1>5
<1>11. \A g \in Goroutines : status[g] = "working" => status'[g] = "working"
  BY <1>3 DEF Course, Away
<1>12. now \in Nat
  BY <1>2, ClockAssumption DEF ClockTypeOK, Times
<1>13. Punctual
  BY <1>1, <1>3, <1>10, <1>11, <1>12 DEF Punctual
<1> QED BY <1>9, <1>13

LEMMA FireTickKeepsTime ==
  ASSUME TimeInv, NEW tm \in Timers, FireTick(tm)
  PROVE  TimeInv' /\ Punctual
<1>1. /\ phase = "fire" /\ tm \in DueTimers /\ FireTimer(tm)
      /\ fireAt' = [fireAt EXCEPT ![tm] = Nil]
      /\ UNCHANGED <<now, phase, outcome, workEnd, wake>>
  BY DEF FireTick, FirstOf, runVars
<1>2. CommInv /\ Calendar /\ Turns /\ ClockTypeOK
  BY <1>1 DEF TimeInv, Going
<1>3. CommInv' /\ Course /\ UNCHANGED done /\ timer' = [timer EXCEPT ![tm] = "fired"]
  BY <1>1, <1>2, FireTimerKeeps, FireTimerEffect DEF CommStep
<1>4. halted = "no" /\ halted' = "no" /\ cur' = Nil
  BY <1>1 DEF FireTimer, Idle
<1>5. /\ timer \in [Timers -> {"idle", "running", "fired", "stopped"}]
      /\ fireAt \in [Timers -> Times \cup {Nil}]
      /\ now \in Nat
  BY <1>2, ClockAssumption DEF ClockTypeOK, CommTypeOK, Times
<1>6. fireAt[tm] = now
  <2>1. fireAt[tm] # Nil /\ fireAt[tm] <= now
    BY <1>1 DEF DueTimers
  <2>2. fireAt[tm] \in Nat /\ fireAt[tm] >= now
    BY <1>2, <1>5, <2>1, ClockAssumption DEF Calendar, Ahead, Times
  <2> QED BY <1>5, <2>1, <2>2
<1>7. ASSUME NEW x \in Timers
      PROVE  /\ fireAt'[x] = IF x = tm THEN Nil ELSE fireAt[x]
             /\ timer'[x] = IF x = tm THEN "fired" ELSE timer[x]
  BY <1>1, <1>3, <1>5
<1>8. Calendar'
  BY <1>1, <1>2, <1>3, <1>7, CalendarStays DEF Calendar, Ahead
<1>9. Turns'
  BY <1>1, <1>2, <1>3, <1>4, TurnsStay
<1>10. fireAt' \in [Timers -> Times \cup {Nil}]
  BY <1>1, <1>5
<1>11. TimeInv'
  BY <1>1, <1>2, <1>3, <1>8, <1>9, <1>10, GoingOn DEF ClockTypeOK
<1>12. Punctual
  BY <1>1, <1>2, <1>3, <1>5, <1>6, <1>7 DEF Punctual, Course, Away
<1> QED BY <1>11, <1>12

\* The goroutines that are due work or sleep, and become ready.
LEMMA DueAreAway ==
  ASSUME ClockTypeOK, Calendar
  PROVE  \A g \in DueGoroutines :
           /\ g \in Goroutines
           /\ \/ status[g] = "working" /\ workEnd[g] = now
              \/ status[g] = "sleeping" /\ wake[g] = now
<1> SUFFICES ASSUME NEW g \in DueGoroutines
             PROVE  /\ g \in Goroutines
                    /\ \/ status[g] = "working" /\ workEnd[g] = now
                       \/ status[g] = "sleeping" /\ wake[g] = now
  OBVIOUS
<1>1. g \in Goroutines
  BY DEF DueGoroutines
<1>2. /\ now \in Nat
      /\ workEnd[g] # Nil => workEnd[g] \in Nat
      /\ wake[g] # Nil => wake[g] \in Nat
  BY <1>1, ClockAssumption DEF ClockTypeOK, Times
<1>3. CASE status[g] = "working" /\ workEnd[g] <= now
  BY <1>1, <1>2, <1>3 DEF Calendar, Ahead
<1>4. CASE wake[g] # Nil /\ wake[g] <= now
  BY <1>1, <1>2, <1>4 DEF Calendar, Ahead
<1> QED BY <1>3, <1>4 DEF DueGoroutines

LEMMA WakeDueKeepsTime ==
  ASSUME TimeInv, WakeDue
  PROVE  TimeInv' /\ Punctual
<1>1. /\ phase = "fire" /\ phase' = "flush"
      /\ status' = [g \in Goroutines |-> IF g \in DueGoroutines THEN "running" ELSE status[g]]
      /\ wake' = [g \in Goroutines |-> IF g \in DueGoroutines THEN Nil ELSE wake[g]]
      /\ UNCHANGED <<waitMu, cur, input, halted, errors, now, outcome, workEnd, fireAt>>
      /\ UNCHANGED <<tokenVars, chanVars, waitVars, sourceVars>>
  BY DEF WakeDue
<1>2. CommInv /\ Calendar /\ Turns /\ ClockTypeOK
  BY <1>1 DEF TimeInv, Going
<1>3. \A g \in DueGoroutines :
        /\ g \in Goroutines
        /\ \/ status[g] = "working" /\ workEnd[g] = now
           \/ status[g] = "sleeping" /\ wake[g] = now
  BY <1>2, DueAreAway
<1>4. PICK order \in Orders(DueGoroutines) :
        ready' = ready \o [k \in DOMAIN order |-> Entry(order[k], Unit)]
  BY DEF WakeDue
<1>5. halted = "no"
  BY <1>1, <1>2 DEF Turns
<1> DEFINE ws == [k \in DOMAIN order |-> Entry(order[k], Unit)]
<1>6. DueGoroutines \subseteq Goroutines /\ IsFiniteSet(DueGoroutines)
  BY <1>3, FS_Subset, SchedAssumption
<1>7. ws \in Seq(Entries) /\ Distinct(ws) /\ Names(ws) = DueGoroutines
  BY <1>6, OrderedEntries
<1>8. ready' = ready \o ws
  BY <1>4
<1> HIDE DEF ws
<1>9. Sched /\ Waiting /\ RunTypes
  BY <1>2 DEF CommInv, Sched
<1>10. Sched'
  <2>1. \A h \in Names(ws) : status[h] # "running"
    BY <1>3, <1>7
  <2>2. status' = [g \in Goroutines |-> IF g \in Names(ws) THEN "running" ELSE status[g]]
    BY <1>1, <1>7
  <2>3. waitMu' \in [Goroutines -> Mutexes \cup {Nil}] /\ input' \in Results
    BY <1>1, <1>9 DEF RunTypes
  <2> QED BY <1>1, <1>5, <1>7, <1>8, <1>9, <2>1, <2>2, <2>3, QueuesReady
<1>11. \A g \in Goroutines :
         /\ status'[g] = IF g \in DueGoroutines THEN "running" ELSE status[g]
         /\ wake'[g] = IF g \in DueGoroutines THEN Nil ELSE wake[g]
  BY <1>1
<1>12. Waiting'
  <2>1. UNCHANGED <<sendq, recvq, tickets, fired>>
    BY <1>1 DEF chanVars, waitVars
  <2>2. KeptAll /\ QueueTypes'
    BY <1>9, <2>1, StillKept
  <2>3. \A h \in Goroutines : status'[h] = "blocked" <=> status[h] = "blocked"
    BY <1>3, <1>11
  <2> QED BY <1>5, <1>9, <2>1, <2>2, <2>3, CalmStep
<1>13. CommInv'
  BY <1>1, <1>2, <1>10, <1>12 DEF CommInv, DataTypes, tokenVars, chanVars, sourceVars
<1>14. UNCHANGED <<timer, done>>
  BY <1>1 DEF sourceVars
<1>15. Ahead(now)'
  BY <1>1, <1>2, <1>11, <1>14 DEF Calendar, Ahead
<1>16. Calendar'
  BY <1>1, <1>2, <1>3, <1>11, <1>14, <1>15 DEF Calendar
<1>17. Turns'
  BY <1>1, <1>2, <1>5, <1>11 DEF Turns, Ended
<1>18. wake' \in [Goroutines -> Times \cup {Nil}]
  BY <1>1, <1>2 DEF ClockTypeOK
<1>19. TimeInv'
  BY <1>1, <1>2, <1>13, <1>16, <1>17, <1>18, GoingOn DEF ClockTypeOK
<1>20. \A g \in Goroutines :
         /\ wake[g] # Nil /\ wake'[g] = Nil => now = wake[g]
         /\ status[g] = "working" /\ status'[g] # "working" => now = workEnd[g]
  <2> SUFFICES ASSUME NEW g \in Goroutines
               PROVE  /\ wake[g] # Nil /\ wake'[g] = Nil => now = wake[g]
                      /\ status[g] = "working" /\ status'[g] # "working" => now = workEnd[g]
    OBVIOUS
  <2>1. CASE g \in DueGoroutines
    BY <1>2, <1>3, <2>1 DEF Calendar
  <2>2. CASE g \notin DueGoroutines
    BY <1>11, <2>2
  <2> QED BY <2>1, <2>2
<1>21. Punctual
  BY <1>1, <1>2, <1>14, <1>20, ClockAssumption DEF Punctual, ClockTypeOK, Times
<1> QED BY <1>19, <1>21

\* The verdict's goroutines: when nothing can run, the others are idle, done, in a
\* queue, or away.
LEMMA NobodyRuns ==
  ASSUME CommInv, Turns, Waits
  PROVE  \A g \in Goroutines : status[g] \in {"idle", "working", "sleeping", "blocked", "done"}
<1> SUFFICES ASSUME NEW g \in Goroutines
             PROVE  status[g] \in {"idle", "working", "sleeping", "blocked", "done"}
  OBVIOUS
<1>1. halted = "no" /\ cur = Nil /\ ready = <<>>
  BY DEF Waits, Idle
<1>2. status[g] # "running"
  <2>1. Names(ready) = {h \in Goroutines : status[h] = "running"} \ {Nil}
    BY <1>1 DEF CommInv, Sched, ReadyExact
  <2> QED BY <1>1, <2>1, EmptyEntries, NilIsNoGoroutine
<1>3. status[g] \in Statuses /\ status[g] \notin Ended
  BY <1>1 DEF CommInv, Sched, RunTypes, Turns
<1> QED BY <1>2, <1>3 DEF Statuses, Ended

\* A run that was stopped keeps its reason.
LEMMA StoppedIsConcluded ==
  ASSUME TimeInv, Conclude, halted # "no"
  PROVE  Concluded' /\ UNCHANGED <<now, status>> /\ outcome' \in Outcomes
<1>1. Turns /\ halted \in {"panic", "exit"}
  BY DEF Conclude, TimeInv, Going, CommInv, Sched, RunTypes
<1>2. Verdict = halted
  BY DEF Verdict
<1>3. UNCHANGED <<now, status, halted, errors>> /\ outcome' = halted
  BY <1>1, <1>2 DEF Conclude
<1>4. VerdictFits'
  BY <1>1, <1>3 DEF VerdictFits, Turns
<1>5. VerdictIsFinal'
  BY <1>1, <1>3 DEF VerdictIsFinal
<1> QED BY <1>1, <1>3, <1>4, <1>5 DEF Concluded, Outcomes

\* A run with nothing ahead is ok when nobody is left, and out of time when
\* somebody works or sleeps.
LEMMA TimeoutFits ==
  ASSUME ClockTypeOK, Calendar, Waits, Conclude, Verdict = "timeout",
         \A g \in Goroutines : status[g] # "running"
  PROVE  VerdictFits'
<1>1. /\ halted = "no"
      /\ NextTime = Forever \/ PastUntil
      /\ now' = IF Until # Nil /\ IF NextTime = Forever THEN EndlessWork ELSE TRUE
                THEN Until ELSE now
      /\ outcome' = "timeout" /\ UNCHANGED <<status, wake, workEnd>>
  BY DEF Conclude, Waits, Idle, dueVars
<1>2. Busy # {}
  BY <1>1 DEF Verdict
<1>3. PICK g \in Goroutines : Alive(g) /\ (status[g] = "working" \/ wake[g] # Nil)
  BY <1>2 DEF Busy, Unfinished
<1>4. CASE NextTime = Forever
  <2>1. DueTimes \subseteq Times /\ \A x \in DueTimes : Forever <= x
    BY <1>3, <1>4, DueFacts, NextFacts
  <2>2. \A x \in DueTimes : x = Forever
    BY <2>1, ClockAssumption DEF Times
  <2>3. status[g] = "working" => workEnd[g] = Forever
    BY <2>2, DueFacts
  <2>4. wake[g] # Nil => wake[g] = Forever
    BY <2>2, DueFacts
  <2> QED BY <1>1, <1>3, <2>3, <2>4 DEF VerdictFits, EndlessWork
<1>5. CASE NextTime # Forever
  <2>1. now' = Until
    BY <1>1, <1>5 DEF PastUntil
  <2> QED BY <1>1, <1>3, <2>1 DEF VerdictFits
<1> QED BY <1>4, <1>5

\* With nothing ahead, no timer and no deadline could wake anybody.
LEMMA NothingAheadIsFinal ==
  ASSUME ClockTypeOK, Calendar, NextTime = Forever, \E g \in Goroutines : Alive(g),
         UNCHANGED <<timer, fireAt, done>>
  PROVE  VerdictIsFinal'
<1>1. DueTimes \subseteq Times /\ \A x \in DueTimes : Forever <= x
  BY DueFacts, NextFacts
<1>2. \A x \in DueTimes : x = Forever
  BY <1>1, ClockAssumption DEF Times
<1>3. \A tm \in Timers : timer[tm] = "running" => fireAt[tm] = Forever
  BY <1>2, DueFacts DEF Calendar
<1>4. \A cx \in Contexts : ~ done[cx] => Deadline[cx] \in {Nil, Forever}
  BY <1>2, DueFacts
<1> QED BY <1>3, <1>4 DEF VerdictIsFinal, CouldWake

LEMMA WaitingIsConcluded ==
  ASSUME TimeInv, Conclude, Waits
  PROVE  /\ Concluded' /\ status' \in [Goroutines -> Statuses] /\ outcome' \in Outcomes
         /\ now' \in Times /\ now' >= now
         /\ \A g \in Goroutines : status[g] = "working" => status'[g] = "working"
<1>1. CommInv /\ Calendar /\ Turns /\ ClockTypeOK
  BY DEF Waits, TimeInv, Going
<1>2. /\ cur = Nil /\ halted = "no"
      /\ NextTime = Forever \/ PastUntil
      /\ now' \in {now, Until} /\ (now' = now \/ Until # Nil)
      /\ outcome' = Verdict
      /\ status' = IF Verdict = "leak" THEN [g \in Goroutines |-> IF Alive(g) THEN "leaked" ELSE status[g]]
                   ELSE IF Verdict = "deadlock"
                        THEN [g \in Goroutines |-> IF Alive(g) THEN "deadlocked" ELSE status[g]]
                        ELSE status
      /\ UNCHANGED <<cur, workEnd, wake, fireAt, timer, done>>
  BY DEF Conclude, Waits, Idle, dueVars, sourceVars
<1>3. \A g \in Goroutines : status[g] \in {"idle", "working", "sleeping", "blocked", "done"}
  BY <1>1, NobodyRuns
<1>4. Verdict \in {"ok", "timeout", "leak", "deadlock"}
  BY <1>2 DEF Verdict
<1>5. Verdict \in {"leak", "deadlock"} => Unfinished # {} /\ Busy = {}
  BY <1>2 DEF Verdict
<1>6. status \in [Goroutines -> Statuses]
  BY <1>1 DEF CommInv, Sched, RunTypes
<1>7. status' \in [Goroutines -> Statuses]
  BY <1>2, <1>6 DEF Statuses
<1>8. ASSUME NEW g \in Goroutines, status[g] = "working"
      PROVE  status'[g] = "working"
  <2>1. g \in Busy
    BY <1>8 DEF Busy, Unfinished, Alive
  <2> QED BY <1>2, <1>4, <1>5, <1>8, <2>1
<1>9. now' \in Times /\ now' >= now
  BY <1>1, <1>2, ClockAssumption DEF ClockTypeOK, Calendar, Times
<1>10. CASE Verdict = "ok"
  <2>1. Unfinished = {} /\ UNCHANGED status
    BY <1>2, <1>10 DEF Verdict
  <2>2. \A g \in Goroutines : status'[g] \in {"idle", "done"}
    BY <1>3, <2>1 DEF Unfinished, Alive
  <2> QED BY <1>2, <1>7, <1>8, <1>9, <1>10, <2>2
          DEF Concluded, VerdictFits, VerdictIsFinal, Outcomes
<1>11. CASE Verdict = "timeout"
  <2>1. VerdictFits'
    BY <1>1, <1>3, <1>11, TimeoutFits
  <2> QED BY <1>2, <1>7, <1>8, <1>9, <1>11, <2>1 DEF Concluded, VerdictIsFinal, Outcomes
<1>12. CASE Verdict \in {"leak", "deadlock"}
  <2>1. VerdictFits'
    BY <1>2, <1>12 DEF VerdictFits
  <2>2. Until = Nil => VerdictIsFinal'
    <3>1. \E g \in Goroutines : Alive(g)
      BY <1>5, <1>12 DEF Unfinished
    <3> QED BY <1>1, <1>2, <3>1, NothingAheadIsFinal DEF PastUntil
  <2> QED BY <1>2, <1>7, <1>8, <1>9, <1>12, <2>1, <2>2 DEF Concluded, Outcomes
<1> QED BY <1>4, <1>10, <1>11, <1>12

LEMMA ConcludeKeepsTime ==
  ASSUME TimeInv, Conclude
  PROVE  TimeInv' /\ Punctual
<1>1. ClockTypeOK /\ phase' = "over"
  BY DEF TimeInv, Conclude
<1>2. UNCHANGED <<waitMu, ready, cur, input, halted, errors, workEnd, wake, fireAt,
                  tokenVars, chanVars, waitVars, sourceVars>>
  BY DEF Conclude, dueVars
<1>3. /\ Concluded' /\ status' \in [Goroutines -> Statuses] /\ outcome' \in Outcomes
      /\ now' \in Times /\ now' >= now
      /\ \A g \in Goroutines : status[g] = "working" => status'[g] = "working"
  <2>1. CASE halted # "no"
    BY <1>1, <2>1, StoppedIsConcluded, ClockAssumption DEF ClockTypeOK, CommTypeOK, SchedTypeOK, Times
  <2>2. CASE halted = "no"
    BY <2>2, WaitingIsConcluded DEF Conclude
  <2> QED BY <2>1, <2>2
<1>4. CommTypeOK'
  BY <1>1, <1>2, <1>3
     DEF ClockTypeOK, CommTypeOK, SchedTypeOK, tokenVars, chanVars, waitVars, sourceVars
<1>5. ClockTypeOK'
  BY <1>1, <1>2, <1>3, <1>4 DEF ClockTypeOK
<1>6. TimeInv'
  BY <1>1, <1>3, <1>5 DEF TimeInv
<1>7. Punctual
  BY <1>2, <1>3 DEF Punctual, sourceVars
<1> QED BY <1>6, <1>7

\* A run that is over takes no step.
LEMMA OverIsOver ==
  ASSUME TimeInv, phase = "over"
  PROVE  ~ ClockNext
<1>1. \A g \in Goroutines : ~ Runs(g)
  BY NilIsNoGoroutine DEF TimeInv, Concluded, Runs
<1>2. \A g \in Goroutines : ~ Operation(g)
  BY <1>1, OperationRuns
<1>3. \A g \in Goroutines : ~ TimedOperation(g)
  BY <1>1, <1>2 DEF TimedOperation, Work, Sleep, SetTimer, TimerOp
<1> QED BY <1>3 DEF ClockNext, Loop, Flush, Advance, Waits, FireDeadline, FireTick, WakeDue, Conclude

LEMMA ClockStutters ==
  ASSUME TimeInv, UNCHANGED allClockVars
  PROVE  TimeInv'
<1>1. UNCHANGED <<commVars, now, phase, workEnd, wake, fireAt, outcome>>
  BY DEF allClockVars, clockVars, dueVars, runVars
<1>2. UNCHANGED <<status, cur, halted, errors, timer, done>>
  BY <1>1 DEF commVars, schedVars, sourceVars
<1>3. CASE phase # "over"
  <2>1. CommInv /\ Calendar /\ Turns /\ ClockTypeOK
    BY <1>3 DEF TimeInv, Going
  <2>2. CommInv'
    BY <1>1, <2>1, StepKeeps DEF CommStep
  <2>3. Calendar' /\ Turns'
    BY <1>1, <1>2, <2>1 DEF Calendar, Ahead, Turns, Ended
  <2> QED BY <1>1, <1>3, <2>1, <2>2, <2>3, GoingOn DEF ClockTypeOK
<1>4. CASE phase = "over"
  <2>1. Concluded'
    BY <1>1, <1>2, <1>4
       DEF TimeInv, Concluded, VerdictFits, EndlessWork, VerdictIsFinal, CouldWake
  <2>2. ClockTypeOK'
    BY <1>1, <1>4 DEF TimeInv, ClockTypeOK, CommTypeOK, SchedTypeOK,
                      commVars, schedVars, tokenVars, chanVars, waitVars, sourceVars
  <2> QED BY <1>1, <1>4, <2>1, <2>2 DEF TimeInv
<1> QED BY <1>3, <1>4

LEMMA NextKeepsTime == TimeInv /\ ClockNext => TimeInv' /\ Punctual
<1> SUFFICES ASSUME TimeInv, ClockNext
             PROVE  TimeInv' /\ Punctual
  OBVIOUS
<1>1. phase # "over"
  BY OverIsOver
<1>2. ASSUME NEW g \in Goroutines, TimedOperation(g)
      PROVE  TimeInv' /\ Punctual
  BY <1>1, <1>2, OperationKeepsTime, WorkKeepsTime, SleepKeepsTime, SetTimerKeepsTime
     DEF TimedOperation
<1>3. CASE Loop
  BY <1>3, FlushKeepsTime, AdvanceKeepsTime, FireDeadlineKeepsTime, FireTickKeepsTime,
     WakeDueKeepsTime, ConcludeKeepsTime DEF Loop
<1> QED BY <1>2, <1>3 DEF ClockNext

LEMMA InitKeepsTime == ClockInit => TimeInv
<1> SUFFICES ASSUME ClockInit
             PROVE  TimeInv
  OBVIOUS
<1>1. CommInv /\ CommTypeOK
  BY InitKeeps, CommTypesFollow DEF ClockInit
<1>2. /\ now = 0 /\ phase = "flush" /\ outcome = "none"
      /\ workEnd = [g \in Goroutines |-> Nil]
      /\ wake = [g \in Goroutines |-> Nil]
      /\ fireAt = [tm \in Timers |-> Nil]
  BY DEF ClockInit
<1>3. /\ halted = "no" /\ cur = Nil
      /\ \A g \in Goroutines : status[g] \in {"idle", "running"}
      /\ \A tm \in Timers : timer[tm] = "idle"
  BY DEF ClockInit, CommInit, SchedInit
<1>4. ClockTypeOK
  BY <1>1, <1>2, ClockAssumption DEF ClockTypeOK, Times, Outcomes
<1>5. Calendar
  BY <1>2, <1>3, ClockAssumption DEF Calendar, Ahead
<1>6. Turns
  BY <1>2, <1>3 DEF Turns, Ended
<1> QED BY <1>1, <1>2, <1>4, <1>5, <1>6 DEF TimeInv, Going

-----------------------------------------------------------------------------
(* The theorems.                                                           *)

\* At every step of a run the calendar of its times and its turns are right, and
\* once it is over its verdict is (Sim.run).
THEOREM ClockInvariant == ClockSpec => []TimeInv
<1>1. ClockInit => TimeInv
  BY InitKeepsTime
<1>2. TimeInv /\ [ClockNext]_allClockVars => TimeInv'
  BY NextKeepsTime, ClockStutters
<1> QED BY <1>1, <1>2, PTL DEF ClockSpec

\* Nothing is overdue while goroutines run, a goroutine that cannot go on has a
\* queue or a time that lets it go on, and never both, and the verdict is the one
\* of its goroutines (Sim.nextTime, fireDue, park, conclude).
THEOREM ClockIsRight == ClockSpec => []ClockInv
<1>1. TimeInv => ClockInv
  <2> SUFFICES ASSUME TimeInv
               PROVE  ClockInv
    OBVIOUS
  <2>1. ClockTypeOK
    BY DEF TimeInv
  <2>2. CASE phase = "over"
    BY <2>1, <2>2 DEF TimeInv, Concluded, ClockInv, NothingOverdue, ClockLosesNobody
  <2>3. CASE phase # "over"
    <3>1. CommInv /\ Calendar /\ Turns
      BY <2>3 DEF TimeInv, Going
    <3>2. now \in Times /\ \A x \in DueTimes : x >= now
      BY <2>1, <3>1, DueFacts DEF Calendar, ClockTypeOK
    <3>3. ASSUME NEW cx \in Contexts, Deadline[cx] # Nil, Deadline[cx] < now
          PROVE  done[cx]
      BY <3>1, <3>2, <3>3, ClockAssumption DEF Calendar, Ahead, Times
    <3>4. NothingOverdue
      BY <3>1, <3>2, <3>3 DEF NothingOverdue, Calendar
    <3>5. ASSUME halted = "no", NEW g \in Goroutines
          PROVE  /\ status[g] = "blocked" <=> \/ \E c \in Channels : Queued(sendq[c], g)
                                              \/ \E x \in Sources : Queued(recvq[x], g)
                 /\ status[g] = "sleeping" <=> wake[g] # Nil
      BY <3>1, <3>5, BlockedAreAwaited DEF NoLostWakeup, Calendar
    <3>6. ClockLosesNobody
      BY <3>5 DEF ClockLosesNobody, Parked
    <3>7. VerdictFits
      BY <3>1 DEF Turns, VerdictFits
    <3> QED BY <2>1, <3>4, <3>6, <3>7 DEF ClockInv
  <2> QED BY <2>2, <2>3
<1> QED BY <1>1, ClockInvariant, PTL

\* A sleeper and a worker go on, a timer fires and a context ends by itself at the
\* time that was set when it began, and the clock never goes back (Sim.work, sleep,
\* timer, fireDue).
THEOREM EverythingIsOnTime == ClockSpec => OnTime
<1>1. TimeInv /\ [ClockNext]_allClockVars => [Punctual]_allClockVars
  BY NextKeepsTime
<1> QED BY <1>1, ClockInvariant, PTL DEF ClockSpec, OnTime

\* Without an until, a deadlock and a leak are for good: no timer that runs and no
\* deadline could still wake anybody (Sim.conclude).
THEOREM VerdictsAreFinal ==
  ASSUME Until = Nil
  PROVE  ClockSpec => []VerdictIsFinal
<1>1. TimeInv => VerdictIsFinal
  BY DEF TimeInv, Going, Turns, Concluded, VerdictIsFinal
<1> QED BY <1>1, ClockInvariant, PTL
=============================================================================
