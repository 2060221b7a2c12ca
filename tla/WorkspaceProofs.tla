-------------------------- MODULE WorkspaceProofs ---------------------------
(***************************************************************************)
(* Proofs about who works in a workspace, and at what: the leases, the     *)
(* registries, the live status and the index of open tasks.                *)
(***************************************************************************)
EXTENDS WorkspaceLease, WorkspaceStore, AgentStatus, BotTasks, PositionsProofs, TLAPS

-----------------------------------------------------------------------------
(***************************************************************************)
(* The safety of the workspace leases, for any finite set of requests and  *)
(* any bots: a bot is leased to one turn at a time, the counted wait-for   *)
(* edges are exactly the queued requests, and turns never wait for one     *)
(* another in a circle.                                                    *)
(*                                                                         *)
(* LeaseInv is inductive: the types, the three invariants above it, and    *)
(*   - Enqueued: a queued request has a place in the queue of its bot;     *)
(*   - Nested: a request that is awaited is one of a turn that has begun,  *)
(*     and acts under the owner of that turn.                              *)
(* That no circle ever closes is then an argument about one step only: the *)
(* request that is put in a queue.                                         *)
(***************************************************************************)
Queued(o, b) == {t \in Tasks : state[t] = "queued" /\ token[t] = o /\ bot[t] = b}

Enqueued ==
  \A t \in Tasks : state[t] = "queued" =>
    \E i \in DOMAIN waiters[bot[t]] : waiters[bot[t]][i] = t

Nested ==
  \A c \in Tasks : attached[c] =>
    /\ parent[c] \in Tasks
    /\ state[parent[c]] \notin {"new", "queued"}
    /\ token[c] = token[parent[c]]

TypeInv == TypeOK /\ Enqueued
CoreInv == TypeInv /\ OneTurnPerBot /\ OwnerIsHolder /\ EdgesAreWaiters
LeaseInv == CoreInv /\ Nested

-----------------------------------------------------------------------------
(* Queues                                                                  *)

\* Taking a place out of a queue leaves a queue, and everybody else in it.
LEMMA RemoveAtProperties ==
  ASSUME NEW S, NEW s \in Seq(S), NEW i \in DOMAIN s
  PROVE  /\ RemoveAt(s, i) \in Seq(S)
         /\ \A j \in DOMAIN s : j # i =>
              \E k \in DOMAIN RemoveAt(s, i) : RemoveAt(s, i)[k] = s[j]
<1>1. i \in 1 .. Len(s) /\ Len(s) \in Nat
  OBVIOUS
<1>2. /\ SubSeq(s, 1, i - 1) \in Seq(S) /\ Len(SubSeq(s, 1, i - 1)) = i - 1
      /\ \A k \in 1 .. i - 1 : SubSeq(s, 1, i - 1)[k] = s[k]
  BY <1>1, SubSeqProperties
<1>3. /\ SubSeq(s, i + 1, Len(s)) \in Seq(S)
      /\ Len(SubSeq(s, i + 1, Len(s))) = Len(s) - i
      /\ \A k \in 1 .. Len(s) - i : SubSeq(s, i + 1, Len(s))[k] = s[i + k]
  BY <1>1, SubSeqProperties
<1> DEFINE front == SubSeq(s, 1, i - 1)
           back == SubSeq(s, i + 1, Len(s))
           rest == front \o back
<1>4. /\ rest \in Seq(S)
      /\ Len(rest) = Len(s) - 1
      /\ \A k \in 1 .. Len(s) - 1 : rest[k] = IF k <= i - 1 THEN s[k] ELSE s[k + 1]
  <2>1. /\ front \in Seq(S) /\ Len(front) = i - 1
        /\ \A k \in 1 .. i - 1 : front[k] = s[k]
    BY <1>2
  <2>2. /\ back \in Seq(S) /\ Len(back) = Len(s) - i
        /\ \A k \in 1 .. Len(s) - i : back[k] = s[i + k]
    BY <1>3
  <2> HIDE DEF front, back
  <2>3. /\ rest \in Seq(S)
        /\ Len(rest) = Len(front) + Len(back)
        /\ \A k \in 1 .. Len(front) + Len(back) :
             rest[k] = IF k <= Len(front) THEN front[k] ELSE back[k - Len(front)]
    BY <2>1, <2>2, ConcatProperties
  <2> HIDE DEF rest
  <2>4. ASSUME NEW k \in 1 .. Len(s) - 1
        PROVE  rest[k] = IF k <= i - 1 THEN s[k] ELSE s[k + 1]
    <3>1. CASE k <= i - 1
      BY SMTT(30), <3>1, <2>1, <2>2, <2>3, <2>4, <1>1
    <3>2. CASE ~(k <= i - 1)
      <4>1. k - (i - 1) \in 1 .. Len(s) - i /\ i + (k - (i - 1)) = k + 1
        BY <3>2, <2>4, <1>1
      <4>2. /\ Len(front) = i - 1 /\ ~(k <= Len(front))
            /\ k \in 1 .. Len(front) + Len(back)
        BY <3>2, <2>1, <2>2, <2>4, <1>1
      <4>3. rest[k] = back[k - Len(front)]
        BY <4>2, <2>3
      <4> QED
        BY <4>1, <4>2, <4>3, <2>2, <3>2
    <3> QED
      BY <3>1, <3>2
  <2> QED
    BY <2>1, <2>2, <2>3, <2>4, <1>1
<1>5. RemoveAt(s, i) = rest
  BY DEF RemoveAt
<1> HIDE DEF front, back, rest
<1>6. ASSUME NEW j \in DOMAIN s, j # i
      PROVE  \E k \in DOMAIN rest : rest[k] = s[j]
  <2>0. DOMAIN rest = 1 .. Len(s) - 1 /\ j \in 1 .. Len(s)
    BY <1>4, <1>1
  <2>1. CASE j < i
    <3>1. j \in DOMAIN rest /\ rest[j] = s[j]
      BY <2>0, <2>1, <1>1, <1>4
    <3> QED
      BY <3>1
  <2>2. CASE j > i
    <3>1. j - 1 \in 1 .. Len(s) - 1 /\ ~(j - 1 <= i - 1) /\ (j - 1) + 1 = j
      BY <2>0, <2>2, <1>1
    <3>2. rest[j - 1] = s[j]
      BY <3>1, <1>4
    <3> QED
      BY <3>1, <3>2, <2>0
  <2> QED
    BY <2>0, <2>1, <2>2, <1>1, <1>6
<1> QED
  BY <1>4, <1>5, <1>6

\* The head of a queue wakes: a queue is left, with everybody else in it.
LEMMA TailKeepsOthers ==
  ASSUME NEW S, NEW s \in Seq(S), s # << >>
  PROVE  /\ Tail(s) \in Seq(S)
         /\ \A j \in DOMAIN s : s[j] # Head(s) =>
              \E k \in DOMAIN Tail(s) : Tail(s)[k] = s[j]
<1> DEFINE rest == Tail(s)
<1>1. /\ rest \in Seq(S) /\ Len(rest) = Len(s) - 1
      /\ \A k \in 1 .. Len(rest) : rest[k] = s[k + 1]
  BY HeadTailProperties
<1>2. Head(s) = s[1]
  OBVIOUS
<1> HIDE DEF rest
<1>3. ASSUME NEW j \in DOMAIN s, s[j] # s[1]
      PROVE  \E k \in DOMAIN rest : rest[k] = s[j]
  <2>1. j \in 1 .. Len(s) /\ j # 1 /\ Len(s) \in Nat
    BY <1>3
  <2>2. j - 1 \in 1 .. Len(rest) /\ (j - 1) + 1 = j
    BY <2>1, <1>1
  <2>3. rest[j - 1] = s[j] /\ DOMAIN rest = 1 .. Len(rest)
    BY <2>2, <1>1
  <2> QED
    BY <2>2, <2>3
<1> QED
  BY <1>1, <1>2, <1>3 DEF rest

\* Joining a queue: a queue, with everybody in it and the newcomer.
LEMMA AppendKeepsOthers ==
  ASSUME NEW S, NEW s \in Seq(S), NEW e \in S
  PROVE  /\ Append(s, e) \in Seq(S)
         /\ \A j \in DOMAIN s : \E k \in DOMAIN Append(s, e) : Append(s, e)[k] = s[j]
         /\ \E k \in DOMAIN Append(s, e) : Append(s, e)[k] = e
<1> DEFINE longer == Append(s, e)
<1>1. /\ longer \in Seq(S) /\ Len(longer) = Len(s) + 1
      /\ \A j \in 1 .. Len(s) : longer[j] = s[j]
      /\ longer[Len(s) + 1] = e
  BY AppendProperties
<1> HIDE DEF longer
<1>2. DOMAIN longer = 1 .. Len(s) + 1 /\ DOMAIN s = 1 .. Len(s) /\ Len(s) \in Nat
  BY <1>1
<1>3. Len(s) + 1 \in DOMAIN longer /\ \A j \in DOMAIN s : j \in DOMAIN longer
  BY <1>2
<1> QED
  BY <1>1, <1>2, <1>3 DEF longer

-----------------------------------------------------------------------------
(* Edges                                                                   *)

\* The queued requests of an owner for a bot are finitely many.
LEMMA QueuedFinite ==
  ASSUME NEW o, NEW b
  PROVE  IsFiniteSet(Queued(o, b)) /\ Cardinality(Queued(o, b)) \in Nat
<1>1. Queued(o, b) \subseteq Tasks
  BY DEF Queued
<1> QED
  BY <1>1, TasksAreFinite, FS_Subset, FS_CardinalityType

\* The counted edges, with the sets of requests they count.
LEMMA EdgesCountQueued ==
  EdgesAreWaiters <=>
    \A o \in Tasks : \A b \in Bots : waiting[o][b] = Cardinality(Queued(o, b))
  BY DEF EdgesAreWaiters, Queued

\* A queued request has an edge.
LEMMA QueuedHasEdge ==
  ASSUME TypeInv, EdgesAreWaiters, NEW t \in Tasks, state[t] = "queued"
  PROVE  waiting[token[t]][bot[t]] \in Nat \ {0}
<1>1. t \in Queued(token[t], bot[t])
  BY DEF Queued
<1>2. token[t] \in Tasks /\ bot[t] \in Bots
  BY DEF TypeInv, TypeOK
<1>3. Cardinality(Queued(token[t], bot[t])) # 0
  BY <1>1, QueuedFinite, FS_EmptySet
<1> QED
  BY <1>2, <1>3, QueuedFinite, EdgesCountQueued

\* A step that leaves the queued requests and the edges alone.
LEMMA EdgesUnchanged ==
  ASSUME EdgesAreWaiters, waiting' = waiting,
         \A o \in Tasks : \A b \in Bots : Queued(o, b)' = Queued(o, b)
  PROVE  EdgesAreWaiters'
  BY DEF EdgesAreWaiters, Queued

\* A request of o is queued for b, with an edge.
LEMMA EdgeAdded ==
  ASSUME TypeInv, EdgesAreWaiters, NEW o \in Tasks, NEW b \in Bots, NEW t,
         t \notin Queued(o, b), waiting' = WithEdge(o, b),
         \A x \in Tasks : \A c \in Bots :
           Queued(x, c)' = IF x = o /\ c = b THEN Queued(x, c) \cup {t} ELSE Queued(x, c)
  PROVE  EdgesAreWaiters' /\ waiting' \in [Tasks -> [Bots -> Nat]]
<1>1. waiting' \in [Tasks -> [Bots -> Nat]]
  BY DEF TypeInv, TypeOK, WithEdge
<1>2. ASSUME NEW x \in Tasks, NEW c \in Bots
      PROVE  waiting'[x][c] = Cardinality(Queued(x, c)')
  <2>1. waiting[x][c] = Cardinality(Queued(x, c))
    BY EdgesCountQueued
  <2>2. CASE x = o /\ c = b
    <3>1. waiting'[x][c] = waiting[x][c] + 1
      BY <2>2 DEF TypeInv, TypeOK, WithEdge
    <3>2. Cardinality(Queued(x, c) \cup {t}) = Cardinality(Queued(x, c)) + 1
      BY <2>2, QueuedFinite, FS_AddElement
    <3> QED
      BY <2>1, <2>2, <3>1, <3>2
  <2>3. CASE ~(x = o /\ c = b)
    <3>1. waiting'[x][c] = waiting[x][c]
      BY <2>3 DEF TypeInv, TypeOK, WithEdge
    <3>2. Queued(x, c)' = Queued(x, c)
      BY <2>3
    <3> QED
      BY <2>1, <3>1, <3>2
  <2> QED
    BY <2>2, <2>3
<1> QED
  BY <1>1, <1>2 DEF EdgesAreWaiters, Queued

\* A queued request of o for b leaves the queue, and its edge goes.
LEMMA EdgeRemoved ==
  ASSUME TypeInv, EdgesAreWaiters, NEW t \in Tasks, state[t] = "queued",
         waiting' = WithoutEdge(token[t], bot[t]),
         \A x \in Tasks : \A c \in Bots : Queued(x, c)' = Queued(x, c) \ {t}
  PROVE  EdgesAreWaiters' /\ waiting' \in [Tasks -> [Bots -> Nat]]
<1> DEFINE o == token[t]
           b == bot[t]
<1>1. o \in Tasks /\ b \in Bots /\ waiting[o][b] \in Nat \ {0}
  BY QueuedHasEdge DEF TypeInv, TypeOK
<1>2. waiting' \in [Tasks -> [Bots -> Nat]]
  BY <1>1 DEF TypeInv, TypeOK, WithoutEdge
<1>3. ASSUME NEW x \in Tasks, NEW c \in Bots
      PROVE  waiting'[x][c] = Cardinality(Queued(x, c)')
  <2>1. waiting[x][c] = Cardinality(Queued(x, c))
    BY EdgesCountQueued
  <2>2. CASE x = o /\ c = b
    <3>1. waiting'[x][c] = waiting[x][c] - 1
      BY <2>2, <1>1 DEF TypeInv, TypeOK, WithoutEdge
    <3>2. t \in Queued(x, c)
      BY <2>2 DEF Queued
    <3>3. Cardinality(Queued(x, c) \ {t}) = Cardinality(Queued(x, c)) - 1
      BY <3>2, QueuedFinite, FS_RemoveElement
    <3> QED
      BY <2>1, <3>1, <3>3
  <2>3. CASE ~(x = o /\ c = b)
    <3>1. waiting'[x][c] = waiting[x][c]
      BY <2>3, <1>1 DEF TypeInv, TypeOK, WithoutEdge
    <3>2. t \notin Queued(x, c)
      BY <2>3 DEF Queued
    <3> QED
      BY <2>1, <3>1, <3>2
  <2> QED
    BY <2>2, <2>3
<1> QED
  BY <1>2, <1>3 DEF EdgesAreWaiters, Queued

-----------------------------------------------------------------------------
(* One lemma per action: it keeps CoreInv                                  *)

\* A request on behalf of o, refused, granted or queued.
LEMMA AcquireKeepsCore ==
  ASSUME CoreInv, NEW t \in Tasks, NEW o \in Tasks, state[t] = "new",
         Acquire(t, bot[t], o), token' = [token EXCEPT ![t] = o], bot' = bot,
         parent' \in [Tasks -> Tasks \cup {NoTask}], attached' \in [Tasks -> BOOLEAN]
  PROVE  CoreInv'
<1> DEFINE b == bot[t]
<1> USE DEF CoreInv
<1>1. b \in Bots /\ token' \in [Tasks -> Tasks] /\ bot' \in [Tasks -> Bots]
  BY DEF TypeInv, TypeOK
<1>2. \A x, c : t \notin Queued(x, c)
  BY DEF Queued
<1>3. CASE /\ state' = [state EXCEPT ![t] = "done"]
           /\ UNCHANGED <<locked, waiters, owner, waiting>>
  <2>1. TypeInv'
    BY <1>1, <1>3 DEF TypeInv, TypeOK, Enqueued
  <2>2. \A c \in Bots : Holders(c)' = Holders(c)
    BY <1>3 DEF TypeInv, TypeOK, Holders
  <2>3. OneTurnPerBot' /\ OwnerIsHolder'
    BY <2>2, <1>3 DEF OneTurnPerBot, OwnerIsHolder, Holders, TypeInv, TypeOK
  <2>4. \A x \in Tasks : \A c \in Bots : Queued(x, c)' = Queued(x, c)
    BY <1>3 DEF Queued, TypeInv, TypeOK
  <2> QED
    BY <2>1, <2>3, <2>4, <1>3, EdgesUnchanged
<1>4. CASE Free(b) /\ Take(t, b, o) /\ UNCHANGED <<waiters, waiting>>
  <2>1. TypeInv'
    BY <1>1, <1>4 DEF TypeInv, TypeOK, Enqueued, Take
  <2>2. Holders(b) = {}
    BY <1>1, <1>4 DEF OwnerIsHolder, Free, TypeInv, TypeOK
  <2>3. Holders(b)' = {t} /\ \A c \in Bots \ {b} : Holders(c)' = Holders(c)
    BY <2>2, <1>1, <1>4 DEF TypeInv, TypeOK, Holders, Take
  <2>4. OneTurnPerBot'
    BY <2>3 DEF OneTurnPerBot
  <2>5. OwnerIsHolder'
    <3>1. locked'[b] = TRUE /\ owner'[b] = o /\ token'[t] = o
      BY <1>1, <1>4 DEF TypeInv, TypeOK, Take
    <3>2. \A c \in Bots \ {b} : locked'[c] = locked[c] /\ owner'[c] = owner[c]
      BY <1>4 DEF TypeInv, TypeOK, Take
    <3>3. \A c \in Bots \ {b} : \A u \in Holders(c) : token'[u] = token[u]
      BY DEF Holders, TypeInv, TypeOK
    <3> QED
      BY <2>3, <3>1, <3>2, <3>3 DEF OwnerIsHolder
  <2>6. \A x \in Tasks : \A c \in Bots : Queued(x, c)' = Queued(x, c)
    BY <1>4 DEF Queued, TypeInv, TypeOK, Take
  <2> QED
    BY <2>1, <2>4, <2>5, <2>6, <1>4, EdgesUnchanged
<1>5. CASE /\ state' = [state EXCEPT ![t] = "queued"]
           /\ waiters' = [waiters EXCEPT ![b] = Append(@, t)]
           /\ waiting' = WithEdge(o, b)
           /\ UNCHANGED <<locked, owner>>
  <2>1. \A x \in Tasks : \A c \in Bots :
          Queued(x, c)' = IF x = o /\ c = b THEN Queued(x, c) \cup {t} ELSE Queued(x, c)
    <3> SUFFICES ASSUME NEW x \in Tasks, NEW c \in Bots
                 PROVE  Queued(x, c)' = IF x = o /\ c = b THEN Queued(x, c) \cup {t}
                                                        ELSE Queued(x, c)
      OBVIOUS
    <3>1. \A u \in Tasks \ {t} : u \in Queued(x, c)' <=> u \in Queued(x, c)
      BY <1>5 DEF Queued, TypeInv, TypeOK
    <3>2. t \in Queued(x, c)' <=> x = o /\ c = b
      BY <1>5 DEF Queued, TypeInv, TypeOK
    <3>3. Queued(x, c) \subseteq Tasks /\ Queued(x, c)' \subseteq Tasks
      BY DEF Queued
    <3> QED
      BY <3>1, <3>2, <3>3, <1>2
  <2>2. EdgesAreWaiters' /\ waiting' \in [Tasks -> [Bots -> Nat]]
    <3>1. TypeInv /\ EdgesAreWaiters /\ t \notin Queued(o, b) /\ waiting' = WithEdge(o, b)
      BY <1>2, <1>5
    <3> HIDE DEF CoreInv, b
    <3> QED
      BY <2>1, <3>1, <1>1, EdgeAdded
  <2>3. waiters[b] \in Seq(Tasks)
    BY <1>1 DEF TypeInv, TypeOK
  <2>4. waiters' \in [Bots -> Seq(Tasks)]
    BY <2>3, <1>1, <1>5, AppendKeepsOthers DEF TypeInv, TypeOK
  <2>5. TypeOK'
    BY <2>2, <2>4, <1>1, <1>5 DEF TypeInv, TypeOK
  <2>6. Enqueued'
    <3> SUFFICES ASSUME NEW u \in Tasks, state'[u] = "queued"
                 PROVE  \E i \in DOMAIN waiters'[bot[u]] : waiters'[bot[u]][i] = u
      BY <1>1 DEF Enqueued
    <3>1. waiters'[b] = Append(waiters[b], t)
      BY <1>1, <1>5 DEF TypeInv, TypeOK
    <3>0. /\ \E i \in DOMAIN waiters'[b] : waiters'[b][i] = t
          /\ \A i \in DOMAIN waiters[b] :
               \E k \in DOMAIN waiters'[b] : waiters'[b][k] = waiters[b][i]
      <4> DEFINE queue == waiters[b]
      <4>1. queue \in Seq(Tasks) /\ waiters'[b] = Append(queue, t)
        BY <2>3, <3>1
      <4> HIDE DEF queue
      <4>2. /\ \E i \in DOMAIN Append(queue, t) : Append(queue, t)[i] = t
            /\ \A i \in DOMAIN queue :
                 \E k \in DOMAIN Append(queue, t) : Append(queue, t)[k] = queue[i]
        BY SMTT(30), <4>1, AppendKeepsOthers
      <4> QED
        BY <4>1, <4>2, Zenon DEF queue
    <3>2. CASE u = t
      BY <3>0, <3>2
    <3>3. CASE u # t
      <4>1. PICK i \in DOMAIN waiters[bot[u]] : waiters[bot[u]][i] = u
        BY <3>3, <1>5 DEF TypeInv, TypeOK, Enqueued
      <4>2. CASE bot[u] = b
        BY <4>1, <4>2, <3>0
      <4>3. CASE bot[u] # b
        BY <4>1, <4>3, <1>1, <1>5 DEF TypeInv, TypeOK
      <4> QED
        BY <4>2, <4>3
    <3> QED
      BY <3>2, <3>3
  <2>7. \A c \in Bots : Holders(c)' = Holders(c)
    BY <1>5 DEF TypeInv, TypeOK, Holders
  <2>8. OneTurnPerBot' /\ OwnerIsHolder'
    BY <2>7, <1>5 DEF OneTurnPerBot, OwnerIsHolder, Holders, TypeInv, TypeOK
  <2> QED
    BY <2>2, <2>5, <2>6, <2>8 DEF TypeInv
<1> QED
  BY <1>3, <1>4, <1>5 DEF Acquire

\* The head of the queue becomes the holder.
LEMMA WakeKeepsCore ==
  ASSUME CoreInv, NEW t \in Tasks, Wake(t)
  PROVE  CoreInv'
<1> DEFINE b == bot[t]
           queue == waiters[b]
<1>1. /\ b \in Bots /\ token[t] \in Tasks /\ queue \in Seq(Tasks)
      /\ UNCHANGED <<bot, parent, token, attached>>
  BY DEF CoreInv, TypeInv, TypeOK, Wake
<1>2. /\ state[t] = "queued" /\ ~locked[b] /\ Head(queue) = t
      /\ state' = [state EXCEPT ![t] = "holding"]
      /\ locked' = [locked EXCEPT ![b] = TRUE]
      /\ owner' = [owner EXCEPT ![b] = token[t]]
      /\ waiters' = [waiters EXCEPT ![b] = Tail(queue)]
      /\ waiting' = WithoutEdge(token[t], b)
  BY DEF Wake, Take
<1>3. queue # << >>
  BY <1>1, <1>2 DEF CoreInv, TypeInv, Enqueued
<1>4. /\ Tail(queue) \in Seq(Tasks)
      /\ \A j \in DOMAIN queue : queue[j] # t =>
           \E k \in DOMAIN Tail(queue) : Tail(queue)[k] = queue[j]
  BY <1>1, <1>2, <1>3, TailKeepsOthers
<1>5. EdgesAreWaiters' /\ waiting' \in [Tasks -> [Bots -> Nat]]
  <2>1. \A x \in Tasks : \A c \in Bots : Queued(x, c)' = Queued(x, c) \ {t}
    BY <1>1, <1>2 DEF Queued, CoreInv, TypeInv, TypeOK
  <2> QED
    BY <1>2, <2>1, EdgeRemoved DEF CoreInv
<1>6. TypeOK'
  BY <1>1, <1>2, <1>4, <1>5 DEF CoreInv, TypeInv, TypeOK
<1>7. Enqueued'
  <2> SUFFICES ASSUME NEW u \in Tasks, state'[u] = "queued"
               PROVE  \E i \in DOMAIN waiters'[bot[u]] : waiters'[bot[u]][i] = u
    BY <1>1 DEF Enqueued
  <2>1. u # t /\ state[u] = "queued"
    BY <1>2 DEF CoreInv, TypeInv, TypeOK
  <2>2. PICK i \in DOMAIN waiters[bot[u]] : waiters[bot[u]][i] = u
    BY <2>1 DEF CoreInv, TypeInv, Enqueued
  <2>3. CASE bot[u] = b
    <3>1. waiters'[b] = Tail(queue)
      BY <1>1, <1>2 DEF CoreInv, TypeInv, TypeOK
    <3>2. i \in DOMAIN queue /\ queue[i] = u
      BY <2>2, <2>3
    <3>3. \E k \in DOMAIN Tail(queue) : Tail(queue)[k] = u
      BY <1>4, <2>1, <3>2
    <3> QED
      BY <2>3, <3>1, <3>3, Zenon
  <2>4. CASE bot[u] # b
    <3>1. waiters'[bot[u]] = waiters[bot[u]]
      BY <1>1, <1>2, <2>4 DEF CoreInv, TypeInv, TypeOK
    <3> QED
      BY <2>2, <3>1
  <2> QED
    BY <2>3, <2>4
<1>8. Holders(b) = {}
  BY <1>1, <1>2 DEF CoreInv, OwnerIsHolder
<1>9. Holders(b)' = {t} /\ \A c \in Bots \ {b} : Holders(c)' = Holders(c)
  BY <1>8, <1>1, <1>2 DEF CoreInv, TypeInv, TypeOK, Holders
<1>10. OneTurnPerBot'
  <2> SUFFICES ASSUME NEW u \in Tasks, NEW v \in Tasks, NEW c \in Bots,
                      u \in Holders(c)', v \in Holders(c)'
               PROVE  u = v
    BY DEF OneTurnPerBot
  <2>1. CASE c = b
    BY <2>1, <1>9, <1>1 DEF Holders
  <2>2. CASE c # b
    BY <2>2, <1>9 DEF CoreInv, OneTurnPerBot
  <2> QED
    BY <2>1, <2>2
<1>11. OwnerIsHolder'
  <2>1. locked'[b] = TRUE /\ owner'[b] = token[t]
    BY <1>1, <1>2 DEF CoreInv, TypeInv, TypeOK
  <2>2. \A c \in Bots \ {b} : locked'[c] = locked[c] /\ owner'[c] = owner[c]
    BY <1>1, <1>2 DEF CoreInv, TypeInv, TypeOK
  <2> QED
    BY <1>1, <1>9, <2>1, <2>2 DEF OwnerIsHolder, CoreInv
<1> QED
  BY <1>5, <1>6, <1>7, <1>10, <1>11 DEF CoreInv, TypeInv

\* A queued request is cancelled.
LEMMA CancelQueuedKeepsCore ==
  ASSUME CoreInv, NEW t \in Tasks, CancelQueued(t)
  PROVE  CoreInv'
<1> DEFINE b == bot[t]
           queue == waiters[b]
<1>1. /\ b \in Bots /\ token[t] \in Tasks /\ queue \in Seq(Tasks)
      /\ UNCHANGED <<bot, parent, token, attached, locked, owner>>
  BY DEF CoreInv, TypeInv, TypeOK, CancelQueued
<1>2. /\ state[t] = "queued"
      /\ state' = [state EXCEPT ![t] = "done"]
      /\ waiting' = WithoutEdge(token[t], b)
  BY DEF CancelQueued
<1>3. PICK i \in DOMAIN queue :
        queue[i] = t /\ waiters' = [waiters EXCEPT ![b] = RemoveAt(queue, i)]
  BY DEF CancelQueued
<1>4. /\ RemoveAt(queue, i) \in Seq(Tasks)
      /\ \A j \in DOMAIN queue : queue[j] # t =>
           \E k \in DOMAIN RemoveAt(queue, i) : RemoveAt(queue, i)[k] = queue[j]
  BY <1>1, <1>3, RemoveAtProperties
<1>5. EdgesAreWaiters' /\ waiting' \in [Tasks -> [Bots -> Nat]]
  <2>1. \A x \in Tasks : \A c \in Bots : Queued(x, c)' = Queued(x, c) \ {t}
    BY <1>1, <1>2 DEF Queued, CoreInv, TypeInv, TypeOK
  <2> QED
    BY <1>2, <2>1, EdgeRemoved DEF CoreInv
<1>6. TypeOK'
  BY <1>1, <1>2, <1>3, <1>4, <1>5 DEF CoreInv, TypeInv, TypeOK
<1>7. Enqueued'
  <2> SUFFICES ASSUME NEW u \in Tasks, state'[u] = "queued"
               PROVE  \E k \in DOMAIN waiters'[bot[u]] : waiters'[bot[u]][k] = u
    BY <1>1 DEF Enqueued
  <2>1. u # t /\ state[u] = "queued"
    BY <1>2 DEF CoreInv, TypeInv, TypeOK
  <2>2. PICK j \in DOMAIN waiters[bot[u]] : waiters[bot[u]][j] = u
    BY <2>1 DEF CoreInv, TypeInv, Enqueued
  <2>3. CASE bot[u] = b
    <3>1. waiters'[b] = RemoveAt(queue, i)
      BY <1>1, <1>3 DEF CoreInv, TypeInv, TypeOK
    <3>2. j \in DOMAIN queue /\ queue[j] = u
      BY <2>2, <2>3
    <3>3. \E k \in DOMAIN RemoveAt(queue, i) : RemoveAt(queue, i)[k] = u
      BY <1>4, <2>1, <3>2
    <3> QED
      BY <2>3, <3>1, <3>3, Zenon
  <2>4. CASE bot[u] # b
    <3>1. waiters'[bot[u]] = waiters[bot[u]]
      BY <1>1, <1>3, <2>4 DEF CoreInv, TypeInv, TypeOK
    <3> QED
      BY <2>2, <3>1
  <2> QED
    BY <2>3, <2>4
<1>8. \A c \in Bots : Holders(c)' = Holders(c)
  BY <1>1, <1>2 DEF CoreInv, TypeInv, TypeOK, Holders
<1>9. OneTurnPerBot' /\ OwnerIsHolder'
  BY <1>1, <1>8 DEF CoreInv, OneTurnPerBot, OwnerIsHolder
<1> QED
  BY <1>5, <1>6, <1>7, <1>9 DEF CoreInv, TypeInv

\* A turn ends.
LEMMA ReleaseKeepsCore ==
  ASSUME CoreInv, NEW t \in Tasks, Release(t)
  PROVE  CoreInv'
<1> DEFINE b == bot[t]
<1>1. /\ b \in Bots /\ state[t] = "holding"
      /\ state' = [state EXCEPT ![t] = "done"]
      /\ owner' = [owner EXCEPT ![b] = NoTask]
      /\ locked' = [locked EXCEPT ![b] = FALSE]
      /\ UNCHANGED <<bot, parent, token, attached, waiters, waiting>>
  BY DEF CoreInv, TypeInv, TypeOK, Release
<1>2. TypeInv'
  BY <1>1 DEF CoreInv, TypeInv, TypeOK, Enqueued
<1>3. Holders(b) = {t}
  BY <1>1 DEF CoreInv, OneTurnPerBot, Holders
<1>4. Holders(b)' = {} /\ \A c \in Bots \ {b} : Holders(c)' = Holders(c)
  BY <1>1, <1>3 DEF CoreInv, TypeInv, TypeOK, Holders
<1>5. OneTurnPerBot'
  <2> SUFFICES ASSUME NEW u \in Tasks, NEW v \in Tasks, NEW c \in Bots,
                      u \in Holders(c)', v \in Holders(c)'
               PROVE  u = v
    BY DEF OneTurnPerBot
  <2>1. CASE c = b
    BY <2>1, <1>4, <1>1 DEF Holders
  <2>2. CASE c # b
    BY <2>2, <1>4 DEF CoreInv, OneTurnPerBot
  <2> QED
    BY <2>1, <2>2
<1>6. OwnerIsHolder'
  <2>1. locked'[b] = FALSE /\ owner'[b] = NoTask
    BY <1>1 DEF CoreInv, TypeInv, TypeOK
  <2>2. \A c \in Bots \ {b} : locked'[c] = locked[c] /\ owner'[c] = owner[c]
    BY <1>1 DEF CoreInv, TypeInv, TypeOK
  <2> QED
    BY <1>1, <1>4, <2>1, <2>2 DEF CoreInv, OwnerIsHolder
<1>7. \A x \in Tasks : \A c \in Bots : Queued(x, c)' = Queued(x, c)
  BY <1>1 DEF Queued, CoreInv, TypeInv, TypeOK
<1> QED
  BY <1>1, <1>2, <1>5, <1>6, <1>7, EdgesUnchanged DEF CoreInv

\* A step that changes neither a lease nor a queue.
LEMMA AsideKeepsCore ==
  ASSUME CoreInv, NEW t \in Tasks, SkipBusy(t) \/ Detach(t)
  PROVE  CoreInv'
<1>1. /\ UNCHANGED <<bot, parent, token, locked, waiters, owner, waiting>>
      /\ \/ state' = state
         \/ state[t] = "new" /\ state' = [state EXCEPT ![t] = "done"]
  BY DEF SkipBusy, Detach
<1>2. attached' \in [Tasks -> BOOLEAN]
  BY DEF CoreInv, TypeInv, TypeOK, SkipBusy, Detach
<1>3. TypeInv'
  <2>1. state' \in [Tasks -> {"new", "queued", "holding", "done"}]
    BY <1>1 DEF CoreInv, TypeInv, TypeOK
  <2>2. TypeOK'
    BY <1>1, <1>2, <2>1 DEF CoreInv, TypeInv, TypeOK
  <2>3. Enqueued'
    BY <1>1 DEF CoreInv, TypeInv, TypeOK, Enqueued
  <2> QED
    BY <2>2, <2>3 DEF TypeInv
<1>4. \A c \in Bots : Holders(c)' = Holders(c)
  BY <1>1 DEF CoreInv, TypeInv, TypeOK, Holders
<1>5. OneTurnPerBot' /\ OwnerIsHolder'
  BY <1>1, <1>4 DEF CoreInv, OneTurnPerBot, OwnerIsHolder
<1>6. \A x \in Tasks : \A c \in Bots : Queued(x, c)' = Queued(x, c)
  BY <1>1 DEF Queued, CoreInv, TypeInv, TypeOK
<1> QED
  BY <1>1, <1>3, <1>5, <1>6, EdgesUnchanged DEF CoreInv

-----------------------------------------------------------------------------
(* The inductive invariant                                                 *)

\* It holds at first.
LEMMA LeaseInvInit == Init => LeaseInv
<1> SUFFICES ASSUME Init PROVE LeaseInv
  OBVIOUS
<1>1. TypeInv
  BY DEF Init, TypeInv, TypeOK, Enqueued
<1>2. \A b \in Bots : Holders(b) = {}
  BY DEF Init, Holders
<1>3. OneTurnPerBot /\ OwnerIsHolder
  BY <1>2 DEF Init, OneTurnPerBot, OwnerIsHolder
<1>4. \A o \in Tasks : \A b \in Bots : Queued(o, b) = {}
  BY DEF Init, Queued
<1>5. EdgesAreWaiters
  BY <1>4, EdgesCountQueued, FS_EmptySet DEF Init
<1>6. Nested
  BY DEF Init, Nested
<1> QED
  BY <1>1, <1>3, <1>5, <1>6 DEF LeaseInv, CoreInv

\* A turn and a tool of a turn ask as Acquire does, under an owner o.
LEMMA RequestIsAcquire ==
  ASSUME LeaseInv, NEW t \in Tasks,
         RequestTurn(t) \/ \E p \in Tasks : RequestNested(t, p)
  PROVE  \E o \in Tasks :
           /\ state[t] = "new" /\ Acquire(t, bot[t], o)
           /\ token' = [token EXCEPT ![t] = o] /\ bot' = bot
           /\ parent' \in [Tasks -> Tasks \cup {NoTask}]
           /\ attached' \in [Tasks -> BOOLEAN]
<1> USE DEF LeaseInv, CoreInv, TypeInv, TypeOK
<1>1. CASE RequestTurn(t)
  <2>1. token[t] \in Tasks /\ token = [token EXCEPT ![t] = token[t]]
    OBVIOUS
  <2> QED
    BY <1>1, <2>1 DEF RequestTurn
<1>2. ASSUME NEW p \in Tasks, RequestNested(t, p)
      PROVE  /\ token[p] \in Tasks /\ state[t] = "new" /\ Acquire(t, bot[t], token[p])
             /\ token' = [token EXCEPT ![t] = token[p]] /\ bot' = bot
             /\ parent' \in [Tasks -> Tasks \cup {NoTask}]
             /\ attached' \in [Tasks -> BOOLEAN]
  BY <1>2 DEF RequestNested
<1> QED
  BY <1>1, <1>2

\* A request changes the state of nobody else.
LEMMA AcquireIsLocal ==
  ASSUME TypeInv, NEW t \in Tasks, NEW o, Acquire(t, bot[t], o), NEW u \in Tasks, u # t
  PROVE  state'[u] = state[u]
  BY DEF Acquire, Take, TypeInv, TypeOK

\* The owner of an awaited tool is that of its turn, and the turn has begun.
LEMMA NestedStep == LeaseInv /\ [Next]_vars => Nested'
<1> SUFFICES ASSUME LeaseInv, [Next]_vars, NEW c \in Tasks, attached'[c]
             PROVE  /\ parent'[c] \in Tasks
                    /\ state'[parent'[c]] \notin {"new", "queued"}
                    /\ token'[c] = token'[parent'[c]]
  BY DEF Nested
<1> USE DEF LeaseInv, CoreInv, TypeInv, TypeOK
<1> DEFINE Begun(x) == x \notin {"new", "queued"}
           Goal == /\ parent'[c] \in Tasks
                   /\ Begun(state'[parent'[c]])
                   /\ token'[c] = token'[parent'[c]]
<1>1. ASSUME attached'[c] => attached[c], UNCHANGED <<parent, token>>,
             \A u \in Tasks : Begun(state[u]) => Begun(state'[u])
      PROVE  Goal
  BY <1>1 DEF Nested
<1>2. CASE UNCHANGED vars
  BY <1>1, <1>2 DEF vars, taskVars
<1>3. ASSUME NEW t \in Tasks, RequestTurn(t)
      PROVE  Goal
  <2>1. \A u \in Tasks : Begun(state[u]) => Begun(state'[u])
    BY <1>3, AcquireIsLocal DEF RequestTurn
  <2> QED
    BY <1>1, <1>3, <2>1 DEF RequestTurn
<1>4. ASSUME NEW t \in Tasks, NEW p \in Tasks, RequestNested(t, p)
      PROVE  Goal
  <2>1. /\ state[t] = "new" /\ state[p] # "new" /\ p # t
        /\ parent' = [parent EXCEPT ![t] = p]
        /\ token' = [token EXCEPT ![t] = token[p]]
        /\ attached' = [attached EXCEPT ![t] = state[p] = "holding"]
    BY <1>4 DEF RequestNested
  <2>2. \A u \in Tasks \ {t} : state'[u] = state[u]
    BY <1>4, AcquireIsLocal DEF RequestNested
  <2>3. CASE c = t
    <3>1. attached'[t] = (state[p] = "holding")
      BY <2>1
    <3>2. state[p] = "holding"
      BY <2>3, <3>1
    <3> QED
      BY <2>1, <2>2, <2>3, <3>2
  <2>4. CASE c # t
    <3>1. attached[c]
      BY <2>1, <2>4
    <3>2. parent[c] \in Tasks /\ Begun(state[parent[c]]) /\ token[c] = token[parent[c]]
      BY <3>1 DEF Nested
    <3>3. parent[c] # t /\ parent'[c] = parent[c]
      BY <2>1, <2>4, <3>2
    <3> QED
      BY <2>1, <2>2, <2>4, <3>2, <3>3
  <2> QED
    BY <2>3, <2>4
<1>5. ASSUME NEW t \in Tasks, SkipBusy(t) \/ Wake(t) \/ CancelQueued(t) \/ Release(t)
      PROVE  Goal
  <2>1. /\ UNCHANGED <<parent, token, attached>>
        /\ \E x \in {"holding", "done"} : state' = [state EXCEPT ![t] = x]
    BY <1>5 DEF SkipBusy, Wake, Take, CancelQueued, Release
  <2> QED
    BY <1>1, <2>1
<1>6. ASSUME NEW t \in Tasks, Detach(t)
      PROVE  Goal
  BY <1>1, <1>6 DEF Detach
<1> QED
  BY <1>2, <1>3, <1>4, <1>5, <1>6 DEF Next

\* Every step keeps the invariant.
LEMMA LeaseInvStep == LeaseInv /\ [Next]_vars => LeaseInv'
<1> SUFFICES ASSUME LeaseInv, [Next]_vars PROVE LeaseInv'
  OBVIOUS
<1>1. CoreInv'
  <2> USE DEF LeaseInv
  <2>1. CASE UNCHANGED vars
    BY <2>1 DEF vars, taskVars, CoreInv, TypeInv, TypeOK, Enqueued, OneTurnPerBot,
                OwnerIsHolder, EdgesAreWaiters, Holders
  <2>2. ASSUME NEW t \in Tasks, RequestTurn(t) \/ \E p \in Tasks : RequestNested(t, p)
        PROVE  CoreInv'
    BY <2>2, RequestIsAcquire, AcquireKeepsCore
  <2>3. ASSUME NEW t \in Tasks, SkipBusy(t) \/ Detach(t)
        PROVE  CoreInv'
    BY <2>3, AsideKeepsCore
  <2>4. ASSUME NEW t \in Tasks, Wake(t)
        PROVE  CoreInv'
    BY <2>4, WakeKeepsCore
  <2>5. ASSUME NEW t \in Tasks, CancelQueued(t)
        PROVE  CoreInv'
    BY <2>5, CancelQueuedKeepsCore
  <2>6. ASSUME NEW t \in Tasks, Release(t)
        PROVE  CoreInv'
    BY <2>6, ReleaseKeepsCore
  <2> QED
    BY <2>1, <2>2, <2>3, <2>4, <2>5, <2>6 DEF Next
<1> QED
  BY <1>1, NestedStep DEF LeaseInv

-----------------------------------------------------------------------------
(* No circle of waiting turns                                              *)

Active == {t \in Tasks : state[t] \in {"queued", "holding"}}

\* Whom a request waits for.
LEMMA WhomItWaitsFor ==
  ASSUME NEW u \in Tasks
  PROVE  /\ state[u] = "queued" => WaitsFor(u) = Holders(bot[u])
         /\ state[u] = "holding" => WaitsFor(u) = Awaited(u)
  BY DEF WaitsFor

\* The property, with the set of those that wait.
LEMMA NoDeadlockByActive ==
  NoDeadlock <=> \A S \in SUBSET Active :
                   S # {} => \E u \in S : WaitsFor(u) \cap S = {}
  BY DEF NoDeadlock, Active

\* What a step of t alone does to the others: at most that they wait for t.
LEMMA OthersWaitForItAtMost ==
  ASSUME NEW t \in Tasks,
         \A u \in Tasks \ {t} : /\ state'[u] = state[u] /\ bot'[u] = bot[u]
                                /\ parent'[u] = parent[u] /\ attached'[u] = attached[u],
         NEW v \in Tasks \ {t}, v \in Active'
  PROVE  v \in Active /\ WaitsFor(v)' \subseteq WaitsFor(v) \cup {t}
<1>1. v \in Active /\ state'[v] = state[v] /\ bot'[v] = bot[v]
  BY DEF Active
<1>2. CASE state[v] = "queued"
  <2>1. Holders(bot[v])' \subseteq Holders(bot[v]) \cup {t}
    BY <1>1 DEF Holders
  <2>2. WaitsFor(v) = Holders(bot[v]) /\ WaitsFor(v)' = Holders(bot[v])'
    BY <1>1, <1>2 DEF WaitsFor
  <2> QED
    BY <1>1, <2>1, <2>2
<1>3. CASE state[v] = "holding"
  <2>1. Awaited(v)' \subseteq Awaited(v) \cup {t}
    BY DEF Awaited
  <2>2. WaitsFor(v) = Awaited(v) /\ WaitsFor(v)' = Awaited(v)'
    BY <1>1, <1>3 DEF WaitsFor
  <2> QED
    BY <1>1, <2>1, <2>2
<1> QED
  BY <1>1, <1>2, <1>3 DEF Active

\* A step of t after which t waits for nobody closes no circle.
LEMMA FreeStepClosesNoCircle ==
  ASSUME NoDeadlock, NEW t \in Tasks,
         \A u \in Tasks \ {t} : /\ state'[u] = state[u] /\ bot'[u] = bot[u]
                                /\ parent'[u] = parent[u] /\ attached'[u] = attached[u],
         t \in Active' => WaitsFor(t)' = {}
  PROVE  NoDeadlock'
<1> SUFFICES ASSUME NEW S \in SUBSET Active', S # {}
             PROVE  \E u \in S : WaitsFor(u)' \cap S = {}
  BY DEF NoDeadlock, Active
<1>1. CASE t \in S
  BY <1>1
<1>2. CASE t \notin S
  <2>1. \A v \in S : v \in Tasks \ {t} /\ v \in Active'
    BY <1>2 DEF Active
  <2>2. \A v \in S : v \in Active /\ WaitsFor(v)' \subseteq WaitsFor(v) \cup {t}
    BY <2>1, OthersWaitForItAtMost
  <2>3. PICK u \in S : WaitsFor(u) \cap S = {}
    BY <2>2, NoDeadlockByActive
  <2>4. WaitsFor(u)' \cap S = {}
    BY <2>2, <2>3, <1>2
  <2> QED
    BY <2>4
<1> QED
  BY <1>1, <1>2

\* A request of o that is queued for b closes no circle, since the search found
\* none: the owners it reaches through the edges do not include o.  A circle of
\* turns that contains the request would lead, from the holder of b on, through
\* turns of those owners only, and never come back to it.
LEMMA QueuingClosesNoCircle ==
  ASSUME LeaseInv, Nested', NoDeadlock, NEW t \in Tasks, NEW o \in Tasks,
         state[t] = "new", state'[t] = "queued", token'[t] = o, bot'[t] = bot[t],
         ~WaitCycle(WithEdge(o, bot[t]), o),
         \A u \in Tasks \ {t} : /\ state'[u] = state[u] /\ bot'[u] = bot[u]
                                /\ parent'[u] = parent[u] /\ attached'[u] = attached[u]
                                /\ token'[u] = token[u]
  PROVE  NoDeadlock'
<1> DEFINE b == bot[t]
           pending == WithEdge(o, b)
<1>0. TypeOK
  BY DEF LeaseInv, CoreInv, TypeInv
<1> SUFFICES ASSUME NEW S \in SUBSET Active', S # {},
                    \A u \in S : WaitsFor(u)' \cap S # {}
             PROVE  FALSE
  BY DEF NoDeadlock, Active
<1>1. \A v \in S \ {t} : v \in Active /\ WaitsFor(v)' \subseteq WaitsFor(v) \cup {t}
  <2> SUFFICES ASSUME NEW v \in S \ {t}
               PROVE  v \in Active /\ WaitsFor(v)' \subseteq WaitsFor(v) \cup {t}
    OBVIOUS
  <2>1. v \in Tasks \ {t} /\ v \in Active'
    BY DEF Active
  <2> QED
    BY <2>1, OthersWaitForItAtMost
<1>2. t \in S
  <2>1. CASE t \notin S
    <3>1. S \in SUBSET Active
      BY <1>1, <2>1
    <3>2. PICK u \in S : WaitsFor(u) \cap S = {}
      BY <3>1, NoDeadlockByActive
    <3> QED
      BY <1>1, <2>1, <3>2
  <2> QED
    BY <2>1
<1>3. PICK reached \in SUBSET Tasks :
        /\ Blockers(pending, o) \subseteq reached
        /\ \A x \in reached : Blockers(pending, x) \subseteq reached
        /\ o \notin reached
  BY DEF WaitCycle
<1>4. ASSUME NEW x \in Tasks, NEW c \in Bots, pending[x][c] > 0, NEW h \in Holders(c)
      PROVE  token[h] \in Blockers(pending, x)
  <2>1. h \in Tasks /\ owner[c] = token[h]
    BY DEF Holders, LeaseInv, CoreInv, OwnerIsHolder
  <2>2. token[h] \in Tasks /\ token[h] # NoTask
    BY <2>1, <1>0, NoTaskAssumption DEF TypeOK
  <2> QED
    BY <1>4, <2>1, <2>2 DEF Blockers
<1>5. b \in Bots /\ pending[o][b] > 0
  BY <1>0 DEF TypeOK, WithEdge
<1>6. ASSUME NEW u \in Tasks, state[u] = "queued"
      PROVE  bot[u] \in Bots /\ token[u] \in Tasks /\ pending[token[u]][bot[u]] > 0
  <2>1. bot[u] \in Bots /\ token[u] \in Tasks
    BY <1>0 DEF TypeOK
  <2>2. waiting[token[u]][bot[u]] \in Nat \ {0}
    BY <1>6, QueuedHasEdge DEF LeaseInv, CoreInv
  <2>3. pending[token[u]][bot[u]] \in {waiting[token[u]][bot[u]],
                                        waiting[token[u]][bot[u]] + 1}
    BY <2>1, <1>0 DEF TypeOK, WithEdge
  <2>4. pending[token[u]][bot[u]] > 0
    <3> DEFINE n == waiting[token[u]][bot[u]]
    <3> HIDE DEF n, pending
    <3>1. n \in Nat \ {0} /\ pending[token[u]][bot[u]] \in {n, n + 1}
      BY <2>2, <2>3 DEF n
    <3> QED
      BY <3>1
  <2> QED
    BY <2>1, <2>4
<1> HIDE DEF pending
<1> DEFINE T == {u \in S \ {t} : token[u] \in reached}
<1>7. T # {}
  <2>1. WaitsFor(t)' = Holders(b)'
    BY DEF WaitsFor
  <2>2. PICK h \in Holders(b)' : h \in S
    BY <1>2, <2>1
  <2>3. h # t /\ h \in Holders(b)
    BY <2>2 DEF Holders
  <2>4. token[h] \in Blockers(pending, o)
    BY <1>4, <1>5, <2>3
  <2> QED
    BY <1>3, <2>2, <2>3, <2>4
<1>8. ASSUME NEW u \in T
      PROVE  WaitsFor(u) \cap T # {}
  <2>1. u \in S /\ u # t /\ u \in Tasks /\ token[u] \in reached /\ u \in Active
    BY <1>1 DEF Active
  <2>2. PICK x \in WaitsFor(u)' : x \in S
    BY <2>1
  <2>3. x # t
    <3> SUFFICES ASSUME x = t PROVE FALSE
      OBVIOUS
    <3>1. CASE state[u] = "queued"
      <4>1. WaitsFor(u)' = Holders(bot[u])'
        BY <2>1, <3>1 DEF WaitsFor
      <4> QED
        BY <2>2, <4>1 DEF Holders
    <3>2. CASE state[u] = "holding"
      <4>1. WaitsFor(u)' = Awaited(u)'
        BY <2>1, <3>2 DEF WaitsFor
      <4>2. parent'[t] = u /\ attached'[t]
        BY <2>2, <4>1 DEF Awaited
      <4>3. token'[t] = token'[u]
        BY <4>2 DEF Nested
      <4> QED
        BY <1>3, <2>1, <4>3
    <3> QED
      BY <2>1, <3>1, <3>2 DEF Active
  <2>4. x \in WaitsFor(u) /\ x \in S \ {t}
    BY <1>1, <2>1, <2>2, <2>3
  <2>5. token[x] \in reached
    <3>1. CASE state[u] = "queued"
      <4>1. x \in Holders(bot[u])
        BY <2>1, <2>4, <3>1, WhomItWaitsFor
      <4>2. token[x] \in Blockers(pending, token[u])
        BY <1>4, <1>6, <2>1, <3>1, <4>1
      <4> QED
        BY <1>3, <2>1, <4>2
    <3>2. CASE state[u] = "holding"
      <4>1. x \in Awaited(u)
        BY <2>1, <2>4, <3>2, WhomItWaitsFor
      <4>2. token[x] = token[u]
        BY <4>1 DEF Awaited, LeaseInv, Nested
      <4> QED
        BY <2>1, <4>2
    <3> QED
      BY <2>1, <3>1, <3>2 DEF Active
  <2> QED
    BY <2>4, <2>5
<1>9. T \in SUBSET Active
  BY <1>1
<1> HIDE DEF T
<1> QED
  BY <1>7, <1>8, <1>9, NoDeadlockByActive

\* A tool that runs on alone is waited for by nobody any more.
LEMMA DetachClosesNoCircle ==
  ASSUME NoDeadlock, NEW t \in Tasks, Detach(t), TypeOK
  PROVE  NoDeadlock'
<1>1. /\ UNCHANGED <<state, bot, parent>>
      /\ \A u \in Tasks : attached'[u] => attached[u]
  BY DEF Detach, TypeOK
<1>2. Active' = Active
  BY <1>1 DEF Active
<1>3. \A u \in Tasks : WaitsFor(u)' \subseteq WaitsFor(u)
  <2> SUFFICES ASSUME NEW u \in Tasks PROVE WaitsFor(u)' \subseteq WaitsFor(u)
    OBVIOUS
  <2>1. Holders(bot[u])' = Holders(bot[u]) /\ Awaited(u)' \subseteq Awaited(u)
    BY <1>1 DEF Holders, Awaited
  <2>2. CASE state[u] = "queued"
    BY <1>1, <2>1, <2>2 DEF WaitsFor
  <2>3. CASE state[u] = "holding"
    BY <1>1, <2>1, <2>3 DEF WaitsFor
  <2>4. CASE state[u] \notin {"queued", "holding"}
    BY <1>1, <2>4 DEF WaitsFor
  <2> QED
    BY <2>2, <2>3, <2>4
<1> SUFFICES ASSUME NEW S \in SUBSET Active', S # {}
             PROVE  \E u \in S : WaitsFor(u)' \cap S = {}
  BY DEF NoDeadlock, Active
<1>4. PICK u \in S : WaitsFor(u) \cap S = {}
  BY <1>2, NoDeadlockByActive
<1>5. u \in Tasks
  BY DEF Active
<1> QED
  BY <1>3, <1>4, <1>5

\* A request is refused, granted, or queued without closing a circle.
LEMMA AcquireClosesNoCircle ==
  ASSUME LeaseInv, Nested', NoDeadlock, NEW t \in Tasks, NEW o \in Tasks,
         state[t] = "new", Acquire(t, bot[t], o),
         token' = [token EXCEPT ![t] = o], bot' = bot,
         \A u \in Tasks \ {t} : parent'[u] = parent[u] /\ attached'[u] = attached[u],
         attached'[t] => parent'[t] # t
  PROVE  NoDeadlock'
<1>0. TypeInv /\ TypeOK
  BY DEF LeaseInv, CoreInv, TypeInv
<1>1. \A u \in Tasks \ {t} : /\ state'[u] = state[u] /\ bot'[u] = bot[u]
                             /\ parent'[u] = parent[u] /\ attached'[u] = attached[u]
                             /\ token'[u] = token[u]
  BY <1>0, AcquireIsLocal DEF TypeOK
<1>2. CASE state'[t] = "done"
  <2>1. t \notin Active'
    BY <1>2 DEF Active
  <2> QED
    BY <1>1, <2>1, FreeStepClosesNoCircle
<1>3. CASE state'[t] = "holding"
  <2>1. Awaited(t)' = {}
    <3> SUFFICES ASSUME NEW c \in Awaited(t)' PROVE FALSE
      OBVIOUS
    <3>1. c \in Tasks /\ parent'[c] = t /\ attached'[c] /\ state'[c] \in {"queued", "holding"}
      BY DEF Awaited
    <3>2. CASE c # t
      BY <1>1, <3>1, <3>2 DEF LeaseInv, Nested
    <3>3. CASE c = t
      BY <3>1, <3>3
    <3> QED
      BY <3>2, <3>3
  <2>2. WaitsFor(t)' = Awaited(t)'
    BY <1>3 DEF WaitsFor
  <2> QED
    BY <1>1, <2>1, <2>2, FreeStepClosesNoCircle
<1>4. CASE state'[t] = "queued"
  <2>1. ~WaitCycle(WithEdge(o, bot[t]), o)
    BY <1>0, <1>4 DEF Acquire, Take, TypeOK
  <2>2. token'[t] = o /\ bot'[t] = bot[t]
    BY <1>0 DEF TypeOK
  <2> QED
    BY <1>1, <1>4, <2>1, <2>2, QueuingClosesNoCircle
<1> QED
  BY <1>0, <1>2, <1>3, <1>4 DEF Acquire, Take, TypeOK

\* No step closes a circle.
LEMMA NoDeadlockStep == LeaseInv /\ NoDeadlock /\ [Next]_vars => NoDeadlock'
<1> SUFFICES ASSUME LeaseInv, NoDeadlock, [Next]_vars PROVE NoDeadlock'
  OBVIOUS
<1>0. TypeInv /\ TypeOK /\ Nested' /\ Nested
  BY NestedStep DEF LeaseInv, CoreInv, TypeInv
<1>1. CASE UNCHANGED vars
  <2>1. \A u \in Tasks : WaitsFor(u)' = WaitsFor(u)
    BY <1>1 DEF vars, taskVars, WaitsFor, Holders, Awaited
  <2> QED
    BY <1>1, <2>1 DEF vars, taskVars, NoDeadlock
<1>2. ASSUME NEW t \in Tasks, RequestTurn(t)
      PROVE  NoDeadlock'
  <2>1. attached[t] => parent[t] # t
    BY <1>0, <1>2 DEF RequestTurn, Nested
  <2>2. token[t] \in Tasks /\ token' = [token EXCEPT ![t] = token[t]]
    BY <1>0, <1>2 DEF RequestTurn, TypeOK
  <2> QED
    BY <1>0, <1>2, <2>1, <2>2, AcquireClosesNoCircle DEF RequestTurn
<1>3. ASSUME NEW t \in Tasks, NEW p \in Tasks, RequestNested(t, p)
      PROVE  NoDeadlock'
  <2>1. p # t /\ parent'[t] = p /\ token[p] \in Tasks
    BY <1>0, <1>3 DEF RequestNested, TypeOK
  <2>2. \A u \in Tasks \ {t} : parent'[u] = parent[u] /\ attached'[u] = attached[u]
    BY <1>0, <1>3 DEF RequestNested, TypeOK
  <2> QED
    BY <1>0, <1>3, <2>1, <2>2, AcquireClosesNoCircle DEF RequestNested
<1>4. ASSUME NEW t \in Tasks, SkipBusy(t) \/ CancelQueued(t) \/ Release(t)
      PROVE  NoDeadlock'
  <2>1. state' = [state EXCEPT ![t] = "done"] /\ UNCHANGED <<bot, parent, attached>>
    BY <1>4 DEF SkipBusy, CancelQueued, Release
  <2>2. t \notin Active'
    BY <1>0, <2>1 DEF Active, TypeOK
  <2>3. \A u \in Tasks \ {t} : /\ state'[u] = state[u] /\ bot'[u] = bot[u]
                               /\ parent'[u] = parent[u] /\ attached'[u] = attached[u]
    BY <1>0, <2>1 DEF TypeOK
  <2> QED
    BY <2>2, <2>3, FreeStepClosesNoCircle
<1>5. ASSUME NEW t \in Tasks, Wake(t)
      PROVE  NoDeadlock'
  <2>1. /\ state[t] = "queued" /\ state' = [state EXCEPT ![t] = "holding"]
        /\ UNCHANGED <<bot, parent, attached>>
    BY <1>5 DEF Wake, Take
  <2>2. state'[t] = "holding"
    BY <1>0, <2>1 DEF TypeOK
  <2>3. Awaited(t)' = {}
    BY <1>0, <2>1 DEF Awaited, Nested
  <2>4. WaitsFor(t)' = Awaited(t)'
    BY <2>2 DEF WaitsFor
  <2>5. \A u \in Tasks \ {t} : /\ state'[u] = state[u] /\ bot'[u] = bot[u]
                               /\ parent'[u] = parent[u] /\ attached'[u] = attached[u]
    BY <1>0, <2>1 DEF TypeOK
  <2> QED
    BY <2>3, <2>4, <2>5, FreeStepClosesNoCircle
<1>6. ASSUME NEW t \in Tasks, Detach(t)
      PROVE  NoDeadlock'
  BY <1>0, <1>6, DetachClosesNoCircle
<1> QED
  BY <1>1, <1>2, <1>3, <1>4, <1>5, <1>6 DEF Next

-----------------------------------------------------------------------------
(* The theorems                                                            *)

\* Every variable has its type; in particular the count of an edge is never
\* taken below zero.
THEOREM LeaseTypeCorrect == Spec => []TypeOK
<1>1. LeaseInv => TypeOK
  BY DEF LeaseInv, CoreInv, TypeInv
<1> QED
  BY <1>1, LeaseInvInit, LeaseInvStep, PTL DEF Spec

\* One bot runs one turn at a time, whoever asks, cancels or nests.
THEOREM LeasesAreExclusive == Spec => []OneTurnPerBot
<1>1. LeaseInv => OneTurnPerBot
  BY DEF LeaseInv, CoreInv
<1> QED
  BY <1>1, LeaseInvInit, LeaseInvStep, PTL DEF Spec

\* The book that the deadlock check reads is exact: the lease of a bot names the
\* owner of the turn that runs, and the wait-for edges count the queued requests.
THEOREM LeaseBookIsExact == Spec => []BookIsExact
<1>1. LeaseInv => BookIsExact
  BY DEF LeaseInv, CoreInv, BookIsExact
<1> QED
  BY <1>1, LeaseInvInit, LeaseInvStep, PTL DEF Spec

\* Turns never wait for one another in a circle, however many bots, parallel
\* tools, cancellations and detached tools there are.
THEOREM TurnsNeverDeadlock == Spec => []NoDeadlock
<1>1. Init => NoDeadlock
  BY DEF Init, NoDeadlock
<1> QED
  BY <1>1, LeaseInvInit, LeaseInvStep, NoDeadlockStep, PTL DEF Spec

-----------------------------------------------------------------------------
(***************************************************************************)
(* The safety of the workspace registries, for any bots, windows, tasks    *)
(* and turns of any number of processes: a window keeps its stream, and    *)
(* the record of a task's owner wins.                                      *)
(*                                                                         *)
(* StoreInv is inductive.  It says of the streams that no session id is    *)
(* given out twice and that a turn's is the one of its window's binding    *)
(* (StreamInv), and of the owners that a registry names its own bot only   *)
(* and that a recorded owner which a turn that asks has not found yet is   *)
(* in a registry that it has still to read (OwnerInv).                     *)
(***************************************************************************)
Bindings == [session : Nat, meta : Nat, cursor : BOOLEAN]
ActSteps == {"idle", "leased", "ensured", "runs", "record", "others", "answered"}
\* A turn's record; what an answer consists of does not matter here.
ActRecords(F) ==
    [step : ActSteps, bot : Hosts \cup {NoHost}, chat : Chats \cup {NoHost},
     session : Nat, meta : Nat, task : Goals \cup {NoHost},
     unread : SUBSET Hosts, found : SUBSET F, known : SUBSET Hosts]

ActsTyped ==
    /\ \E F : act \in [Acts -> ActRecords(F)]
    /\ \A a \in Acts :
        /\ act[a].step # "idle" => act[a].bot \in Hosts /\ act[a].chat \in Chats
        /\ act[a].step \in {"record", "others"} => act[a].task \in Goals

StoreTypes ==
    /\ bindings \in [Hosts -> [Chats -> Bindings]]
    /\ sessionIds \in Nat
    /\ owners \in [Hosts -> [Goals -> Hosts \cup {NoHost}]]
    /\ window \in [Chats -> Nat]
    /\ ActsTyped

\* Session ids are given out once.
IdsUnique ==
    \A b, c \in Hosts, w, x \in Chats :
        /\ bindings[b][w].session <= sessionIds
        /\ bindings[b][w].session # 0 /\ bindings[b][w].session = bindings[c][x].session
             => b = c /\ w = x
TurnHasStream ==
    \A a \in Acts : act[a].session # 0 =>
        /\ act[a].step # "idle"
        /\ bindings[act[a].bot][act[a].chat].session = act[a].session
StreamInv == IdsUnique /\ TurnHasStream

OwnersOwn == \A b \in Hosts, t \in Goals : owners[b][t] \in {b, NoHost}
RecordStillAhead ==
    \A a \in Acts : act[a].step = "others" => \A x \in act[a].known :
        \/ x \in act[a].found
        \/ x \in act[a].unread /\ owners[x][act[a].task] = x
OwnerInv == OwnersOwn /\ RecordStillAhead /\ RecordWins

StoreInv == StoreTypes /\ StreamInv /\ OwnerInv

-----------------------------------------------------------------------------
(* Bindings                                                                *)

\* What an update leaves: a typed table of bindings, changed in one place.
LEMMA UpdateTypes ==
  ASSUME StoreTypes, NEW b \in Hosts, NEW w \in Chats, NEW m \in Nat, Update(b, w, m)
  PROVE  /\ bindings' \in [Hosts -> [Chats -> Bindings]]
         /\ sessionIds' \in Nat
         /\ bindings'[b][w].session = Minted(bindings[b][w])
         /\ \A c \in Hosts, x \in Chats : c # b \/ x # w => bindings'[c][x] = bindings[c][x]
<1>1. bindings[b][w] \in Bindings
  BY DEF StoreTypes
<1>2. Minted(bindings[b][w]) \in Nat
  BY <1>1 DEF Minted, Bindings, StoreTypes
<1> DEFINE new == [bindings[b][w] EXCEPT !.session = Minted(bindings[b][w]),
                                         !.meta = IF m = 0 THEN bindings[b][w].meta ELSE m]
<1>3. new \in Bindings /\ new.session = Minted(bindings[b][w])
  BY <1>1, <1>2 DEF Bindings
<1>4. bindings' = [bindings EXCEPT ![b] = [bindings[b] EXCEPT ![w] = new]]
  BY <1>1 DEF Update, StoreTypes, Bindings
<1>5. sessionIds' \in Nat
  BY <1>2 DEF Update, StoreTypes
<1> HIDE DEF new
<1>6. QED
  BY <1>3, <1>4, <1>5 DEF StoreTypes

\* An update keeps the ids unique, and every stream that was given out.
LEMMA UpdateStreams ==
  ASSUME StoreTypes, IdsUnique,
         NEW b \in Hosts, NEW w \in Chats, NEW m \in Nat, Update(b, w, m)
  PROVE  /\ IdsUnique'
         /\ \A c \in Hosts, x \in Chats : bindings[c][x].session # 0 =>
               bindings'[c][x].session = bindings[c][x].session
<1> DEFINE old == bindings[b][w].session
           id == Minted(bindings[b][w])
<1>1. /\ bindings'[b][w].session = id
      /\ \A c \in Hosts, x \in Chats : c # b \/ x # w => bindings'[c][x] = bindings[c][x]
  BY UpdateTypes
<1>2. \A c \in Hosts, x \in Chats : bindings[c][x].session \in Nat
  BY DEF StoreTypes, Bindings
<1>3. CASE old # 0
  <2>1. id = old /\ sessionIds' = sessionIds
    BY <1>2, <1>3 DEF Minted, Update, IdsUnique, StoreTypes
  <2>2. \A c \in Hosts, x \in Chats : bindings'[c][x].session = bindings[c][x].session
    BY <1>1, <2>1
  <2>3. QED
    BY <2>1, <2>2 DEF IdsUnique
<1>4. CASE old = 0
  <2>1. id = sessionIds + 1 /\ sessionIds' = sessionIds + 1 /\ sessionIds \in Nat
    BY <1>4 DEF Minted, Update, StoreTypes
  <2>2. \A c \in Hosts, x \in Chats : c # b \/ x # w => bindings'[c][x].session # id
    BY <1>1, <1>2, <2>1 DEF IdsUnique
  <2>3. \A c \in Hosts, x \in Chats : bindings'[c][x].session <= sessionIds'
    BY <1>1, <1>2, <2>1 DEF IdsUnique
  <2>4. \A c, d \in Hosts, x, y \in Chats :
           bindings'[c][x].session # 0 /\ bindings'[c][x].session = bindings'[d][y].session
             => c = d /\ x = y
    BY <1>1, <2>2 DEF IdsUnique
  <2>5. QED
    BY <1>1, <1>4, <2>3, <2>4 DEF IdsUnique
<1>5. QED
  BY <1>3, <1>4

-----------------------------------------------------------------------------
(* One record of a turn                                                    *)

\* A step of the turn a that leaves its record typed.
LEMMA ActStepTyped ==
  ASSUME ActsTyped, NEW a \in Acts, NEW F, NEW to \in ActRecords(F),
         act' = [act EXCEPT ![a] = to],
         to.step # "idle" => to.bot \in Hosts /\ to.chat \in Chats,
         to.step \in {"record", "others"} => to.task \in Goals
  PROVE  ActsTyped' /\ act'[a] = to /\ \A x \in Acts \ {a} : act'[x] = act[x]
<1>1. PICK G : act \in [Acts -> ActRecords(G)]
  BY DEF ActsTyped
<1>2. to \in ActRecords(F \cup G) /\ ActRecords(G) \subseteq ActRecords(F \cup G)
  BY DEF ActRecords
<1>3. act' \in [Acts -> ActRecords(F \cup G)]
  BY <1>1, <1>2
<1>4. act'[a] = to /\ \A x \in Acts \ {a} : act'[x] = act[x]
  BY <1>1
<1>5. \A x \in Acts :
        /\ act'[x].step # "idle" => act'[x].bot \in Hosts /\ act'[x].chat \in Chats
        /\ act'[x].step \in {"record", "others"} => act'[x].task \in Goals
  BY <1>4 DEF ActsTyped
<1>6. QED
  BY <1>3, <1>4, <1>5 DEF ActsTyped

LEMMA NoActTyped == NoAct \in ActRecords({}) /\ NoAct.step = "idle" /\ NoAct.session = 0
BY DEF NoAct, ActRecords, ActSteps

\* A turn's own record, when it has begun.
LEMMA BegunAct ==
  ASSUME ActsTyped, NEW a \in Acts
  PROVE  /\ \E F : act[a] \in ActRecords(F)
         /\ act[a].session \in Nat
         /\ act[a].step # "idle" => act[a].bot \in Hosts /\ act[a].chat \in Chats
<1>1. PICK F : act \in [Acts -> ActRecords(F)]
  BY DEF ActsTyped
<1>2. act[a] \in ActRecords(F)
  BY <1>1
<1>3. QED
  BY <1>2 DEF ActsTyped, ActRecords

-----------------------------------------------------------------------------
(* Frames                                                                  *)

\* The streams when a turn's record changes and at most one binding is updated.
LEMMA StreamStep ==
  ASSUME StoreTypes, StreamInv, NEW a \in Acts,
         \/ UNCHANGED <<bindings, sessionIds>>
         \/ \E b \in Hosts, w \in Chats, m \in Nat : Update(b, w, m),
         \A x \in Acts \ {a} : act'[x] = act[x],
         \/ act'[a].session = 0
         \/ /\ act'[a].step # "idle"
            /\ bindings'[act'[a].bot][act'[a].chat].session = act'[a].session
  PROVE  StreamInv'
<1>1. /\ IdsUnique'
      /\ \A c \in Hosts, x \in Chats : bindings[c][x].session # 0 =>
            bindings'[c][x].session = bindings[c][x].session
  BY UpdateStreams DEF StreamInv, IdsUnique
<1>2. ASSUME NEW x \in Acts \ {a}, act[x].session # 0
      PROVE  /\ act[x].step # "idle"
             /\ bindings'[act[x].bot][act[x].chat].session = act[x].session
  <2>1. /\ act[x].step # "idle"
        /\ bindings[act[x].bot][act[x].chat].session = act[x].session
    BY <1>2 DEF StreamInv, TurnHasStream
  <2>2. act[x].bot \in Hosts /\ act[x].chat \in Chats
    BY <2>1 DEF StoreTypes, ActsTyped
  <2>3. QED
    BY <1>1, <1>2, <2>1, <2>2
<1>3. TurnHasStream'
  BY <1>2 DEF TurnHasStream
<1>4. QED
  BY <1>1, <1>3 DEF StreamInv

\* The owners when no record of an owner changes and the turn asks nothing.
LEMMA OwnerStep ==
  ASSUME OwnerInv, NEW a \in Acts, owners' = owners,
         \A x \in Acts \ {a} : act'[x] = act[x],
         act'[a].step \notin {"others", "answered"}
  PROVE  OwnerInv'
BY DEF OwnerInv, OwnersOwn, RecordStillAhead, RecordWins, At

-----------------------------------------------------------------------------
(* The steps                                                               *)

LEMMA StoreInitInv == StoreInit => StoreInv
<1> SUFFICES ASSUME StoreInit
             PROVE  StoreInv
  OBVIOUS
<1>1. ActsTyped
  <2>1. act \in [Acts -> ActRecords({})]
    BY NoActTyped DEF StoreInit
  <2>2. \A a \in Acts : act[a].step = "idle"
    BY NoActTyped DEF StoreInit
  <2>3. QED
    BY <2>1, <2>2 DEF ActsTyped
<1>2. StoreTypes
  BY <1>1 DEF StoreInit, StoreTypes, Bindings, Unbound
<1>3. StreamInv
  <2>1. \A b \in Hosts, w \in Chats : bindings[b][w].session = 0
    BY DEF StoreInit, Unbound
  <2>2. \A a \in Acts : act[a].session = 0
    BY NoActTyped DEF StoreInit
  <2>3. QED
    BY <2>1, <2>2 DEF StreamInv, IdsUnique, TurnHasStream, StoreInit
<1>4. OwnerInv
  <2>1. \A a \in Acts : act[a].step = "idle"
    BY NoActTyped DEF StoreInit
  <2>2. QED
    BY <2>1 DEF OwnerInv, OwnersOwn, RecordStillAhead, RecordWins, At, StoreInit
<1>5. QED
  BY <1>2, <1>3, <1>4 DEF StoreInv

LEMMA ActInv ==
  ASSUME StoreInv, NEW a \in Acts, NEW b \in Hosts, NEW w \in Chats, Lease(a, b, w)
  PROVE  StoreInv'
<1> DEFINE to == [NoAct EXCEPT !.step = "leased", !.bot = b, !.chat = w]
<1>1. /\ to \in ActRecords({}) /\ to.step = "leased" /\ to.session = 0
      /\ to.bot = b /\ to.chat = w
  BY DEF NoAct, ActRecords, ActSteps
<1>2. act' = [act EXCEPT ![a] = to]
  BY DEF Lease
<1> HIDE DEF to
<1>3. ActsTyped' /\ act'[a] = to /\ \A x \in Acts \ {a} : act'[x] = act[x]
  BY <1>1, <1>2, ActStepTyped DEF StoreInv, StoreTypes
<1>4. \/ UNCHANGED <<bindings, sessionIds>>
      \/ window[w] \in Nat /\ Update(b, w, window[w])
  BY DEF Lease, StoreInv, StoreTypes
<1>5. StoreTypes'
  <2>1. bindings' \in [Hosts -> [Chats -> Bindings]] /\ sessionIds' \in Nat
    BY <1>4, UpdateTypes DEF StoreInv, StoreTypes
  <2>2. QED
    BY <1>3, <2>1 DEF Lease, StoreInv, StoreTypes
<1>6. StreamInv'
  BY <1>1, <1>3, <1>4, StreamStep DEF StoreInv
<1>7. OwnerInv'
  BY <1>1, <1>3, OwnerStep DEF Lease, StoreInv
<1>8. QED
  BY <1>5, <1>6, <1>7 DEF StoreInv

LEMMA EnsureSessionInv ==
  ASSUME StoreInv, NEW a \in Acts, EnsureSession(a)
  PROVE  StoreInv'
<1> DEFINE b == act[a].bot
           w == act[a].chat
           new == bindings'[b][w]
<1>1. b \in Hosts /\ w \in Chats
  BY DEF EnsureSession, At, StoreInv, StoreTypes, ActsTyped
<1>2. Update(b, w, 0)
  BY DEF EnsureSession
<1>3. bindings' \in [Hosts -> [Chats -> Bindings]] /\ sessionIds' \in Nat
  BY <1>1, <1>2, UpdateTypes DEF StoreInv
<1>4. new.session \in Nat /\ new.meta \in Nat
  BY <1>1, <1>3 DEF Bindings
<1>5. PICK F : act[a] \in ActRecords(F)
  BY BegunAct DEF StoreInv, StoreTypes
<1>6. act' = [act EXCEPT ![a].step = "ensured", ![a].session = new.session,
                         ![a].meta = new.meta]
  BY DEF EnsureSession
<1> HIDE DEF new
<1> DEFINE to == [act[a] EXCEPT !.step = "ensured", !.session = new.session,
                                !.meta = new.meta]
<1>7. /\ to \in ActRecords(F) /\ to.step = "ensured" /\ to.session = new.session
      /\ to.bot = b /\ to.chat = w
  BY <1>4, <1>5 DEF ActRecords, ActSteps
<1>8. act' = [act EXCEPT ![a] = to]
  <2>1. PICK G : act \in [Acts -> ActRecords(G)]
    BY DEF StoreInv, StoreTypes, ActsTyped
  <2>2. QED
    BY <1>6, <2>1 DEF ActRecords
<1> HIDE DEF to
<1>9. ActsTyped' /\ act'[a] = to /\ \A x \in Acts \ {a} : act'[x] = act[x]
  BY <1>1, <1>7, <1>8, ActStepTyped DEF StoreInv, StoreTypes
<1>10. StoreTypes'
  BY <1>3, <1>9 DEF EnsureSession, OwnersKept, StoreInv, StoreTypes
<1>11. StreamInv'
  <2>1. \E c \in Hosts, x \in Chats, m \in Nat : Update(c, x, m)
    BY <1>1, <1>2
  <2>2. bindings'[act'[a].bot][act'[a].chat].session = act'[a].session
    BY <1>7, <1>9 DEF new
  <2>3. act'[a].step # "idle"
    BY <1>7, <1>9
  <2>4. QED
    BY <1>9, <2>1, <2>2, <2>3, StreamStep DEF StoreInv
<1>12. OwnerInv'
  BY <1>7, <1>9, OwnerStep DEF EnsureSession, OwnersKept, StoreInv
<1>13. QED
  BY <1>10, <1>11, <1>12 DEF StoreInv

LEMMA BindIfChangedInv ==
  ASSUME StoreInv, NEW a \in Acts, BindIfChanged(a)
  PROVE  StoreInv'
<1> DEFINE b == act[a].bot
           w == act[a].chat
           m == IF window[w] = 0 THEN Private ELSE window[w]
           id == bindings'[b][w].session
<1>1. b \in Hosts /\ w \in Chats
  BY DEF BindIfChanged, At, StoreInv, StoreTypes, ActsTyped
<1>2. m \in Nat
  BY <1>1, WorkspaceStoreAssumption DEF StoreInv, StoreTypes, Private
<1> HIDE DEF m
<1>3. UNCHANGED <<bindings, sessionIds>> \/ Update(b, w, m)
  BY DEF BindIfChanged, m
<1>4. bindings' \in [Hosts -> [Chats -> Bindings]] /\ sessionIds' \in Nat
  BY <1>1, <1>2, <1>3, UpdateTypes DEF StoreInv, StoreTypes
<1>5. id \in Nat
  BY <1>1, <1>4 DEF Bindings
<1>6. PICK F : act[a] \in ActRecords(F)
  BY BegunAct DEF StoreInv, StoreTypes
<1>7. act' = [act EXCEPT ![a].step = "runs", ![a].meta = 0, ![a].session = id]
  BY DEF BindIfChanged
<1> HIDE DEF id
<1> DEFINE to == [act[a] EXCEPT !.step = "runs", !.meta = 0, !.session = id]
<1>8. /\ to \in ActRecords(F) /\ to.step = "runs" /\ to.session = id
      /\ to.bot = b /\ to.chat = w
  BY <1>5, <1>6 DEF ActRecords, ActSteps
<1>9. act' = [act EXCEPT ![a] = to]
  <2>1. PICK G : act \in [Acts -> ActRecords(G)]
    BY DEF StoreInv, StoreTypes, ActsTyped
  <2>2. QED
    BY <1>7, <2>1 DEF ActRecords
<1> HIDE DEF to
<1>10. ActsTyped' /\ act'[a] = to /\ \A x \in Acts \ {a} : act'[x] = act[x]
  BY <1>1, <1>8, <1>9, ActStepTyped DEF StoreInv, StoreTypes
<1>11. StoreTypes'
  BY <1>4, <1>10 DEF BindIfChanged, OwnersKept, StoreInv, StoreTypes
<1>12. StreamInv'
  <2>1. \/ UNCHANGED <<bindings, sessionIds>>
        \/ \E c \in Hosts, x \in Chats, n \in Nat : Update(c, x, n)
    BY <1>1, <1>2, <1>3
  <2>2. bindings'[act'[a].bot][act'[a].chat].session = act'[a].session
    BY <1>8, <1>10 DEF id
  <2>3. act'[a].step # "idle"
    BY <1>8, <1>10
  <2>4. QED
    BY <1>10, <2>1, <2>2, <2>3, StreamStep DEF StoreInv
<1>13. OwnerInv'
  BY <1>8, <1>10, OwnerStep DEF BindIfChanged, OwnersKept, StoreInv
<1>14. QED
  BY <1>11, <1>12, <1>13 DEF StoreInv

\* The cursor is no part of a stream.
LEMMA EndTurnInv ==
  ASSUME StoreInv, NEW a \in Acts, EndTurn(a)
  PROVE  StoreInv'
<1> DEFINE b == act[a].bot
           w == act[a].chat
<1>1. b \in Hosts /\ w \in Chats
  BY DEF EndTurn, At, StoreInv, StoreTypes, ActsTyped
<1>2. ActsTyped' /\ act'[a] = NoAct /\ \A x \in Acts \ {a} : act'[x] = act[x]
  BY NoActTyped, ActStepTyped DEF EndTurn, StoreInv, StoreTypes
<1> DEFINE new == [bindings[b][w] EXCEPT !.cursor = TRUE]
<1>3. bindings[b][w] \in Bindings
  BY <1>1 DEF StoreInv, StoreTypes
<1>4. new \in Bindings /\ new.session = bindings[b][w].session
  BY <1>3 DEF Bindings
<1>5. bindings' = bindings \/ bindings' = [bindings EXCEPT ![b] = [bindings[b] EXCEPT ![w] = new]]
  BY <1>1, <1>3 DEF EndTurn, StoreInv, StoreTypes, Bindings
<1> HIDE DEF new
<1>6. /\ bindings' \in [Hosts -> [Chats -> Bindings]]
      /\ \A c \in Hosts, x \in Chats : bindings'[c][x].session = bindings[c][x].session
  <2>1. CASE bindings' = bindings
    BY <2>1 DEF StoreInv, StoreTypes
  <2>2. CASE bindings' = [bindings EXCEPT ![b] = [bindings[b] EXCEPT ![w] = new]]
    <3>1. bindings \in [Hosts -> [Chats -> Bindings]]
      BY DEF StoreInv, StoreTypes
    <3>2. bindings' \in [Hosts -> [Chats -> Bindings]]
      BY <1>1, <1>4, <2>2, <3>1
    <3>3. \A c \in Hosts, x \in Chats :
             bindings'[c][x] = IF c = b /\ x = w THEN new ELSE bindings[c][x]
      BY <1>1, <2>2, <3>1
    <3>4. QED
      BY <1>4, <3>2, <3>3
  <2>3. QED
    BY <1>5, <2>1, <2>2
<1>7. StoreTypes'
  BY <1>2, <1>6 DEF EndTurn, OwnersKept, StoreInv, StoreTypes
<1>8. StreamInv'
  <2>1. IdsUnique'
    <3>1. IdsUnique /\ sessionIds' = sessionIds
      BY DEF EndTurn, StoreInv, StreamInv
    <3>2. \A c \in Hosts, x \in Chats : bindings'[c][x].session = bindings[c][x].session
      BY <1>6
    <3>3. QED
      BY <3>1, <3>2 DEF IdsUnique
  <2>2. TurnHasStream'
    BY <1>2, <1>6, NoActTyped DEF StoreInv, StreamInv, TurnHasStream, StoreTypes, ActsTyped
  <2>3. QED
    BY <2>1, <2>2 DEF StreamInv
<1>9. OwnerInv'
  BY <1>2, NoActTyped, OwnerStep DEF EndTurn, OwnersKept, StoreInv
<1>10. QED
  BY <1>7, <1>8, <1>9 DEF StoreInv

\* A step of a turn that keeps its window and its stream, and no binding.
LEMMA TurnStep ==
  ASSUME StoreInv, NEW a \in Acts, NEW F, NEW to \in ActRecords(F), BindingsKept,
         act' = [act EXCEPT ![a] = to],
         to.session = 0 \/ (to.session = act[a].session /\ to.step # "idle"),
         to.step # "idle" => act[a].step # "idle" /\ to.bot = act[a].bot /\ to.chat = act[a].chat,
         to.step \in {"record", "others"} => to.task \in Goals,
         owners' \in [Hosts -> [Goals -> Hosts \cup {NoHost}]]
  PROVE  /\ StoreTypes' /\ StreamInv'
         /\ act'[a] = to /\ \A x \in Acts \ {a} : act'[x] = act[x]
<1>1. to.step # "idle" => to.bot \in Hosts /\ to.chat \in Chats
  BY DEF StoreInv, StoreTypes, ActsTyped
<1>2. ActsTyped' /\ act'[a] = to /\ \A x \in Acts \ {a} : act'[x] = act[x]
  BY <1>1, ActStepTyped DEF StoreInv, StoreTypes
<1>3. StoreTypes'
  BY <1>2 DEF BindingsKept, StoreInv, StoreTypes
<1>4. \/ act'[a].session = 0
      \/ /\ act'[a].step # "idle"
         /\ bindings'[act'[a].bot][act'[a].chat].session = act'[a].session
  BY <1>2 DEF BindingsKept, StoreInv, StreamInv, TurnHasStream
<1>5. StreamInv'
  BY <1>2, <1>4, StreamStep DEF BindingsKept, StoreInv
<1>6. QED
  BY <1>2, <1>3, <1>5

LEMMA RememberNewTaskInv ==
  ASSUME StoreInv, NEW a \in Acts, NEW t \in Goals, RememberNewTask(a, t)
  PROVE  StoreInv'
<1>1. PICK F : act \in [Acts -> ActRecords(F)]
  BY DEF StoreInv, StoreTypes, ActsTyped
<1> DEFINE to == [act[a] EXCEPT !.step = "record", !.task = t]
<1>2. /\ to \in ActRecords(F) /\ to.step = "record" /\ to.task = t
      /\ to.session = act[a].session /\ to.bot = act[a].bot /\ to.chat = act[a].chat
  BY ZenonT(60), <1>1 DEF ActRecords, ActSteps
<1>3. act' = [act EXCEPT ![a] = to]
  BY <1>1 DEF RememberNewTask, ActRecords
<1> HIDE DEF to
<1>4. act[a].step = "runs" /\ BindingsKept /\ owners' = owners
  BY DEF RememberNewTask, At
<1>5. /\ StoreTypes' /\ StreamInv'
      /\ act'[a] = to /\ \A x \in Acts \ {a} : act'[x] = act[x]
  BY <1>2, <1>3, <1>4, TurnStep DEF StoreInv, StoreTypes
<1>6. OwnerInv'
  BY <1>2, <1>4, <1>5, OwnerStep DEF StoreInv
<1>7. QED
  BY <1>5, <1>6 DEF StoreInv

\* An owner is recorded once, in its own registry.
LEMMA RecordTaskOwnerInv ==
  ASSUME StoreInv, NEW a \in Acts, RecordTaskOwner(a)
  PROVE  StoreInv'
<1> DEFINE b == act[a].bot
           t == act[a].task
<1>1. PICK F : act \in [Acts -> ActRecords(F)]
  BY DEF StoreInv, StoreTypes, ActsTyped
<1>2. act[a].step = "record" /\ b \in Hosts /\ t \in Goals /\ BindingsKept
  BY DEF RecordTaskOwner, At, StoreInv, StoreTypes, ActsTyped
<1> DEFINE to == [act[a] EXCEPT !.step = "runs", !.task = NoHost]
<1>3. /\ to \in ActRecords(F) /\ to.step = "runs"
      /\ to.session = act[a].session /\ to.bot = act[a].bot /\ to.chat = act[a].chat
  BY <1>1 DEF ActRecords, ActSteps
<1>4. act' = [act EXCEPT ![a] = to]
  BY <1>1 DEF RecordTaskOwner, ActRecords
<1> HIDE DEF to
<1>5. /\ owners' \in [Hosts -> [Goals -> Hosts \cup {NoHost}]]
      /\ \A c \in Hosts, k \in Goals :
            \/ owners'[c][k] = owners[c][k]
            \/ owners[c][k] = NoHost /\ owners'[c][k] = c
  <2>1. owners \in [Hosts -> [Goals -> Hosts \cup {NoHost}]]
    BY DEF StoreInv, StoreTypes
  <2>2. CASE owners' = owners
    BY <2>1, <2>2
  <2>3. CASE owners' = [owners EXCEPT ![b][t] = b] /\ owners[b][t] = NoHost
    <3>1. owners' \in [Hosts -> [Goals -> Hosts \cup {NoHost}]]
      BY <1>2, <2>1, <2>3
    <3>2. \A c \in Hosts, k \in Goals :
             owners'[c][k] = IF c = b /\ k = t THEN b ELSE owners[c][k]
      BY <1>2, <2>1, <2>3
    <3>3. QED
      BY <2>3, <3>1, <3>2
  <2>4. QED
    BY <2>2, <2>3 DEF RecordTaskOwner
<1>6. /\ StoreTypes' /\ StreamInv'
      /\ act'[a] = to /\ \A x \in Acts \ {a} : act'[x] = act[x]
  BY <1>2, <1>3, <1>4, <1>5, TurnStep
<1>7. OwnersOwn'
  BY <1>5 DEF StoreInv, OwnerInv, OwnersOwn
<1>8. RecordStillAhead'
  <2> SUFFICES ASSUME NEW x \in Acts, act'[x].step = "others", NEW y \in act'[x].known
               PROVE  \/ y \in act'[x].found
                      \/ y \in act'[x].unread /\ owners'[y][act'[x].task] = y
    BY DEF RecordStillAhead
  <2>1. x # a /\ act'[x] = act[x]
    BY <1>3, <1>6
  <2>2. /\ act[x].task \in Goals /\ y \in Hosts
        /\ \/ y \in act[x].found
           \/ y \in act[x].unread /\ owners[y][act[x].task] = y
    BY <1>1, <2>1 DEF StoreInv, StoreTypes, ActsTyped, OwnerInv, RecordStillAhead, ActRecords
  <2>3. QED
    BY <1>5, <2>1, <2>2, WorkspaceStoreAssumption
<1>9. RecordWins'
  BY <1>3, <1>6 DEF StoreInv, OwnerInv, RecordWins, At
<1>10. QED
  BY <1>6, <1>7, <1>8, <1>9 DEF StoreInv, OwnerInv

\* What is on record when the question is put is the bot's own, or ahead.
LEMMA AskOwnerInv ==
  ASSUME StoreInv, NEW a \in Acts, NEW t \in Goals, AskOwner(a, t)
  PROVE  StoreInv'
<1> DEFINE b == act[a].bot
           own == owners[b][t]
           known == {owners[c][t] : c \in Hosts} \ {NoHost}
           step == IF own = NoHost THEN "others" ELSE "answered"
           unread == IF own = NoHost THEN Hosts \ {b} ELSE {}
           found == {own} \ {NoHost}
<1>1. PICK F : act \in [Acts -> ActRecords(F)]
  BY DEF StoreInv, StoreTypes, ActsTyped
<1>2. act[a].step = "runs" /\ b \in Hosts /\ BindingsKept /\ owners' = owners
  BY DEF AskOwner, At, StoreInv, StoreTypes, ActsTyped
<1>3. /\ own \in Hosts \cup {NoHost}
      /\ known \subseteq Hosts /\ unread \subseteq Hosts /\ found \subseteq Hosts
      /\ step \in {"others", "answered"}
  BY <1>2 DEF StoreInv, StoreTypes
<1>4. act' = [act EXCEPT ![a].step = step, ![a].task = t, ![a].found = found,
                         ![a].unread = unread, ![a].known = known]
  BY DEF AskOwner
<1>5. own # NoHost => found \subseteq known
  BY <1>2
<1>6. \A x \in known : own = NoHost => x \in unread /\ owners[x][t] = x
  BY <1>2 DEF StoreInv, OwnerInv, OwnersOwn
<1>7. own = NoHost => step = "others"
  OBVIOUS
<1>8. own # NoHost => step = "answered"
  OBVIOUS
<1> HIDE DEF known, unread, found, step, own
<1> DEFINE to == [act[a] EXCEPT !.step = step, !.task = t, !.found = found,
                                !.unread = unread, !.known = known]
<1>9. /\ to \in ActRecords(F \cup Hosts) /\ to.step = step /\ to.task = t
      /\ to.found = found /\ to.unread = unread /\ to.known = known
      /\ to.session = act[a].session /\ to.bot = act[a].bot /\ to.chat = act[a].chat
  BY ZenonT(60), <1>1, <1>3 DEF ActRecords, ActSteps
<1>10. act' = [act EXCEPT ![a] = to]
  BY <1>1, <1>4 DEF ActRecords
<1> HIDE DEF to
<1>11. /\ StoreTypes' /\ StreamInv'
       /\ act'[a] = to /\ \A x \in Acts \ {a} : act'[x] = act[x]
  BY <1>2, <1>3, <1>9, <1>10, TurnStep DEF StoreInv, StoreTypes
<1>12. RecordStillAhead'
  BY <1>2, <1>6, <1>8, <1>9, <1>11 DEF StoreInv, OwnerInv, RecordStillAhead
<1>13. RecordWins'
  BY <1>5, <1>7, <1>9, <1>11 DEF StoreInv, OwnerInv, RecordWins, At
<1>14. OwnersOwn'
  BY <1>2 DEF StoreInv, OwnerInv, OwnersOwn
<1>15. QED
  BY <1>11, <1>12, <1>13, <1>14 DEF StoreInv, OwnerInv

\* A registry that is read tells what it has on record; one that cannot be read
\* ends the call without an owner.
LEMMA ReadOtherInv ==
  ASSUME StoreInv, NEW a \in Acts, ReadOther(a)
  PROVE  StoreInv'
<1>1. PICK F : act \in [Acts -> ActRecords(F)]
  BY DEF StoreInv, StoreTypes, ActsTyped
<1>2. /\ act[a].step = "others" /\ act[a].task \in Goals
      /\ BindingsKept /\ owners' = owners
  BY DEF ReadOther, At, StoreInv, StoreTypes, ActsTyped
<1>3. PICK c \in act[a].unread :
         LET says == IF c \in broken THEN {} ELSE {owners[c][act[a].task]} \ {NoHost} IN
         IF Denies(c)
         THEN act' = [act EXCEPT ![a].step = "answered", ![a].found = {}, ![a].unread = {}]
         ELSE act' = [act EXCEPT ![a].unread = @ \ {c}, ![a].found = @ \cup says]
  BY DEF ReadOther
<1>4. c \in Hosts
  BY <1>1 DEF ActRecords
<1>5. OwnersOwn'
  BY <1>2 DEF StoreInv, OwnerInv, OwnersOwn
<1>6. CASE c \in broken
  <2> DEFINE to == [act[a] EXCEPT !.step = "answered", !.found = {}, !.unread = {}]
  <2>1. /\ to \in ActRecords(F) /\ to.step = "answered" /\ to.found = {}
        /\ to.session = act[a].session /\ to.bot = act[a].bot /\ to.chat = act[a].chat
    BY ZenonT(60), <1>1 DEF ActRecords, ActSteps
  <2>2. act' = [act EXCEPT ![a] = to]
    BY <1>1, <1>3, <1>6 DEF ActRecords, Denies
  <2> HIDE DEF to
  <2>3. /\ StoreTypes' /\ StreamInv'
        /\ act'[a] = to /\ \A x \in Acts \ {a} : act'[x] = act[x]
    BY <1>2, <2>1, <2>2, TurnStep DEF StoreInv, StoreTypes
  <2>4. RecordStillAhead' /\ RecordWins'
    BY <1>2, <2>1, <2>3 DEF StoreInv, OwnerInv, RecordStillAhead, RecordWins, At
  <2>5. QED
    BY <1>5, <2>3, <2>4 DEF StoreInv, OwnerInv
<1>7. CASE c \notin broken
  <2> DEFINE says == {owners[c][act[a].task]} \ {NoHost}
             unread == act[a].unread \ {c}
             found == act[a].found \cup says
  <2>1. says \subseteq Hosts
    BY <1>2, <1>4 DEF StoreInv, StoreTypes
  <2>2. act' = [act EXCEPT ![a].unread = unread, ![a].found = found]
    BY <1>1, <1>3, <1>7 DEF ActRecords, Denies
  <2>3. unread \subseteq Hosts /\ found \subseteq F \cup Hosts
    BY <1>1, <2>1 DEF ActRecords
  <2>4. ASSUME NEW x \in act[a].known, x \notin found
        PROVE  x \in unread /\ owners[x][act[a].task] = x
    <3>1. x \in act[a].unread /\ owners[x][act[a].task] = x
      BY <1>2, <2>4 DEF StoreInv, OwnerInv, RecordStillAhead
    <3>2. x \in Hosts
      BY <1>1 DEF ActRecords
    <3>3. x # c
      BY <2>4, <3>1, <3>2, WorkspaceStoreAssumption
    <3>4. QED
      BY <3>1, <3>3
  <2> HIDE DEF says, unread, found
  <2> DEFINE to == [act[a] EXCEPT !.unread = unread, !.found = found]
  <2>5. /\ to \in ActRecords(F \cup Hosts) /\ to.step = "others" /\ to.task = act[a].task
        /\ to.found = found /\ to.unread = unread /\ to.known = act[a].known
        /\ to.session = act[a].session /\ to.bot = act[a].bot /\ to.chat = act[a].chat
    BY <1>1, <1>2, <2>3 DEF ActRecords, ActSteps
  <2>6. act' = [act EXCEPT ![a] = to]
    BY <1>1, <2>2 DEF ActRecords
  <2> HIDE DEF to
  <2>7. /\ StoreTypes' /\ StreamInv'
        /\ act'[a] = to /\ \A x \in Acts \ {a} : act'[x] = act[x]
    BY <1>2, <2>5, <2>6, TurnStep DEF StoreInv, StoreTypes
  <2>8. RecordStillAhead'
    BY <1>2, <2>4, <2>5, <2>7 DEF StoreInv, OwnerInv, RecordStillAhead
  <2>9. RecordWins'
    BY <2>5, <2>7 DEF StoreInv, OwnerInv, RecordWins, At
  <2>10. QED
    BY <1>5, <2>7, <2>8, <2>9 DEF StoreInv, OwnerInv
<1>8. QED
  BY <1>6, <1>7

\* Nothing is ahead any more: a recorded owner has been found.
LEMMA ReadMemoriesInv ==
  ASSUME StoreInv, NEW a \in Acts, ReadMemories(a)
  PROVE  StoreInv'
<1> DEFINE answer == Adopted(act[a].found, act[a].task)
<1>1. PICK F : act \in [Acts -> ActRecords(F)]
  BY DEF StoreInv, StoreTypes, ActsTyped
<1>2. /\ act[a].step = "others" /\ act[a].unread = {}
      /\ BindingsKept /\ owners' = owners
  BY DEF ReadMemories, At
<1>3. act[a].known \subseteq act[a].found
  BY <1>2 DEF StoreInv, OwnerInv, RecordStillAhead
<1>4. act[a].known # {} => answer \subseteq act[a].known
  BY <1>3 DEF Adopted
<1>5. act' = [act EXCEPT ![a].step = "answered", ![a].found = answer]
  BY DEF ReadMemories
<1> HIDE DEF answer
<1> DEFINE to == [act[a] EXCEPT !.step = "answered", !.found = answer]
<1>6. /\ to \in ActRecords(F \cup answer) /\ to.step = "answered"
      /\ to.found = answer /\ to.known = act[a].known
      /\ to.session = act[a].session /\ to.bot = act[a].bot /\ to.chat = act[a].chat
  BY ZenonT(60), <1>1 DEF ActRecords, ActSteps
<1>7. act' = [act EXCEPT ![a] = to]
  BY <1>1, <1>5 DEF ActRecords
<1> HIDE DEF to
<1>8. /\ StoreTypes' /\ StreamInv'
      /\ act'[a] = to /\ \A x \in Acts \ {a} : act'[x] = act[x]
  BY <1>2, <1>6, <1>7, TurnStep DEF StoreInv, StoreTypes
<1>9. OwnersOwn' /\ RecordStillAhead'
  BY <1>2, <1>6, <1>8 DEF StoreInv, OwnerInv, OwnersOwn, RecordStillAhead
<1>10. RecordWins'
  BY <1>4, <1>6, <1>8 DEF StoreInv, OwnerInv, RecordWins, At
<1>11. QED
  BY <1>8, <1>9, <1>10 DEF StoreInv, OwnerInv

LEMMA UseAnswerInv ==
  ASSUME StoreInv, NEW a \in Acts, UseAnswer(a)
  PROVE  StoreInv'
<1>1. PICK F : act[a] \in ActRecords(F)
  BY BegunAct DEF StoreInv, StoreTypes
<1>2. act[a].step = "answered" /\ BindingsKept /\ owners' = owners
  BY DEF UseAnswer, At
<1> DEFINE to == [NoAct EXCEPT !.step = "runs", !.bot = act[a].bot,
                               !.chat = act[a].chat, !.session = act[a].session]
<1>3. /\ to \in ActRecords({}) /\ to.step = "runs"
      /\ to.session = act[a].session /\ to.bot = act[a].bot /\ to.chat = act[a].chat
  BY <1>1 DEF NoAct, ActRecords, ActSteps
<1>4. act' = [act EXCEPT ![a] = to]
  BY DEF UseAnswer
<1> HIDE DEF to
<1>5. /\ StoreTypes' /\ StreamInv'
      /\ act'[a] = to /\ \A x \in Acts \ {a} : act'[x] = act[x]
  BY <1>2, <1>3, <1>4, TurnStep DEF StoreInv, StoreTypes
<1>6. OwnerInv'
  BY <1>2, <1>3, <1>5, OwnerStep DEF StoreInv
<1>7. QED
  BY <1>5, <1>6 DEF StoreInv

LEMMA DiesInv ==
  ASSUME StoreInv, NEW a \in Acts, Dies(a)
  PROVE  StoreInv'
<1> DEFINE to == NoAct
<1>1. act' = [act EXCEPT ![a] = to] /\ BindingsKept /\ owners' = owners
  BY DEF Dies
<1>2. to \in ActRecords({}) /\ to.session = 0 /\ to.step = "idle"
  BY NoActTyped
<1> HIDE DEF to
<1>3. /\ StoreTypes' /\ StreamInv'
      /\ act'[a] = to /\ \A x \in Acts \ {a} : act'[x] = act[x]
  BY <1>1, <1>2, TurnStep DEF StoreInv, StoreTypes
<1>4. OwnerInv'
  BY <1>1, <1>2, <1>3, OwnerStep DEF StoreInv
<1>5. QED
  BY <1>3, <1>4 DEF StoreInv

\* Entries, damage and windows are no part of what turns and registries hold.
LEMMA OutsideInv ==
  ASSUME StoreInv, UNCHANGED <<bindings, sessionIds, owners, act>>,
         window' \in [Chats -> Nat]
  PROVE  StoreInv'
BY DEF StoreInv, StoreTypes, ActsTyped, StreamInv, IdsUnique, TurnHasStream, OwnerInv,
       OwnersOwn, RecordStillAhead, RecordWins, At

LEMMA StoreNextInv == StoreInv /\ [StoreNext]_storeVars => StoreInv'
<1> SUFFICES ASSUME StoreInv, [StoreNext]_storeVars
             PROVE  StoreInv'
  OBVIOUS
<1>1. CASE UNCHANGED storeVars
  BY <1>1, OutsideInv DEF storeVars, StoreInv, StoreTypes
<1>2. ASSUME NEW a \in Acts, NEW b \in Hosts, NEW w \in Chats, Lease(a, b, w)
      PROVE  StoreInv'
  BY <1>2, ActInv
<1>3. ASSUME NEW a \in Acts, EnsureSession(a) \/ BindIfChanged(a) \/ EndTurn(a)
      PROVE  StoreInv'
  BY <1>3, EnsureSessionInv, BindIfChangedInv, EndTurnInv
<1>4. ASSUME NEW a \in Acts, RecordTaskOwner(a) \/ ReadOther(a) \/ ReadMemories(a)
      PROVE  StoreInv'
  BY <1>4, RecordTaskOwnerInv, ReadOtherInv, ReadMemoriesInv
<1>5. ASSUME NEW a \in Acts, UseAnswer(a) \/ Dies(a)
      PROVE  StoreInv'
  BY <1>5, UseAnswerInv, DiesInv
<1>6. ASSUME NEW a \in Acts, NEW t \in Goals, RememberNewTask(a, t) \/ AskOwner(a, t)
      PROVE  StoreInv'
  BY <1>6, RememberNewTaskInv, AskOwnerInv
<1>7. ASSUME NEW w \in Chats, Rewindow(w)
      PROVE  StoreInv'
  BY <1>7, OutsideInv DEF Rewindow, StoreInv, StoreTypes
<1>8. ASSUME NEW t \in Goals, Remember(t)
      PROVE  StoreInv'
  BY <1>8, OutsideInv DEF Remember, BindingsKept, StoreInv, StoreTypes
<1>9. ASSUME NEW i \in DOMAIN entries, DropEntry(i)
      PROVE  StoreInv'
  BY <1>9, OutsideInv DEF DropEntry, BindingsKept, StoreInv, StoreTypes
<1>10. ASSUME NEW b \in Hosts, Damage(b)
       PROVE  StoreInv'
  BY <1>10, OutsideInv DEF Damage, BindingsKept, StoreInv, StoreTypes
<1>11. QED
  BY <1>1, <1>2, <1>3, <1>4, <1>5, <1>6, <1>7, <1>8, <1>9, <1>10 DEF StoreNext

-----------------------------------------------------------------------------
(* The theorems                                                            *)

\* However many turns of however many processes open a window at once, fail
\* and change it, the stream of a turn is its window's and no other's
\* (bots/workspace_store.py); and whatever registries are damaged and entries
\* forgotten, a task on record is nobody else's (bots/channel_tools.py).
THEOREM RegistryIsSafe == StoreSpec => []RegistrySafe
<1>1. StoreInv => RegistrySafe
  <2> SUFFICES ASSUME StoreInv
               PROVE  RegistrySafe
    OBVIOUS
  <2>1. ASSUME NEW a \in Acts, act[a].session # 0, NEW b \in Hosts, NEW w \in Chats
        PROVE  bindings[b][w].session = act[a].session <=> b = act[a].bot /\ w = act[a].chat
    <3>1. /\ act[a].bot \in Hosts /\ act[a].chat \in Chats
          /\ bindings[act[a].bot][act[a].chat].session = act[a].session
      BY <2>1 DEF StoreInv, StoreTypes, ActsTyped, StreamInv, TurnHasStream
    <3>2. QED
      BY <2>1, <3>1 DEF StoreInv, StreamInv, IdsUnique
  <2>2. StreamIsStable
    BY <2>1 DEF StreamIsStable
  <2>3. QED
    BY <2>2 DEF StoreInv, OwnerInv, RegistrySafe
<1>2. QED
  BY <1>1, StoreInitInv, StoreNextInv, PTL DEF StoreSpec

-----------------------------------------------------------------------------
(***************************************************************************)
(* Live status: for any bots, windows and calls, and any number of turns.  *)
(*                                                                         *)
(* StatusInv is inductive. That the cards show what runs needs that a      *)
(* turn which is off the record was ended or dropped, and that the turn a  *)
(* bot runs is its last (RunningOnRecord); that the record's calls are those in flight *)
(* (CallsOnRecord); and that a latch of an earlier turn never hides one    *)
(* that runs (NothingLatched).                                             *)
(***************************************************************************)
SpanTurns == [bot : Agents, room : Windows, turn : {"run", "lost", "closing", "over"},
              phase : {"setup", "llm", "turn"}, calls : SUBSET {<<CallName[i], i>> : i \in Invocations},
              wait : {NoLatch, "waiting", "error"}]

StatusTypes ==
    /\ spans \in Seq(SpanTurns) /\ Len(spans) <= MaxSpans
    /\ active \subseteq DOMAIN spans /\ dropped \subseteq DOMAIN spans
    /\ latches \in [Agents \X Windows -> {NoLatch, "waiting", "error", "done"}]
    /\ flying \in [1..MaxSpans -> SUBSET Invocations]
    /\ owed \subseteq Agents \X Windows

\* The record is of the turns that run, each the last of its bot, and of those
\* that were abandoned.
RunningOnRecord ==
    /\ \A s, t \in DOMAIN spans :
        spans[s].turn = "run" /\ spans[s].bot = spans[t].bot => t <= s
    /\ \A s \in DOMAIN spans :
        s \in active <=> spans[s].turn \in {"run", "lost"} /\ s \notin dropped

\* The calls of a turn on record are those that fly; a turn that has not begun,
\* or is in its setup, or was abandoned there, has none.
CallsOnRecord ==
    /\ \A s \in active :
        /\ spans[s].calls = {<<CallName[i], i>> : i \in flying[s]}
        /\ spans[s].turn = "lost" \/ spans[s].phase = "setup" => flying[s] = {}
    /\ \A s \in 1..MaxSpans : s \notin DOMAIN spans => flying[s] = {}

\* While a turn runs on record nothing is latched where it works.
NothingLatched == \A s \in active : spans[s].turn = "run" => latches[Key(s)] = NoLatch

StatusInv ==
    StatusTypes /\ RunningOnRecord /\ CallsOnRecord /\ NothingLatched /\ QuestionsWait

-----------------------------------------------------------------------------
\* What is in a turn's record.
LEMMA SpanTypes ==
    ASSUME StatusTypes
    PROVE  /\ Len(spans) \in Nat /\ DOMAIN spans = 1..Len(spans)
           /\ \A s \in DOMAIN spans :
                /\ spans[s] \in SpanTurns
                /\ spans[s].bot \in Agents /\ spans[s].room \in Windows
                /\ Key(s) \in Agents \X Windows
                /\ s \in 1..MaxSpans
<1>1. spans \in Seq(SpanTurns) /\ Len(spans) <= MaxSpans /\ MaxSpans \in Nat
  BY AgentStatusAssumption DEF StatusTypes
<1>2. Len(spans) \in Nat /\ DOMAIN spans = 1..Len(spans)
  BY <1>1, LenProperties
<1>3. \A s \in DOMAIN spans : spans[s] \in SpanTurns
  BY <1>1, <1>2, ElementOfSeq
<1>4. \A s \in DOMAIN spans : spans[s].bot \in Agents /\ spans[s].room \in Windows
  BY <1>3 DEF SpanTurns
<1>5. \A s \in DOMAIN spans : s \in 1..MaxSpans
  BY <1>1, <1>2
<1> QED
  BY <1>2, <1>3, <1>4, <1>5 DEF Key

\* The record of one turn changes.
LEMMA SpanReplaced ==
    ASSUME StatusTypes, NEW s \in DOMAIN spans, NEW rec \in SpanTurns,
           spans' = [spans EXCEPT ![s] = rec]
    PROVE  /\ spans' \in Seq(SpanTurns) /\ Len(spans') = Len(spans)
           /\ DOMAIN spans' = DOMAIN spans /\ spans'[s] = rec
           /\ \A t \in DOMAIN spans : t # s => spans'[t] = spans[t]
<1>1. spans \in Seq(SpanTurns)
  BY DEF StatusTypes
<1>2. Len(spans) \in Nat /\ DOMAIN spans = 1..Len(spans)
  BY SpanTypes
<1>3. spans' \in Seq(SpanTurns) /\ Len(spans') = Len(spans)
  BY <1>1, <1>2, ExceptSeq
<1> QED
  BY <1>2, <1>3

\* A change of what a turn does leaves it where it is and running.
LEMMA PhaseOf ==
    ASSUME NEW rec \in SpanTurns, NEW p \in {"llm", "turn"}
    PROVE  LET new == [rec EXCEPT !.phase = p]
           IN  /\ new \in SpanTurns /\ new.bot = rec.bot /\ new.room = rec.room
               /\ new.turn = rec.turn /\ new.calls = rec.calls /\ new.wait = rec.wait
               /\ new.phase = p
BY DEF SpanTurns

LEMMA CallsOf ==
    ASSUME NEW rec \in SpanTurns,
           NEW c \in SUBSET {<<CallName[i], i>> : i \in Invocations}
    PROVE  LET new == [rec EXCEPT !.phase = "turn", !.calls = c]
           IN  /\ new \in SpanTurns /\ new.bot = rec.bot /\ new.room = rec.room
               /\ new.turn = rec.turn /\ new.calls = c /\ new.wait = rec.wait
               /\ new.phase = "turn"
BY DEF SpanTurns

LEMMA WaitOf ==
    ASSUME NEW rec \in SpanTurns, NEW w \in {"waiting", "error"}
    PROVE  LET new == [rec EXCEPT !.wait = w]
           IN  /\ new \in SpanTurns /\ new.bot = rec.bot /\ new.room = rec.room
               /\ new.turn = rec.turn /\ new.calls = rec.calls /\ new.wait = w
               /\ new.phase = rec.phase
BY DEF SpanTurns

LEMMA TurnOf ==
    ASSUME NEW rec \in SpanTurns
    PROVE  /\ LET new == [rec EXCEPT !.turn = "closing", !.phase = "turn",
                                     !.calls = {}, !.wait = NoLatch]
              IN  /\ new \in SpanTurns /\ new.bot = rec.bot /\ new.room = rec.room
                  /\ new.turn = "closing"
           /\ LET new == [rec EXCEPT !.turn = "over"]
              IN  /\ new \in SpanTurns /\ new.bot = rec.bot /\ new.room = rec.room
                  /\ new.turn = "over"
           /\ LET new == [rec EXCEPT !.turn = "lost"]
              IN  /\ new \in SpanTurns /\ new.bot = rec.bot /\ new.room = rec.room
                  /\ new.turn = "lost" /\ new.calls = rec.calls
BY DEF SpanTurns, NoLatch

-----------------------------------------------------------------------------
LEMMA StatusStarts == StatusInit => StatusInv
<1> SUFFICES ASSUME StatusInit PROVE StatusInv
  OBVIOUS
<1>1. spans = <<>> /\ spans \in Seq(SpanTurns) /\ Len(spans) = 0 /\ DOMAIN spans = {}
  BY DEF StatusInit
<1>2. StatusTypes
  BY <1>1, AgentStatusAssumption DEF StatusInit, StatusTypes
<1> QED
  BY <1>1, <1>2 DEF StatusInit, StatusInv, RunningOnRecord, CallsOnRecord, NothingLatched,
      QuestionsWait

LEMMA BeginSpanKeeps ==
    ASSUME StatusInv, NEW b \in Agents, NEW r \in Windows, BeginSpan(b, r)
    PROVE  StatusInv'
<1>a. Len(spans) \in Nat
  BY SpanTypes DEF StatusInv
<1>b. PICK s \in Nat : s = Len(spans) + 1
  BY <1>a
<1> DEFINE rec == [bot |-> b, room |-> r, turn |-> "run",
                   phase |-> "setup", calls |-> {}, wait |-> NoLatch]
<1>1. /\ s <= MaxSpans /\ RunningTurns(b) = {}
      /\ spans' = Append(spans, rec)
      /\ active' = active \cup {s}
      /\ latches' = Cleared({<<b, r>>})
      /\ owed' = owed \ {<<b, r>>}
      /\ UNCHANGED <<flying, dropped>>
  BY <1>b DEF BeginSpan
<1>2. rec \in SpanTurns /\ rec.bot = b /\ rec.room = r /\ rec.turn = "run" /\ rec.calls = {}
  BY DEF SpanTurns
<1> HIDE DEF rec
<1>3. StatusTypes /\ spans \in Seq(SpanTurns)
  BY DEF StatusInv, StatusTypes
<1>4. Len(spans) \in Nat /\ DOMAIN spans = 1..Len(spans) /\ MaxSpans \in Nat
  BY <1>3, SpanTypes, AgentStatusAssumption
<1>5. /\ spans' \in Seq(SpanTurns) /\ Len(spans') = Len(spans) + 1
      /\ \A t \in DOMAIN spans : spans'[t] = spans[t]
      /\ spans'[s] = rec
  BY <1>b, <1>1, <1>2, <1>3, <1>4, AppendProperties
<1>6. DOMAIN spans' = DOMAIN spans \cup {s} /\ s \notin DOMAIN spans /\ s \in 1..MaxSpans
  <2>1. DOMAIN spans' = 1..Len(spans')
    BY <1>5, LenProperties
  <2> QED
    BY <1>b, <1>1, <1>4, <1>5, <2>1
<1>7. /\ latches' \in [Agents \X Windows -> {NoLatch, "waiting", "error", "done"}]
      /\ \A k \in Agents \X Windows :
            latches'[k] = IF k = <<b, r>> THEN NoLatch ELSE latches[k]
  BY <1>1, <1>3 DEF StatusTypes, Cleared
<1>8. StatusTypes'
  BY <1>b, <1>1, <1>3, <1>4, <1>5, <1>6, <1>7 DEF StatusTypes
<1>9. RunningOnRecord'
  <2>1. \A t \in DOMAIN spans : spans[t].turn = "run" => spans[t].bot # b
    BY <1>1 DEF RunningTurns
  <2>2. s \notin dropped
    BY <1>3, <1>6 DEF StatusTypes
  <2>3. \A t, u \in DOMAIN spans' :
           spans'[t].turn = "run" /\ spans'[t].bot = spans'[u].bot => u <= t
    <3>1. \A u \in DOMAIN spans : u <= s
      BY <1>4, <1>b
    <3>2. \A t \in DOMAIN spans : spans'[t].turn = "run" => spans'[t].bot # rec.bot
      BY <1>2, <1>5, <2>1
    <3> QED
      BY <1>2, <1>5, <1>6, <3>1, <3>2 DEF StatusInv, RunningOnRecord
  <2>4. \A t \in DOMAIN spans' :
           t \in active' <=> spans'[t].turn \in {"run", "lost"} /\ t \notin dropped'
    BY <1>1, <1>2, <1>5, <1>6, <2>2 DEF StatusInv, RunningOnRecord
  <2> QED
    BY <2>3, <2>4 DEF RunningOnRecord
<1>10. CallsOnRecord'
  <2>1. flying[s] = {}
    BY <1>6 DEF StatusInv, CallsOnRecord
  <2> QED
    BY <1>1, <1>2, <1>3, <1>5, <1>6, <2>1 DEF StatusInv, CallsOnRecord, StatusTypes
<1>11. \A t \in active : t \in DOMAIN spans /\ Key(t)' = Key(t)
                         /\ Key(t) \in Agents \X Windows
  BY <1>3, <1>5, SpanTypes DEF StatusTypes, Key
<1>12. Key(s)' = <<b, r>>
  BY <1>2, <1>5 DEF Key
<1>13. NothingLatched'
  <2>1. \A t \in active : spans'[t].turn = "run" => latches'[Key(t)] = NoLatch
    BY <1>5, <1>7, <1>11 DEF StatusInv, NothingLatched
  <2>2. latches'[<<b, r>>] = NoLatch
    BY <1>7
  <2> QED
    BY <1>1, <1>11, <1>12, <2>1, <2>2 DEF NothingLatched
<1>14. QuestionsWait'
  <2> SUFFICES ASSUME NEW k \in owed, k # <<b, r>>
               PROVE  \/ latches'[k] = "waiting"
                      \/ \E t \in active' :
                            /\ Key(t)' = k
                            /\ spans'[t].turn = "run" => spans'[t].wait = "waiting"
    BY <1>1 DEF QuestionsWait
  <2>1. k \in Agents \X Windows
    BY <1>3 DEF StatusTypes
  <2>2. CASE latches[k] = "waiting"
    BY <1>7, <2>1, <2>2
  <2>3. ASSUME NEW t \in active, Key(t) = k,
               spans[t].turn = "run" => spans[t].wait = "waiting"
        PROVE  /\ t \in active' /\ Key(t)' = k
               /\ spans'[t].turn = "run" => spans'[t].wait = "waiting"
    BY <1>1, <1>5, <1>11, <2>3
  <2> QED
    BY <2>2, <2>3 DEF StatusInv, QuestionsWait
<1> QED
  BY <1>8, <1>9, <1>10, <1>13, <1>14 DEF StatusInv

\* What a step that changes only the record of one turn, which stays what it is,
\* and keeps its card, leaves of the invariant.
LEMMA RecordChanges ==
    ASSUME StatusInv, NEW s \in active, NEW rec \in SpanTurns,
           spans' = [spans EXCEPT ![s] = rec],
           rec.bot = spans[s].bot, rec.room = spans[s].room, rec.turn = spans[s].turn,
           UNCHANGED <<active, latches, dropped>>,
           flying' \in [1..MaxSpans -> SUBSET Invocations],
           \A t \in 1..MaxSpans : t # s => flying'[t] = flying[t],
           rec.calls = {<<CallName[i], i>> : i \in flying'[s]},
           rec.turn = "lost" \/ rec.phase = "setup" => flying'[s] = {},
           owed' \subseteq Agents \X Windows,
           QuestionsWait'
    PROVE  StatusInv'
<1>1. StatusTypes /\ s \in DOMAIN spans
  BY DEF StatusInv, StatusTypes
<1>2. /\ spans' \in Seq(SpanTurns) /\ Len(spans') = Len(spans)
      /\ DOMAIN spans' = DOMAIN spans /\ spans'[s] = rec
      /\ \A t \in DOMAIN spans : t # s => spans'[t] = spans[t]
  BY <1>1, SpanReplaced
<1>3. \A t \in DOMAIN spans : /\ spans'[t].bot = spans[t].bot /\ spans'[t].turn = spans[t].turn
                              /\ Key(t)' = Key(t)
  BY <1>2 DEF Key
<1>4. StatusTypes'
  BY <1>1, <1>2 DEF StatusTypes
<1>5. RunningOnRecord'
  BY <1>2, <1>3 DEF StatusInv, RunningOnRecord
<1>6. CallsOnRecord'
  <2>1. \A t \in active : t \in 1..MaxSpans /\ t \in DOMAIN spans
    BY <1>1, SpanTypes DEF StatusTypes
  <2> QED
    BY <1>1, <1>2, <2>1 DEF StatusInv, CallsOnRecord
<1>7. NothingLatched'
  BY <1>1, <1>3 DEF StatusInv, StatusTypes, NothingLatched
<1> QED
  BY <1>4, <1>5, <1>6, <1>7 DEF StatusInv

\* What is owed stays owed where keys and cards are what they were.
LEMMA WaitsKept ==
    ASSUME QuestionsWait, UNCHANGED <<active, latches, owed>>,
           \A t \in active : /\ Key(t)' = Key(t) /\ spans'[t].wait = spans[t].wait
                             /\ spans'[t].turn = "run" => spans[t].turn = "run"
    PROVE  QuestionsWait'
<1> SUFFICES ASSUME NEW k \in owed
             PROVE  \/ latches[k] = "waiting"
                    \/ \E t \in active :
                          /\ Key(t)' = k
                          /\ spans'[t].turn = "run" => spans'[t].wait = "waiting"
  BY DEF QuestionsWait
<1>1. CASE latches[k] = "waiting"
  BY <1>1
<1>2. ASSUME NEW t \in active, Key(t) = k, spans[t].turn = "run" => spans[t].wait = "waiting"
      PROVE  Key(t)' = k /\ (spans'[t].turn = "run" => spans'[t].wait = "waiting")
  <2>1. /\ Key(t)' = Key(t) /\ spans'[t].wait = spans[t].wait
        /\ spans'[t].turn = "run" => spans[t].turn = "run"
    BY DEF Key
  <2> QED
    BY <1>2, <2>1
<1> QED
  BY <1>1, <1>2 DEF QuestionsWait

LEMMA ObserveModelKeeps ==
    ASSUME StatusInv, NEW s \in DOMAIN spans, NEW p \in {"llm", "turn"}, ObserveModel(s, p)
    PROVE  StatusInv'
<1> DEFINE rec == [spans[s] EXCEPT !.phase = p]
<1>1. StatusTypes /\ s \in active /\ spans[s] \in SpanTurns
  BY SpanTypes DEF StatusInv, ObserveModel
<1>2. spans' = [spans EXCEPT ![s] = rec] /\ UNCHANGED <<active, latches, flying, dropped, owed>>
  BY DEF ObserveModel
<1>3. /\ rec \in SpanTurns /\ rec.bot = spans[s].bot /\ rec.room = spans[s].room
      /\ rec.turn = spans[s].turn /\ rec.calls = spans[s].calls /\ rec.wait = spans[s].wait
      /\ rec.phase = p /\ rec.turn = "run"
  BY <1>1, PhaseOf DEF ObserveModel
<1> HIDE DEF rec
<1>4. /\ spans'[s] = rec /\ \A t \in DOMAIN spans : t # s => spans'[t] = spans[t]
  BY <1>1, <1>2, <1>3, SpanReplaced
<1>5. \A t \in active : /\ Key(t)' = Key(t) /\ spans'[t].wait = spans[t].wait
                        /\ spans'[t].turn = spans[t].turn
  BY <1>1, <1>3, <1>4 DEF Key, StatusTypes
<1>6. QuestionsWait'
  BY <1>2, <1>5, WaitsKept DEF StatusInv
<1>7. /\ rec.calls = {<<CallName[i], i>> : i \in flying'[s]}
      /\ flying' \in [1..MaxSpans -> SUBSET Invocations] /\ owed' \subseteq Agents \X Windows
  BY <1>1, <1>2, <1>3 DEF StatusInv, StatusTypes, CallsOnRecord
<1> QED
  BY <1>1, <1>2, <1>3, <1>6, <1>7, RecordChanges

\* A call that starts or returns.
LEMMA CallsChange ==
    ASSUME StatusInv, NEW s \in active, spans[s].turn = "run", NEW its \in SUBSET Invocations,
           spans' = [spans EXCEPT ![s].phase = "turn",
                                  ![s].calls = {<<CallName[i], i>> : i \in its}],
           flying' = [flying EXCEPT ![s] = its],
           UNCHANGED <<active, latches, dropped, owed>>
    PROVE  StatusInv'
<1> DEFINE calls == {<<CallName[i], i>> : i \in its}
<1> DEFINE rec == [spans[s] EXCEPT !.phase = "turn", !.calls = calls]
<1>1. StatusTypes /\ s \in DOMAIN spans
  BY DEF StatusInv, StatusTypes
<1>2. spans[s] \in SpanTurns /\ s \in 1..MaxSpans
  BY <1>1, SpanTypes
<1>3. spans' = [spans EXCEPT ![s] = rec]
  OBVIOUS
<1>4. calls \in SUBSET {<<CallName[i], i>> : i \in Invocations}
  OBVIOUS
<1>5. flying'[s] = its
  BY <1>1, <1>2 DEF StatusTypes
<1>6. calls = {<<CallName[i], i>> : i \in flying'[s]}
  BY <1>5
<1> HIDE DEF calls
<1>7. /\ rec \in SpanTurns /\ rec.bot = spans[s].bot /\ rec.room = spans[s].room
      /\ rec.turn = spans[s].turn /\ rec.calls = calls /\ rec.wait = spans[s].wait
      /\ rec.phase = "turn"
  BY <1>2, <1>4, CallsOf
<1> HIDE DEF rec
<1>8. /\ spans'[s] = rec /\ \A t \in DOMAIN spans : t # s => spans'[t] = spans[t]
  BY <1>1, <1>3, <1>7, SpanReplaced
<1>9. \A t \in active : /\ Key(t)' = Key(t) /\ spans'[t].wait = spans[t].wait
                        /\ spans'[t].turn = spans[t].turn
  BY <1>1, <1>7, <1>8 DEF Key, StatusTypes
<1>10. QuestionsWait /\ UNCHANGED <<active, latches, owed>>
  BY DEF StatusInv
<1>11. QuestionsWait'
  BY <1>9, <1>10, WaitsKept
<1>12. /\ flying' \in [1..MaxSpans -> SUBSET Invocations] /\ owed' \subseteq Agents \X Windows
       /\ \A t \in 1..MaxSpans : t # s => flying'[t] = flying[t]
  BY <1>1 DEF StatusTypes
<1> QED
  BY <1>3, <1>6, <1>7, <1>11, <1>12, RecordChanges

LEMMA ObserveStartedKeeps ==
    ASSUME StatusInv, NEW s \in DOMAIN spans, NEW i \in Invocations, ObserveStarted(s, i)
    PROVE  StatusInv'
<1> DEFINE its == flying[s] \cup {i}
<1>1. StatusTypes /\ s \in active /\ s \in 1..MaxSpans /\ spans[s].turn = "run"
  BY SpanTypes DEF StatusInv, ObserveStarted
<1>2. its \in SUBSET Invocations
  BY <1>1 DEF StatusTypes
<1>3. spans[s].calls \cup {<<CallName[i], i>>} = {<<CallName[j], j>> : j \in its}
  BY <1>1 DEF StatusInv, CallsOnRecord
<1>4. spans' = [spans EXCEPT ![s].phase = "turn",
                             ![s].calls = {<<CallName[j], j>> : j \in its}]
  BY <1>3 DEF ObserveStarted
<1>5. flying' = [flying EXCEPT ![s] = its] /\ UNCHANGED <<active, latches, dropped, owed>>
  BY DEF ObserveStarted
<1> QED
  BY <1>1, <1>2, <1>4, <1>5, CallsChange

LEMMA ObserveFinishedKeeps ==
    ASSUME StatusInv, NEW s \in DOMAIN spans, NEW i \in Invocations, ObserveFinished(s, i)
    PROVE  StatusInv'
<1> DEFINE its == flying[s] \ {i}
<1>1. StatusTypes /\ s \in active /\ s \in 1..MaxSpans /\ spans[s].turn = "run"
  <2>1. StatusTypes /\ s \in active /\ s \in 1..MaxSpans /\ flying[s] # {}
    BY SpanTypes DEF StatusInv, ObserveFinished
  <2> QED
    BY <2>1 DEF StatusInv, RunningOnRecord, CallsOnRecord
<1>2. its \in SUBSET Invocations
  BY <1>1 DEF StatusTypes
<1>3. spans[s].calls \ Finished(i) = {<<CallName[j], j>> : j \in its}
  BY <1>1 DEF StatusInv, CallsOnRecord, Finished
<1>4. spans' = [spans EXCEPT ![s].phase = "turn",
                             ![s].calls = {<<CallName[j], j>> : j \in its}]
  BY <1>3 DEF ObserveFinished
<1>5. flying' = [flying EXCEPT ![s] = its] /\ UNCHANGED <<active, latches, dropped, owed>>
  BY DEF ObserveFinished
<1> QED
  BY <1>1, <1>2, <1>4, <1>5, CallsChange

LEMMA NoteCardPostedKeeps ==
    ASSUME StatusInv, NEW b \in Agents, NEW r \in Windows, NEW c \in {"question", "error"},
           NoteCardPosted(b, r, c)
    PROVE  StatusInv'
<1> DEFINE wait == IF c = "question" THEN "waiting" ELSE "error"
<1>1. StatusTypes /\ <<b, r>> \in Agents \X Windows
  BY DEF StatusInv
<1>2. wait \in {"waiting", "error"} /\ (c = "question" => wait = "waiting")
  OBVIOUS
<1>3. /\ owed' = IF c = "question" THEN owed \cup {<<b, r>>} ELSE owed \ {<<b, r>>}
      /\ UNCHANGED <<active, flying, dropped>>
  BY DEF NoteCardPosted
<1>4. \/ /\ \E s \in active : /\ Key(s) = <<b, r>>
                              /\ \A t \in active : Key(t) = <<b, r>> => t <= s
                             /\ spans' = [spans EXCEPT ![s].wait = wait]
         /\ UNCHANGED latches
      \/ /\ \A s \in active : Key(s) # <<b, r>>
         /\ latches' = [latches EXCEPT ![<<b, r>>] = wait]
         /\ UNCHANGED spans
  BY DEF NoteCardPosted
<1> HIDE DEF wait
<1>5. owed' \subseteq Agents \X Windows
  BY <1>1, <1>3 DEF StatusTypes
<1>6. ASSUME NEW s \in active, Key(s) = <<b, r>>,
             spans' = [spans EXCEPT ![s].wait = wait],
             UNCHANGED latches
      PROVE  StatusInv'
  <2> DEFINE rec == [spans[s] EXCEPT !.wait = wait]
  <2>1. spans[s] \in SpanTurns /\ s \in DOMAIN spans
    BY <1>1, SpanTypes DEF StatusTypes
  <2>2. spans' = [spans EXCEPT ![s] = rec]
    BY <1>6
  <2>3. /\ rec \in SpanTurns /\ rec.bot = spans[s].bot /\ rec.room = spans[s].room
        /\ rec.turn = spans[s].turn /\ rec.calls = spans[s].calls /\ rec.wait = wait
        /\ rec.phase = spans[s].phase
    BY <1>2, <2>1, WaitOf
  <2> HIDE DEF rec
  <2>4. /\ spans'[s] = rec /\ \A t \in DOMAIN spans : t # s => spans'[t] = spans[t]
    BY <1>1, <2>1, <2>2, <2>3, SpanReplaced
  <2>5. \A t \in active : /\ Key(t)' = Key(t) /\ (t # s => spans'[t].wait = spans[t].wait)
                          /\ spans'[t].turn = spans[t].turn
    BY <1>1, <2>3, <2>4 DEF Key, StatusTypes
  <2>6. QuestionsWait'
    <3> SUFFICES ASSUME NEW k \in owed'
                 PROVE  \/ latches[k] = "waiting"
                        \/ \E t \in active :
                              /\ Key(t)' = k
                              /\ spans'[t].turn = "run" => spans'[t].wait = "waiting"
      BY <1>3, <1>6 DEF QuestionsWait
    <3>1. CASE k = <<b, r>>
      BY <1>2, <1>3, <1>6, <2>3, <2>4, <2>5, <3>1
    <3>2. CASE k # <<b, r>>
      BY <1>3, <1>6, <2>5, <3>2 DEF StatusInv, QuestionsWait
    <3> QED
      BY <3>1, <3>2
  <2>7. /\ rec.calls = {<<CallName[i], i>> : i \in flying'[s]}
        /\ rec.turn = "lost" \/ rec.phase = "setup" => flying'[s] = {}
    BY <1>3, <2>3 DEF StatusInv, CallsOnRecord
  <2>8. flying' \in [1..MaxSpans -> SUBSET Invocations]
    BY <1>1, <1>3 DEF StatusTypes
  <2> QED
    BY <1>3, <1>5, <1>6, <2>2, <2>3, <2>6, <2>7, <2>8, RecordChanges
<1>7. ASSUME \A s \in active : Key(s) # <<b, r>>,
             latches' = [latches EXCEPT ![<<b, r>>] = wait], UNCHANGED spans
      PROVE  StatusInv'
  <2>1. /\ latches' \in [Agents \X Windows -> {NoLatch, "waiting", "error", "done"}]
        /\ latches'[<<b, r>>] = wait
        /\ \A k \in Agents \X Windows : k # <<b, r>> => latches'[k] = latches[k]
    BY <1>1, <1>2, <1>7 DEF StatusTypes
  <2>2. \A s \in active : Key(s) \in Agents \X Windows /\ Key(s)' = Key(s)
    BY <1>1, <1>7, SpanTypes DEF StatusTypes, Key
  <2>3. StatusTypes'
    BY <1>1, <1>3, <1>5, <1>7, <2>1 DEF StatusTypes
  <2>4. RunningOnRecord' /\ CallsOnRecord'
    BY <1>3, <1>7 DEF StatusInv, RunningOnRecord, CallsOnRecord
  <2>5. NothingLatched'
    BY <1>3, <1>7, <2>1, <2>2 DEF StatusInv, NothingLatched
  <2>6. QuestionsWait'
    <3> SUFFICES ASSUME NEW k \in owed'
                 PROVE  \/ latches'[k] = "waiting"
                        \/ \E t \in active :
                              /\ Key(t) = k
                              /\ spans[t].turn = "run" => spans[t].wait = "waiting"
      BY <1>3, <1>7, <2>2 DEF QuestionsWait
    <3>1. CASE k = <<b, r>>
      BY <1>2, <1>3, <2>1, <3>1
    <3>2. CASE k # <<b, r>>
      BY <1>1, <1>3, <1>5, <2>1, <3>2 DEF StatusInv, QuestionsWait
    <3> QED
      BY <3>1, <3>2
  <2> QED
    BY <2>3, <2>4, <2>5, <2>6 DEF StatusInv
<1> QED
  BY <1>4, <1>6, <1>7

\* Latches go, with what is owed there, and turns of those rooms and bots.
LEMMA LatchesGo ==
    ASSUME StatusInv, NEW K, NEW gone \in SUBSET active,
           \A s \in gone : Key(s) \in K,
           latches' = Cleared(K), owed' = owed \ K,
           active' = active \ gone, dropped' = dropped \cup gone,
           UNCHANGED <<spans, flying>>
    PROVE  StatusInv'
<1>1. StatusTypes
  BY DEF StatusInv
<1>2. /\ latches' \in [Agents \X Windows -> {NoLatch, "waiting", "error", "done"}]
      /\ \A k \in Agents \X Windows : latches'[k] = IF k \in K THEN NoLatch ELSE latches[k]
  BY <1>1 DEF StatusTypes, Cleared
<1>3. \A s \in active : Key(s) \in Agents \X Windows /\ Key(s)' = Key(s)
  BY <1>1, SpanTypes DEF StatusTypes, Key
<1>4. StatusTypes'
  BY <1>1, <1>2 DEF StatusTypes
<1>5. RunningOnRecord'
  BY <1>1 DEF StatusInv, RunningOnRecord, StatusTypes
<1>6. CallsOnRecord'
  BY DEF StatusInv, CallsOnRecord
<1>7. NothingLatched'
  BY <1>2, <1>3 DEF StatusInv, NothingLatched
<1>8. QuestionsWait'
  <2> SUFFICES ASSUME NEW k \in owed, k \notin K
               PROVE  \/ latches'[k] = "waiting"
                      \/ \E s \in active' :
                            /\ Key(s) = k
                            /\ spans[s].turn = "run" => spans[s].wait = "waiting"
    BY <1>3 DEF QuestionsWait
  <2> QED
    BY <1>1, <1>2 DEF StatusInv, QuestionsWait, StatusTypes
<1> QED
  BY <1>4, <1>5, <1>6, <1>7, <1>8 DEF StatusInv

LEMMA NoteUserMessageKeeps ==
    ASSUME StatusInv, NEW r \in Windows, NoteUserMessage(r)
    PROVE  StatusInv'
<1>1. /\ latches' = Cleared(InRoom(r)) /\ owed' = owed \ InRoom(r)
      /\ active' = active \ {} /\ dropped' = dropped \cup {}
      /\ UNCHANGED <<spans, flying>>
  BY DEF NoteUserMessage
<1>2. {} \in SUBSET active /\ \A s \in {} : Key(s) \in InRoom(r)
  OBVIOUS
<1> QED
  BY <1>1, <1>2, LatchesGo

LEMMA ForgetRoomKeeps ==
    ASSUME StatusInv, NEW r \in Windows, ForgetRoom(r)
    PROVE  StatusInv'
<1> DEFINE gone == {s \in active : spans[s].room = r}
<1>1. \A s \in gone : Key(s) \in InRoom(r)
  <2>1. \A s \in active : Key(s) \in DOMAIN latches /\ Key(s)[2] = spans[s].room
    BY SpanTypes DEF StatusInv, StatusTypes, Key
  <2> QED
    BY <2>1 DEF InRoom
<1>2. /\ latches' = Cleared(InRoom(r)) /\ owed' = owed \ InRoom(r)
      /\ active' = active \ gone /\ dropped' = dropped \cup gone
      /\ UNCHANGED <<spans, flying>>
  BY DEF ForgetRoom
<1>3. gone \in SUBSET active
  OBVIOUS
<1> HIDE DEF gone
<1> QED
  BY <1>1, <1>2, <1>3, LatchesGo

LEMMA RetainKeeps ==
    ASSUME StatusInv, Retain
    PROVE  StatusInv'
<1> DEFINE gone == {s \in active : spans[s].bot \notin roster}
<1> DEFINE lost == {k \in DOMAIN latches : k[1] \notin roster}
<1>1. \A s \in gone : Key(s) \in lost
  <2>1. \A s \in active : Key(s) \in DOMAIN latches /\ Key(s)[1] = spans[s].bot
    BY SpanTypes DEF StatusInv, StatusTypes, Key
  <2> QED
    BY <2>1
<1>2. /\ latches' = Cleared(lost) /\ owed' = owed \ lost
      /\ active' = active \ gone /\ dropped' = dropped \cup gone
      /\ UNCHANGED <<spans, flying>>
  BY DEF Retain
<1>3. gone \in SUBSET active
  OBVIOUS
<1> HIDE DEF gone, lost
<1> QED
  BY <1>1, <1>2, <1>3, LatchesGo

LEMMA PruneExpiredKeeps ==
    ASSUME StatusInv, NEW k \in Agents \X Windows, PruneExpired(k)
    PROVE  StatusInv'
<1>1. latches[k] = "done" /\ latches' = Cleared({k})
      /\ UNCHANGED <<spans, active, flying, dropped, owed>>
  BY DEF PruneExpired
<1>2. StatusTypes
  BY DEF StatusInv
<1>3. /\ latches' \in [Agents \X Windows -> {NoLatch, "waiting", "error", "done"}]
      /\ \A l \in Agents \X Windows : latches'[l] = IF l = k THEN NoLatch ELSE latches[l]
  BY <1>1, <1>2 DEF StatusTypes, Cleared
<1>4. \A s \in active : Key(s) \in Agents \X Windows /\ Key(s)' = Key(s)
  BY <1>1, <1>2, SpanTypes DEF StatusTypes, Key
<1>5. StatusTypes' /\ RunningOnRecord' /\ CallsOnRecord'
  BY <1>1, <1>2, <1>3 DEF StatusInv, StatusTypes, RunningOnRecord, CallsOnRecord
<1>6. NothingLatched'
  BY <1>1, <1>3, <1>4 DEF StatusInv, NothingLatched
<1>7. QuestionsWait'
  <2>1. \A l \in owed : l \in Agents \X Windows
    BY <1>2 DEF StatusTypes
  <2> QED
    BY <1>1, <1>3, <1>4, <2>1 DEF StatusInv, QuestionsWait
<1> QED
  BY <1>5, <1>6, <1>7 DEF StatusInv

LEMMA FinishSpanKeeps ==
    ASSUME StatusInv, NEW s \in DOMAIN spans, NEW o \in {"done", "error", "cancelled"},
           FinishSpan(s, o)
    PROVE  StatusInv'
<1> DEFINE rec == [spans[s] EXCEPT !.turn = "closing", !.phase = "turn",
                                   !.calls = {}, !.wait = NoLatch]
<1>1. StatusTypes /\ spans[s] \in SpanTurns /\ s \in 1..MaxSpans
      /\ Key(s) \in Agents \X Windows
  BY SpanTypes DEF StatusInv
<1>2. /\ spans[s].turn = "run" /\ spans' = [spans EXCEPT ![s] = rec]
      /\ IF s \in active
         THEN /\ active' = active \ {s}
              /\ latches' = IF o = "cancelled" THEN latches
                            ELSE [latches EXCEPT ![Key(s)] = Outcome(s, o)]
         ELSE UNCHANGED <<active, latches>>
      /\ owed' = IF o = "done" THEN owed ELSE owed \ {Key(s)}
      /\ flying' = [flying EXCEPT ![s] = {}]
      /\ UNCHANGED dropped
  BY DEF FinishSpan
<1>3. /\ rec \in SpanTurns /\ rec.bot = spans[s].bot /\ rec.room = spans[s].room
      /\ rec.turn = "closing"
  BY <1>1, TurnOf
<1> HIDE DEF rec
<1>4. /\ spans' \in Seq(SpanTurns) /\ Len(spans') = Len(spans)
      /\ DOMAIN spans' = DOMAIN spans /\ spans'[s] = rec
      /\ \A t \in DOMAIN spans : t # s => spans'[t] = spans[t]
  BY <1>1, <1>2, <1>3, SpanReplaced
<1>5. \A t \in DOMAIN spans : Key(t)' = Key(t)
  BY <1>3, <1>4 DEF Key
<1>6. active' = active \ {s}
  BY <1>2
<1>7. Outcome(s, o) \in {"waiting", "error", "done"}
      /\ (o = "done" /\ spans[s].wait = "waiting" => Outcome(s, o) = "waiting")
  BY <1>1 DEF Outcome, SpanTurns, NoLatch
<1>8. /\ latches' \in [Agents \X Windows -> {NoLatch, "waiting", "error", "done"}]
      /\ \A k \in Agents \X Windows : k # Key(s) => latches'[k] = latches[k]
      /\ s \in active /\ o = "done" => latches'[Key(s)] = Outcome(s, o)
      /\ s \notin active => latches' = latches
  BY <1>1, <1>2, <1>7 DEF StatusTypes
<1>9. StatusTypes'
  BY <1>1, <1>2, <1>4, <1>6, <1>8 DEF StatusTypes
<1>10. RunningOnRecord'
  BY <1>2, <1>3, <1>4, <1>6 DEF StatusInv, RunningOnRecord
<1>11. CallsOnRecord'
  <2>1. \A t \in active \ {s} : t \in DOMAIN spans /\ flying'[t] = flying[t]
                              /\ spans'[t] = spans[t]
    BY <1>1, <1>2, <1>4, SpanTypes DEF StatusTypes
  <2>2. \A t \in 1..MaxSpans : t \notin DOMAIN spans => flying'[t] = {}
    BY <1>1, <1>2 DEF StatusInv, CallsOnRecord, StatusTypes
  <2> QED
    BY <1>4, <1>6, <2>1, <2>2 DEF StatusInv, CallsOnRecord
<1>12. \A t \in active \ {s} : spans[t].turn = "run" => Key(t) # Key(s)
  <2> SUFFICES ASSUME NEW t \in active \ {s}, spans[t].turn = "run", Key(t) = Key(s)
               PROVE  FALSE
    OBVIOUS
  <2>1. t \in DOMAIN spans /\ DOMAIN spans = 1..Len(spans) /\ Len(spans) \in Nat
    BY <1>1, SpanTypes DEF StatusTypes
  <2>2. spans[t].bot = spans[s].bot
    BY DEF Key
  <2>3. s <= t /\ t <= s
    BY <1>2, <2>1, <2>2 DEF StatusInv, RunningOnRecord
  <2> QED
    BY <2>1, <2>3
<1>13. \A t \in active : t \in DOMAIN spans /\ Key(t) \in Agents \X Windows
  BY <1>1, SpanTypes DEF StatusTypes
<1>14. NothingLatched'
  <2> SUFFICES ASSUME NEW t \in active \ {s}, spans[t].turn = "run"
               PROVE  latches'[Key(t)] = NoLatch
    BY <1>4, <1>5, <1>6, <1>13 DEF NothingLatched
  <2> QED
    BY <1>8, <1>12, <1>13 DEF StatusInv, NothingLatched
<1>15. QuestionsWait'
  <2> SUFFICES ASSUME NEW k \in owed'
               PROVE  \/ latches'[k] = "waiting"
                      \/ \E t \in active \ {s} :
                            /\ Key(t) = k
                            /\ spans'[t].turn = "run" => spans'[t].wait = "waiting"
    BY <1>5, <1>6, <1>13 DEF QuestionsWait
  <2>1. k \in owed /\ (k = Key(s) => o = "done") /\ k \in Agents \X Windows
    BY <1>1, <1>2 DEF StatusTypes
  <2>2. CASE latches[k] = "waiting"
    <3>1. s \in active => k # Key(s)
      BY <1>2, <2>2 DEF StatusInv, NothingLatched, NoLatch
    <3> QED
      BY <1>8, <2>1, <2>2, <3>1
  <2>3. ASSUME NEW t \in active, Key(t) = k,
               spans[t].turn = "run" => spans[t].wait = "waiting"
        PROVE  \/ latches'[k] = "waiting"
               \/ \E u \in active \ {s} :
                     /\ Key(u) = k
                     /\ spans'[u].turn = "run" => spans'[u].wait = "waiting"
    <3>1. CASE t = s
      BY <1>2, <1>7, <1>8, <2>1, <2>3, <3>1
    <3>2. CASE t # s
      BY <1>4, <1>13, <2>3, <3>2
    <3> QED
      BY <3>1, <3>2
  <2> QED
    BY <2>1, <2>2, <2>3 DEF StatusInv, QuestionsWait
<1> QED
  BY <1>9, <1>10, <1>11, <1>14, <1>15 DEF StatusInv

LEMMA FinishAgainKeeps ==
    ASSUME StatusInv, NEW s \in DOMAIN spans, NEW o \in {"error", "cancelled"},
           FinishAgain(s, o)
    PROVE  StatusInv'
<1> DEFINE rec == [spans[s] EXCEPT !.turn = "over"]
<1>1. StatusTypes /\ spans[s] \in SpanTurns
  BY SpanTypes DEF StatusInv
<1>2. spans[s].turn = "closing" /\ s \notin active
  BY DEF FinishAgain, StatusInv, RunningOnRecord
<1>3. spans' = [spans EXCEPT ![s] = rec] /\ UNCHANGED <<active, latches, flying, dropped, owed>>
  BY <1>2 DEF FinishAgain, Known
<1>4. /\ rec \in SpanTurns /\ rec.bot = spans[s].bot /\ rec.room = spans[s].room
      /\ rec.turn = "over"
  BY <1>1, TurnOf
<1> HIDE DEF rec
<1>5. /\ spans' \in Seq(SpanTurns) /\ Len(spans') = Len(spans)
      /\ DOMAIN spans' = DOMAIN spans /\ spans'[s] = rec
      /\ \A t \in DOMAIN spans : t # s => spans'[t] = spans[t]
  BY <1>1, <1>3, <1>4, SpanReplaced
<1>6. \A t \in active : t \in DOMAIN spans /\ spans'[t] = spans[t] /\ Key(t)' = Key(t)
  BY <1>1, <1>2, <1>5 DEF StatusTypes, Key
<1>7. StatusTypes'
  BY <1>1, <1>3, <1>5 DEF StatusTypes
<1>8. RunningOnRecord'
  BY <1>2, <1>3, <1>4, <1>5 DEF StatusInv, RunningOnRecord
<1>9. CallsOnRecord' /\ NothingLatched'
  BY <1>3, <1>5, <1>6 DEF StatusInv, CallsOnRecord, NothingLatched
<1>10. QuestionsWait'
  BY <1>3, <1>6 DEF StatusInv, QuestionsWait
<1> QED
  BY <1>7, <1>8, <1>9, <1>10 DEF StatusInv

LEMMA AbandonSpanKeeps ==
    ASSUME StatusInv, NEW s \in DOMAIN spans, AbandonSpan(s)
    PROVE  StatusInv'
<1> DEFINE rec == [spans[s] EXCEPT !.turn = "lost"]
<1>1. StatusTypes /\ spans[s] \in SpanTurns
  BY SpanTypes DEF StatusInv
<1>2. /\ spans[s].turn = "run" /\ spans[s].phase = "setup" /\ spans' = [spans EXCEPT ![s] = rec]
      /\ UNCHANGED <<active, latches, flying, dropped, owed>>
  BY DEF AbandonSpan
<1>3. /\ rec \in SpanTurns /\ rec.bot = spans[s].bot /\ rec.room = spans[s].room
      /\ rec.turn = "lost" /\ rec.calls = spans[s].calls
  BY <1>1, TurnOf
<1> HIDE DEF rec
<1>4. /\ spans' \in Seq(SpanTurns) /\ Len(spans') = Len(spans)
      /\ DOMAIN spans' = DOMAIN spans /\ spans'[s] = rec
      /\ \A t \in DOMAIN spans : t # s => spans'[t] = spans[t]
  BY <1>1, <1>2, <1>3, SpanReplaced
<1>5. \A t \in DOMAIN spans : Key(t)' = Key(t)
  BY <1>3, <1>4 DEF Key
<1>6. StatusTypes' /\ active \subseteq DOMAIN spans
  BY <1>1, <1>2, <1>4 DEF StatusTypes
<1>7. RunningOnRecord'
  BY <1>2, <1>3, <1>4 DEF StatusInv, RunningOnRecord
<1>8. CallsOnRecord'
  BY <1>2, <1>3, <1>4, <1>6 DEF StatusInv, CallsOnRecord
<1>9. NothingLatched'
  BY <1>2, <1>3, <1>4, <1>5, <1>6 DEF StatusInv, NothingLatched
<1>10. QuestionsWait'
  <2> SUFFICES ASSUME NEW k \in owed, NEW t \in active, Key(t) = k,
                      spans[t].turn = "run" => spans[t].wait = "waiting"
               PROVE  spans'[t].turn = "run" => spans'[t].wait = "waiting"
    BY <1>2, <1>5, <1>6 DEF StatusInv, QuestionsWait
  <2> QED
    BY <1>3, <1>4, <1>6
<1> QED
  BY <1>6, <1>7, <1>8, <1>9, <1>10 DEF StatusInv

\* The cards, the listing and the rooms are in no part of the invariant.
LEMMA CardsKeep ==
    ASSUME StatusInv, UNCHANGED <<spans, active, latches, flying, dropped, owed>>
    PROVE  StatusInv'
<1>1. \A t : Key(t)' = Key(t)
  BY DEF Key
<1>2. StatusTypes' /\ RunningOnRecord' /\ CallsOnRecord'
  BY DEF StatusInv, StatusTypes, RunningOnRecord, CallsOnRecord
<1>3. NothingLatched' /\ QuestionsWait'
  BY <1>1 DEF StatusInv, NothingLatched, QuestionsWait
<1> QED
  BY <1>2, <1>3 DEF StatusInv

LEMMA StatusStep == StatusInv /\ [StatusNext]_statusVars => StatusInv'
<1> SUFFICES ASSUME StatusInv, [StatusNext]_statusVars PROVE StatusInv'
  OBVIOUS
<1>1. CASE UNCHANGED statusVars
  BY <1>1, CardsKeep DEF statusVars
<1>2. ASSUME NEW b \in Guests, ToggleCard(b) PROVE StatusInv'
  BY <1>2, CardsKeep DEF ToggleCard
<1>3. CASE ReadRoster
  BY <1>3, CardsKeep DEF ReadRoster
<1> QED
  BY <1>1, <1>2, <1>3, BeginSpanKeeps, AbandonSpanKeeps, ObserveModelKeeps, ObserveStartedKeeps,
     ObserveFinishedKeeps, NoteCardPostedKeeps, FinishSpanKeeps, FinishAgainKeeps,
     NoteUserMessageKeeps, ForgetRoomKeeps, RetainKeeps, PruneExpiredKeeps DEF StatusNext

LEMMA StatusIsShown == StatusInv => StatusHonest
<1> SUFFICES ASSUME StatusInv PROVE TurnsAreShown
  BY DEF StatusInv, StatusHonest
<1>1. \A s \in DOMAIN spans :
         s \in active <=> spans[s].turn \in {"run", "lost"} /\ s \notin dropped
  BY DEF StatusInv, RunningOnRecord
<1>2. ASSUME NEW b \in Agents, RunningTurns(b) \ dropped # {}
      PROVE  Snapshot(b, FALSE) \in {"thinking", "running"}
  <2>1. {s \in active : spans[s].bot = b} # {}
    BY <1>1, <1>2 DEF RunningTurns
  <2> QED
    BY <2>1 DEF Snapshot
<1>3. ASSUME NEW s \in active, spans[s].turn = "run"
      PROVE  {c[2] : c \in RoomCalls(spans[s].bot, spans[s].room)} = flying[s]
  <2>1. ASSUME NEW t \in active, Key(t) = <<spans[s].bot, spans[s].room>>, t # s
        PROVE  spans[t].calls = {}
    <3>1. /\ s \in DOMAIN spans /\ t \in DOMAIN spans /\ spans[t].bot = spans[s].bot
          /\ DOMAIN spans = 1..Len(spans) /\ Len(spans) \in Nat
      BY <2>1, SpanTypes DEF StatusInv, StatusTypes, Key
    <3>2. spans[t].turn # "run"
      <4>1. spans[t].turn = "run" => s <= t /\ t <= s
        BY <1>3, <3>1 DEF StatusInv, RunningOnRecord
      <4> QED
        BY <2>1, <3>1, <4>1
    <3>3. flying[t] = {} /\ spans[t].calls = {<<CallName[i], i>> : i \in flying[t]}
      BY <3>1, <3>2 DEF StatusInv, RunningOnRecord, CallsOnRecord
    <3> QED
      BY <3>3
  <2>2. RoomCalls(spans[s].bot, spans[s].room) = spans[s].calls
    <3>1. Key(s) = <<spans[s].bot, spans[s].room>>
      BY DEF Key
    <3> QED
      BY <2>1, <3>1 DEF RoomCalls
  <2>3. spans[s].calls = {<<CallName[i], i>> : i \in flying[s]}
    BY DEF StatusInv, CallsOnRecord
  <2>4. \A i : <<CallName[i], i>>[2] = i
    OBVIOUS
  <2>5. {c[2] : c \in {<<CallName[i], i>> : i \in flying[s]}} = flying[s]
    <3> DEFINE pairs == {<<CallName[i], i>> : i \in flying[s]}
    <3>1. \A i \in flying[s] : <<CallName[i], i>> \in pairs
      OBVIOUS
    <3>2. \A c \in pairs : c[2] \in flying[s]
      BY <2>4
    <3> HIDE DEF pairs
    <3>3. \A i \in flying[s] : \E c \in pairs : i = c[2]
      BY <2>4, <3>1
    <3>4. {c[2] : c \in pairs} = flying[s]
      BY <3>2, <3>3
    <3> QED
      BY <3>4 DEF pairs
  <2> QED
    BY <2>2, <2>3, <2>5
<1> QED
  BY <1>1, <1>2, <1>3 DEF TurnsAreShown

\* The live status (bots/status.py): whatever turns, calls, cards, deletions and
\* listings come in which order, a turn is on the cards while it runs and only a
\* turn abandoned in its setup is there after it, the live calls where a turn runs
\* are those that have not returned, and a question waits until it is answered,
\* dropped with a failed turn, or swallowed by the record of an abandoned one.
THEOREM StatusIsHonest == StatusSpec => []StatusHonest
<1>1. StatusInit => StatusInv
  BY StatusStarts
<1>2. StatusInv /\ [StatusNext]_statusVars => StatusInv'
  BY StatusStep
<1>3. StatusInv => StatusHonest
  BY StatusIsShown
<1> QED
  BY <1>1, <1>2, <1>3, PTL DEF StatusSpec

-----------------------------------------------------------------------------
(***************************************************************************)
(* The honesty of the task index, for any peers, works and bounds.         *)
(*                                                                         *)
(* TasksInv is inductive.  A call is numbered once, its result is the next *)
(* row and fits the tool (AnswersFollow), the transcript is a tail of the  *)
(* rows there ever were, so that a compaction may take a call away but     *)
(* never its result alone (ScriptIsTail), and a queued envelope is that of *)
(* a call which was answered, or has a span that no call has (MailIsTold), *)
(* so that no two share a span.  What the index shows of n rows, and of n  *)
(* of the relevant envelopes, is then described for every n (IndexAfter,   *)
(* MailAfter): were it wrong for some n, it would be right for the one     *)
(* before the least.                                                       *)
(***************************************************************************)

\* The rows of a transcript: calls of task_open and of the delegating tools, ...
TaskCallRows ==
    [type : {"call"}, id : 1..MaxCalls, name : {"open"}, peer : {NoPeer},
     work : Works \cup {NoWork}]
    \cup [type : {"call"}, id : 1..MaxCalls, name : {"delegate"}, peer : Peers,
          work : {NoWork}]
\* ... their results, ...
TaskAnswerRows ==
    [type : {"answer"}, id : 1..MaxCalls, outcome : {"open", "refused", "error", "done", "queued"}]

\* ... and the events that the results of tools carry (bots/tasks.py).
TaskEventRows ==
    [type : {"event"}, event : {"close", "step"}, ref : {"call", "span"} \X (1..MaxCalls),
     id : {0}]

\* All of them.
TaskRows == TaskCallRows \cup TaskAnswerRows \cup TaskEventRows

\* An envelope that is queued (bots/bus.py).
QueuedMail == [span : Nat, to : Peers \cup {NoPeer}, room : Origins]

\* The rows and the mail are of these types.
TasksTyped ==
    /\ past \in Seq(TaskRows) /\ script \in Seq(TaskRows) /\ posted \in Seq(QueuedMail)

\* The calls that were made have the numbers from 1 on.
CallsAreNumbered == \E k \in Nat : CallIds = 1..k

\* No two rows are of one call.
CallsAreOnce(rows) ==
    \A m, n \in DOMAIN rows :
        rows[m].type = "call" /\ rows[n].type = "call" /\ rows[m].id = rows[n].id => m = n

\* A result that the tool may have.
OutcomeFits(name, outcome) ==
    outcome \in IF name = "open" THEN {"open", "refused", "error"} ELSE {"error", "done", "queued"}

\* A result is the row after its call.
AnswersFollow ==
    \A n \in DOMAIN past : past[n].type = "answer" =>
        \E m \in DOMAIN past :
            /\ n = m + 1 /\ past[m].type = "call" /\ past[m].id = past[n].id
            /\ OutcomeFits(past[m].name, past[n].outcome)

\* The transcript is what compactions left of the rows there ever were.
ScriptIsTail ==
    \E c \in 0..Len(past) :
        /\ Len(past) = c + Len(script)
        /\ \A n \in DOMAIN script : script[n] = past[c + n]

\* No span is queued twice.
SpansApart(mail) == \A m, n \in DOMAIN mail : mail[m].span = mail[n].span => m = n

\* An envelope is that of a call with a result, or has a span of its own.
MailIsTold ==
    /\ \A n \in DOMAIN posted :
        \/ posted[n].span > MaxCalls
        \/ \E m \in DOMAIN past : past[m].type = "answer" /\ past[m].id = posted[n].span
    /\ SpansApart(posted)

\* The inductive invariant.
TasksInv ==
    /\ TasksTyped /\ CallsAreNumbered /\ CallsAreOnce(past) /\ AnswersFollow /\ ScriptIsTail
    /\ MailIsTold

-----------------------------------------------------------------------------
(* Lines of the task index                                                 *)

\* The names of tasks, and the lines of the index (tasks.py OpenTask).
TaskKeys == {"call", "span"} \X Nat
TaskLines ==
    [key : TaskKeys, names : SUBSET TaskKeys, status : {"open", "delegated", "queued", "step", "mail"},
     peer : Peers \cup {NoPeer}, work : Works \cup {NoWork}]

\* The line of a call is a line, under the call's own name (derive_open_tasks).
LEMMA TaskOfType ==
  ASSUME NEW rows, NEW row \in TaskRows, row.type = "call"
  PROVE  TaskOf(rows, row) \in TaskLines
<1>1. row \in TaskCallRows /\ row.id \in Nat /\ row.peer \in Peers \cup {NoPeer}
      /\ row.work \in Works \cup {NoWork}
  <2>1. MaxCalls \in Nat
    BY BotTasksAssumption
  <2>2. QED
    BY <2>1 DEF TaskRows, TaskCallRows, TaskAnswerRows, TaskEventRows
<1>2. <<"call", row.id>> \in TaskKeys /\ <<"span", row.id>> \in TaskKeys
  BY <1>1 DEF TaskKeys
<1>3. TaskNames(rows, row) \in SUBSET TaskKeys
  BY <1>2 DEF TaskNames
<1>4. QED
  BY <1>1, <1>2, <1>3 DEF TaskOf, TaskLines

\* A task that went a step on keeps its key and its names.
LEMMA SteppedKeeps ==
  ASSUME NEW open \in Seq(TaskLines), NEW ref
  PROVE  /\ SteppedBy(open, ref) \in Seq(TaskLines)
         /\ DOMAIN SteppedBy(open, ref) = DOMAIN open
         /\ \A p \in DOMAIN open :
               /\ SteppedBy(open, ref)[p].key = open[p].key
               /\ SteppedBy(open, ref)[p].names = open[p].names
<1>1. \A n \in DOMAIN open : open[n] \in TaskLines
  BY ElementOfSeq, LenProperties
<1>2. \A t \in TaskLines : LET u == [t EXCEPT !.status = "step"] IN
                             u \in TaskLines /\ u.key = t.key /\ u.names = t.names
  BY DEF TaskLines
<1>3. DOMAIN open = 1..Len(open) /\ Len(open) \in Nat
  BY LenProperties
<1>4. SteppedBy(open, ref) \in [1..Len(open) -> TaskLines]
  BY <1>1, <1>2, <1>3 DEF SteppedBy
<1>5. SteppedBy(open, ref) \in Seq(TaskLines)
  BY <1>3, <1>4, SeqDef
<1>6. QED
  BY <1>1, <1>2, <1>3, <1>5 DEF SteppedBy

\* What a row makes of the lines are lines (derive_open_tasks).
LEMMA AppliedType ==
  ASSUME NEW rows \in Seq(TaskRows), NEW open \in Seq(TaskLines), NEW row \in TaskRows
  PROVE  Applied(rows, open, row) \in Seq(TaskLines)
<1>1. CASE row.type = "call" /\ Opens(rows, row)
  BY <1>1, TaskOfType, AppendProperties DEF Applied
<1>2. ClosedBy(open, row.ref) \in Seq(TaskLines)
  BY KeptIsSeq DEF ClosedBy
<1>3. SteppedBy(open, row.ref) \in Seq(TaskLines)
  BY SteppedKeeps
<1>4. QED
  BY <1>1, <1>2, <1>3 DEF Applied

\* The transcript is read row by row (tasks.py:derive_open_tasks): f[n] is the
\* index after n rows.
IsReading(f, rows) ==
  /\ f \in [0..Len(rows) -> Seq(TaskLines)]
  /\ f[0] = <<>>
  /\ \A n \in 1..Len(rows) : f[n] = Applied(rows, f[n - 1], rows[n])

\* CallTasks goes from no line through one step for each row (derive_open_tasks).
LEMMA CallTasksFold ==
  ASSUME NEW rows \in Seq(TaskRows)
  PROVE  \E f : IsReading(f, rows) /\ CallTasks(rows) = f[Len(rows)]
<1> DEFINE N == Len(rows)
           S == Seq(TaskLines)
           base == <<>>
           R == {x \in (1..N) \X S \X S : x[3] = Applied(rows, x[2], rows[x[1]])}
           Unfolds(f) == f = [n \in 0..N |->
                               IF n = 0 THEN <<>> ELSE Applied(rows, f[n - 1], rows[n])]
           c == CHOOSE f : Unfolds(f)
<1>1. N \in Nat /\ base \in S
  BY LenProperties, EmptySeq
<1>2. \A n \in 1..N, s \in S : Applied(rows, s, rows[n]) \in S
  BY ElementOfSeq, AppliedType
<1>3. \A n \in 1..N, x \in S : \E y \in S : <<n, x, y>> \in R
  BY <1>2
<1>4. \E f : Unfolds(f)
  <2>1. PICK f \in [0..N -> S] : IsChain(f, base, R, N)
    <3> HIDE DEF N, S, R, base
    <3>1. QED
      BY <1>1, <1>3, ChainExists
  <2>2. \A n \in 0..N : n # 0 => n \in 1..N /\ n - 1 \in 0..N
    BY <1>1
  <2>3. f[0] = <<>> /\ \A n \in 1..N : f[n] = Applied(rows, f[n - 1], rows[n])
    BY <2>1 DEF IsChain
  <2>4. \A n \in 0..N : f[n] = IF n = 0 THEN <<>> ELSE Applied(rows, f[n - 1], rows[n])
    BY <2>2, <2>3
  <2>5. Unfolds(f)
    BY <2>4
  <2>6. QED
    BY <2>5
<1>5. Unfolds(c)
  BY <1>4
<1>6. CallTasks(rows) = c[N]
  BY DEF CallTasks
<1>7. c[0] = <<>> /\ \A n \in 1..N : c[n] = Applied(rows, c[n - 1], rows[n])
  <2> HIDE DEF c
  <2>1. 0 \in 0..N /\ \A n \in 1..N : n \in 0..N /\ n # 0
    BY <1>1
  <2>2. QED
    BY <1>5, <2>1
<1>8. \A n \in 0..N : c[n] \in S
  <2> DEFINE G == {n \in 0..N : c[n] \in S}
  <2> HIDE DEF c
  <2>1. 0 \in G
    <3>1. 0 \in 0..N
      BY <1>1
    <3>2. QED
      BY <1>1, <1>7, <3>1
  <2>2. ASSUME NEW n \in 1..N, n - 1 \in G
        PROVE  n \in G
    <3>1. n \in 0..N
      BY <1>1
    <3>2. c[n - 1] \in S /\ c[n] = Applied(rows, c[n - 1], rows[n])
      BY <1>7, <2>2
    <3>3. c[n] \in S
      <4> HIDE DEF N, S
      <4>1. QED
        BY <1>2, <3>2
    <3>4. QED
      BY <3>1, <3>3
  <2>3. \A n \in 0..N : n \in G
    <3> HIDE DEF G
    <3>1. QED
      BY <1>1, <2>1, <2>2, UpToAll
  <2>4. QED
    BY <2>3
<1>9. c \in [0..N -> S]
  <2> HIDE DEF c
  <2>1. c = [n \in 0..N |-> c[n]]
    BY <1>5
  <2>2. QED
    BY <1>8, <2>1
<1>10. IsReading(c, rows)
  BY <1>7, <1>9 DEF IsReading
<1>11. QED
  <2> HIDE DEF c
  <2>1. QED
    BY <1>6, <1>10

-----------------------------------------------------------------------------
(* The tasks of the transcript                                             *)

\* The n-th row closes the task of the m-th.
ClosedAt(rows, m, n) ==
  /\ rows[n].type = "event" /\ rows[n].event = "close"
  /\ rows[n].ref \in TaskNames(rows, rows[m])

\* After n rows the index shows the task of row m, ...
OpenAfter(rows, m, n) ==
  /\ rows[m].type = "call" /\ Opens(rows, rows[m])
  /\ ~ \E k \in m..n : ClosedAt(rows, m, k)

\* ... and nothing else, each task once.
IndexAfter(rows, open, n) ==
  /\ \A p \in DOMAIN open : \E m \in 1..n :
        /\ OpenAfter(rows, m, n)
        /\ open[p].key = <<"call", rows[m].id>> /\ open[p].names = TaskNames(rows, rows[m])
  /\ \A m \in 1..n : OpenAfter(rows, m, n) =>
        \E p \in DOMAIN open : open[p].key = <<"call", rows[m].id>>
  /\ \A p, q \in DOMAIN open : open[p].key = open[q].key => p = q

\* A row of another kind leaves what is open as it was.
LEMMA OpenAfterMore ==
  ASSUME NEW rows, NEW n \in Nat, NEW m \in 1..n, ~ClosedAt(rows, m, n + 1)
  PROVE  OpenAfter(rows, m, n + 1) <=> OpenAfter(rows, m, n)
<1>1. m..(n + 1) = (m..n) \cup {n + 1}
  OBVIOUS
<1>2. QED
  BY <1>1 DEF OpenAfter

\* The names of different calls are different.
LEMMA NamesApart ==
  ASSUME NEW rows, NEW c, NEW d, c.id # d.id
  PROVE  TaskNames(rows, c) \cap TaskNames(rows, d) = {}
BY DEF TaskNames

\* A call that opens a task adds its line behind the others (derive_open_tasks).
LEMMA IndexAppends ==
  ASSUME NEW rows \in Seq(TaskRows), CallsAreOnce(rows), NEW n \in Nat, n + 1 \in DOMAIN rows,
         NEW open \in Seq(TaskLines), IndexAfter(rows, open, n),
         rows[n + 1].type = "call", Opens(rows, rows[n + 1])
  PROVE  IndexAfter(rows, Append(open, TaskOf(rows, rows[n + 1])), n + 1)
<1> DEFINE new == Append(open, TaskOf(rows, rows[n + 1]))
           L == Len(open)
<1>1. /\ L \in Nat /\ DOMAIN open = 1..L /\ DOMAIN new = 1..(L + 1)
      /\ \A p \in 1..L : new[p] = open[p] /\ p # L + 1
      /\ new[L + 1] = TaskOf(rows, rows[n + 1])
      /\ \A p \in 1..(L + 1) : p = L + 1 \/ p \in 1..L
  <2>1. TaskOf(rows, rows[n + 1]) \in TaskLines
    <3>1. rows[n + 1] \in TaskRows
      BY ElementOfSeq, LenProperties
    <3>2. QED
      BY <3>1, TaskOfType
  <2>2. QED
    BY <2>1, AppendProperties, LenProperties
<1>2. new[L + 1].key = <<"call", rows[n + 1].id>>
      /\ new[L + 1].names = TaskNames(rows, rows[n + 1])
  BY <1>1 DEF TaskOf
<1>3. n + 1 \in 1..(n + 1) /\ \A m \in 1..(n + 1) : m = n + 1 \/ m \in 1..n
  OBVIOUS
<1>4. \A m \in 1..n : m \in DOMAIN rows /\ m # n + 1 /\ m \in 1..(n + 1)
  BY LenProperties
<1>5. \A m : ~ClosedAt(rows, m, n + 1)
  BY DEF ClosedAt
<1>6. OpenAfter(rows, n + 1, n + 1)
  BY <1>5 DEF OpenAfter
<1>7. \A m \in 1..n : OpenAfter(rows, m, n + 1) <=> OpenAfter(rows, m, n)
  BY <1>5, OpenAfterMore
<1>8. \A m \in 1..n : OpenAfter(rows, m, n) => rows[m].id # rows[n + 1].id
  BY <1>4 DEF OpenAfter, CallsAreOnce
<1>9. ASSUME NEW p \in DOMAIN new
      PROVE  \E m \in 1..(n + 1) :
                /\ OpenAfter(rows, m, n + 1)
                /\ new[p].key = <<"call", rows[m].id>> /\ new[p].names = TaskNames(rows, rows[m])
  <2>1. CASE p = L + 1
    BY <1>2, <1>3, <1>6, <2>1
  <2>2. CASE p \in 1..L
    <3>1. new[p] = open[p] /\ p \in DOMAIN open
      BY <1>1, <2>2
    <3>2. PICK m \in 1..n : /\ OpenAfter(rows, m, n) /\ open[p].key = <<"call", rows[m].id>>
                            /\ open[p].names = TaskNames(rows, rows[m])
      BY <3>1 DEF IndexAfter
    <3> HIDE DEF new
    <3>3. QED
      BY <1>4, <1>7, <3>1, <3>2
  <2>3. QED
    BY <1>1, <2>1, <2>2
<1>10. ASSUME NEW m \in 1..(n + 1), OpenAfter(rows, m, n + 1)
       PROVE  \E p \in DOMAIN new : new[p].key = <<"call", rows[m].id>>
  <2>1. CASE m = n + 1
    BY <1>1, <1>2, <2>1
  <2>2. CASE m \in 1..n
    <3>1. PICK p \in DOMAIN open : open[p].key = <<"call", rows[m].id>>
      BY <1>7, <1>10, <2>2 DEF IndexAfter
    <3>2. QED
      BY <1>1, <3>1
  <2>3. QED
    BY <1>3, <2>1, <2>2
<1>11. ASSUME NEW p \in 1..L
       PROVE  new[p].key # new[L + 1].key
  <2>1. new[p] = open[p] /\ p \in DOMAIN open
    BY <1>1
  <2>2. PICK m \in 1..n : OpenAfter(rows, m, n) /\ open[p].key = <<"call", rows[m].id>>
    BY <2>1 DEF IndexAfter
  <2>3. rows[m].id # rows[n + 1].id
    BY <1>8, <2>2
  <2>4. <<"call", rows[m].id>> # <<"call", rows[n + 1].id>>
    BY <2>3
  <2> HIDE DEF new
  <2>5. QED
    BY <1>2, <2>1, <2>2, <2>4
<1>12. ASSUME NEW p \in DOMAIN new, NEW q \in DOMAIN new, new[p].key = new[q].key
       PROVE  p = q
  <2>1. CASE p \in 1..L /\ q \in 1..L
    BY <1>1, <1>12, <2>1 DEF IndexAfter
  <2>2. QED
    BY <1>1, <1>11, <1>12, <2>1
<1>13. IndexAfter(rows, new, n + 1)
  <2> HIDE DEF new
  <2>1. QED
    BY <1>9, <1>10, <1>12 DEF IndexAfter
<1>14. QED
  BY <1>13

\* An event that closes a task takes its line away, and no other (derive_open_tasks).
LEMMA IndexCloses ==
  ASSUME NEW rows \in Seq(TaskRows), CallsAreOnce(rows), NEW n \in Nat, n + 1 \in DOMAIN rows,
         NEW open \in Seq(TaskLines), IndexAfter(rows, open, n),
         rows[n + 1].type = "event", rows[n + 1].event = "close"
  PROVE  IndexAfter(rows, ClosedBy(open, rows[n + 1].ref), n + 1)
<1> DEFINE ref == rows[n + 1].ref
           P == {p \in DOMAIN open : ref \notin open[p].names}
           new == KeptAt(open, P)
<1>1. ClosedBy(open, ref) = new
  BY DEF ClosedBy
<1>2. /\ DOMAIN new = 1..Cardinality(P) /\ Cardinality(P) \in Nat
      /\ \A p \in DOMAIN new : Nth(P, p) \in P /\ new[p] = open[Nth(P, p)]
  BY KeptIsSeq
<1>3. ASSUME NEW i \in P
      PROVE  \E p \in DOMAIN new : new[p] = open[i]
  <2>1. P \in SUBSET DOMAIN open
    OBVIOUS
  <2> HIDE DEF P
  <2>2. QED
    BY <2>1, KeptHasAll
<1>4. \A p, q \in DOMAIN new : Nth(P, p) = Nth(P, q) => p = q
  <2>1. ASSUME NEW p \in DOMAIN new, NEW q \in DOMAIN new, p < q
        PROVE  Nth(P, p) # Nth(P, q)
    <3>1. Nth(P, p) < Nth(P, q)
      BY <2>1, KeptInOrder
    <3>2. Nth(P, p) \in Nat /\ Nth(P, q) \in Nat
      BY <1>2, LenProperties
    <3>3. QED
      BY <3>1, <3>2
  <2>2. \A p, q \in DOMAIN new : p \in Nat /\ q \in Nat /\ (p = q \/ p < q \/ q < p)
    BY <1>2
  <2>3. QED
    BY <2>1, <2>2
<1>5. \A m \in 1..n : m \in 1..(n + 1) /\ m \in Nat
  OBVIOUS
<1>6. \A m \in 1..n : OpenAfter(rows, m, n + 1)
                        <=> OpenAfter(rows, m, n) /\ ref \notin TaskNames(rows, rows[m])
  <2>1. \A m \in 1..n : m..(n + 1) = (m..n) \cup {n + 1}
    BY <1>5
  <2>2. \A m \in 1..n : ClosedAt(rows, m, n + 1) <=> ref \in TaskNames(rows, rows[m])
    BY DEF ClosedAt
  <2>3. QED
    BY <2>1, <2>2 DEF OpenAfter
<1>7. \A m \in 1..(n + 1) : OpenAfter(rows, m, n + 1) => m \in 1..n
  BY DEF OpenAfter
<1>8. ASSUME NEW p \in DOMAIN new
      PROVE  \E m \in 1..(n + 1) :
                /\ OpenAfter(rows, m, n + 1)
                /\ new[p].key = <<"call", rows[m].id>> /\ new[p].names = TaskNames(rows, rows[m])
  <2>1. Nth(P, p) \in DOMAIN open /\ ref \notin open[Nth(P, p)].names /\ new[p] = open[Nth(P, p)]
    BY <1>2
  <2>2. QED
    BY <1>5, <1>6, <2>1 DEF IndexAfter
<1>9. ASSUME NEW m \in 1..(n + 1), OpenAfter(rows, m, n + 1)
      PROVE  \E p \in DOMAIN new : new[p].key = <<"call", rows[m].id>>
  <2>1. m \in 1..n /\ OpenAfter(rows, m, n) /\ ref \notin TaskNames(rows, rows[m])
    BY <1>6, <1>7, <1>9
  <2>2. PICK i \in DOMAIN open : open[i].key = <<"call", rows[m].id>>
    BY <2>1 DEF IndexAfter
  <2>3. PICK k \in 1..n : /\ OpenAfter(rows, k, n) /\ open[i].key = <<"call", rows[k].id>>
                          /\ open[i].names = TaskNames(rows, rows[k])
    BY DEF IndexAfter
  <2>4. rows[k].id = rows[m].id
    BY <2>2, <2>3
  <2>5. TaskNames(rows, rows[k]) = TaskNames(rows, rows[m])
    BY <2>4 DEF TaskNames
  <2>6. i \in P
    BY <2>1, <2>3, <2>5
  <2>7. QED
    BY <1>3, <2>2, <2>6
<1>10. ASSUME NEW p \in DOMAIN new, NEW q \in DOMAIN new, new[p].key = new[q].key
       PROVE  p = q
  <2>1. Nth(P, p) \in DOMAIN open /\ Nth(P, q) \in DOMAIN open
        /\ open[Nth(P, p)].key = open[Nth(P, q)].key
    BY <1>2, <1>10
  <2>2. Nth(P, p) = Nth(P, q)
    BY <2>1 DEF IndexAfter
  <2>3. QED
    BY <1>4, <2>2
<1> HIDE DEF new
<1>11. QED
  BY <1>1, <1>8, <1>9, <1>10 DEF IndexAfter

\* An event that tells of a step leaves the lines where they are (derive_open_tasks).
LEMMA IndexSteps ==
  ASSUME NEW rows \in Seq(TaskRows), NEW n \in Nat, n + 1 \in DOMAIN rows,
         NEW open \in Seq(TaskLines), IndexAfter(rows, open, n),
         rows[n + 1].type = "event", rows[n + 1].event # "close"
  PROVE  IndexAfter(rows, SteppedBy(open, rows[n + 1].ref), n + 1)
<1> DEFINE new == SteppedBy(open, rows[n + 1].ref)
<1>1. /\ DOMAIN new = DOMAIN open
      /\ \A p \in DOMAIN open : new[p].key = open[p].key /\ new[p].names = open[p].names
  BY SteppedKeeps
<1>2. \A m : ~ClosedAt(rows, m, n + 1)
  BY DEF ClosedAt
<1>3. \A m \in 1..n : m \in 1..(n + 1) /\ (OpenAfter(rows, m, n + 1) <=> OpenAfter(rows, m, n))
  BY <1>2, OpenAfterMore
<1>4. \A m \in 1..(n + 1) : OpenAfter(rows, m, n + 1) => m \in 1..n
  BY DEF OpenAfter
<1>5. IndexAfter(rows, new, n + 1)
  <2> HIDE DEF new
  <2>1. ASSUME NEW p \in DOMAIN new
        PROVE  \E m \in 1..(n + 1) :
          /\ OpenAfter(rows, m, n + 1)
          /\ new[p].key = <<"call", rows[m].id>> /\ new[p].names = TaskNames(rows, rows[m])
    <3>1. PICK m \in 1..n : /\ OpenAfter(rows, m, n) /\ open[p].key = <<"call", rows[m].id>>
                            /\ open[p].names = TaskNames(rows, rows[m])
      BY <1>1 DEF IndexAfter
    <3>2. QED
      BY <1>1, <1>3, <3>1
  <2>2. ASSUME NEW m \in 1..(n + 1), OpenAfter(rows, m, n + 1)
        PROVE  \E p \in DOMAIN new : new[p].key = <<"call", rows[m].id>>
    <3>1. PICK p \in DOMAIN open : open[p].key = <<"call", rows[m].id>>
      BY <1>3, <1>4, <2>2 DEF IndexAfter
    <3>2. QED
      BY <1>1, <3>1
  <2>3. \A p, q \in DOMAIN new : new[p].key = new[q].key => p = q
    BY <1>1 DEF IndexAfter
  <2>4. QED
    BY <2>1, <2>2, <2>3 DEF IndexAfter
<1>6. QED
  BY <1>5

\* Any other row leaves the index as it was (derive_open_tasks).
LEMMA IndexStays ==
  ASSUME NEW rows \in Seq(TaskRows), NEW n \in Nat, n + 1 \in DOMAIN rows,
         NEW open \in Seq(TaskLines), IndexAfter(rows, open, n),
         rows[n + 1].type # "event", ~(rows[n + 1].type = "call" /\ Opens(rows, rows[n + 1]))
  PROVE  IndexAfter(rows, open, n + 1)
<1>1. \A m : ~ClosedAt(rows, m, n + 1)
  BY DEF ClosedAt
<1>2. \A m \in 1..n : m \in 1..(n + 1) /\ (OpenAfter(rows, m, n + 1) <=> OpenAfter(rows, m, n))
  BY <1>1, OpenAfterMore
<1>3. \A m \in 1..(n + 1) : OpenAfter(rows, m, n + 1) => m \in 1..n
  BY DEF OpenAfter
<1>4. QED
  BY <1>2, <1>3 DEF IndexAfter

\* The index of a transcript is as it should be after its last row.
LEMMA CallTasksIs ==
  ASSUME NEW rows \in Seq(TaskRows), CallsAreOnce(rows)
  PROVE  CallTasks(rows) \in Seq(TaskLines) /\ IndexAfter(rows, CallTasks(rows), Len(rows))
<1> DEFINE N == Len(rows)
<1>1. PICK f : IsReading(f, rows) /\ CallTasks(rows) = f[N]
  BY CallTasksFold
<1> DEFINE G == {n \in 0..N : IndexAfter(rows, f[n], n)}
<1>2. N \in Nat /\ DOMAIN rows = 1..N
  BY LenProperties
<1>3. 0 \in G
  <2>1. 0 \in 0..N /\ f[0] = <<>>
    BY <1>1, <1>2 DEF IsReading
  <2>2. IndexAfter(rows, <<>>, 0)
    BY DEF IndexAfter
  <2>3. QED
    BY <2>1, <2>2
<1>4. ASSUME NEW k \in 1..N, k - 1 \in G
      PROVE  k \in G
  <2> DEFINE n == k - 1
             open == f[n]
             row == rows[n + 1]
  <2>1. n \in Nat /\ n + 1 = k /\ n \in 0..N /\ k \in 0..N /\ n + 1 \in DOMAIN rows
    BY <1>2
  <2>2. open \in Seq(TaskLines) /\ IndexAfter(rows, open, n)
    BY <1>1, <1>4, <2>1 DEF IsReading
  <2>3. f[k] = Applied(rows, open, row)
    BY <1>1, <2>1 DEF IsReading
  <2> HIDE DEF n, open
  <2>4. IndexAfter(rows, Applied(rows, open, row), n + 1)
    <3>1. CASE row.type = "call" /\ Opens(rows, row)
      BY <2>1, <2>2, <3>1, IndexAppends DEF Applied
    <3>2. CASE row.type = "event" /\ row.event = "close"
      BY <2>1, <2>2, <3>2, IndexCloses DEF Applied
    <3>3. CASE row.type = "event" /\ row.event # "close"
      BY <2>1, <2>2, <3>3, IndexSteps DEF Applied
    <3>4. CASE row.type # "event" /\ ~(row.type = "call" /\ Opens(rows, row))
      BY <2>1, <2>2, <3>4, IndexStays DEF Applied
    <3>5. QED
      BY <3>1, <3>2, <3>3, <3>4
  <2>5. QED
    BY <2>1, <2>3, <2>4
<1>5. N \in G
  <2> HIDE DEF G
  <2>1. \A n \in 0..N : n \in G
    BY <1>2, <1>3, <1>4, UpToAll
  <2>2. N \in 0..N
    BY <1>2
  <2>3. QED
    BY <2>1, <2>2
<1>6. f[N] \in Seq(TaskLines)
  <2>1. N \in 0..N
    BY <1>2
  <2>2. QED
    BY <1>1, <2>1 DEF IsReading
<1>7. QED
  BY <1>1, <1>5, <1>6

-----------------------------------------------------------------------------
(* The queued mail                                                         *)

\* What an envelope makes of the lines are lines (derive_open_tasks).
LEMMA EnvelopeType ==
  ASSUME NEW open \in Seq(TaskLines), NEW e \in QueuedMail
  PROVE  WithEnvelope(open, e) \in Seq(TaskLines)
<1> DEFINE line == [key |-> <<"span", e.span>>, names |-> {<<"span", e.span>>},
                    status |-> "mail", peer |-> e.to, work |-> NoWork]
<1>1. line \in TaskLines
  <2>1. <<"span", e.span>> \in TaskKeys /\ e.to \in Peers \cup {NoPeer}
    BY DEF QueuedMail, TaskKeys
  <2>2. QED
    BY <2>1 DEF TaskLines
<1>2. Append(open, line) \in Seq(TaskLines)
  BY <1>1, AppendProperties
<1>3. WithEnvelope(open, e) = open \/ WithEnvelope(open, e) = Append(open, line)
  BY DEF WithEnvelope
<1>4. QED
  BY <1>2, <1>3

\* The queued mail is read envelope by envelope: f[n] is the index after n.
IsMailing(f, open, mail) ==
  /\ f \in [0..Len(mail) -> Seq(TaskLines)]
  /\ f[0] = open
  /\ \A n \in 1..Len(mail) : f[n] = WithEnvelope(f[n - 1], mail[n])

\* WithMail goes from the tasks of the transcript through one step for each envelope
\* (derive_open_tasks).
LEMMA WithMailFold ==
  ASSUME NEW open \in Seq(TaskLines), NEW mail \in Seq(QueuedMail)
  PROVE  \E f : IsMailing(f, open, mail) /\ WithMail(open, mail) = f[Len(mail)]
<1> DEFINE N == Len(mail)
           S == Seq(TaskLines)
           R == {x \in (1..N) \X S \X S : x[3] = WithEnvelope(x[2], mail[x[1]])}
           Unfolds(f) == f = [n \in 0..N |->
                               IF n = 0 THEN open ELSE WithEnvelope(f[n - 1], mail[n])]
           c == CHOOSE f : Unfolds(f)
<1>1. N \in Nat /\ open \in S
  BY LenProperties
<1>2. \A n \in 1..N, s \in S : WithEnvelope(s, mail[n]) \in S
  BY ElementOfSeq, EnvelopeType
<1>3. \A n \in 1..N, x \in S : \E y \in S : <<n, x, y>> \in R
  BY <1>2
<1>4. \E f : Unfolds(f)
  <2>1. PICK f \in [0..N -> S] : IsChain(f, open, R, N)
    <3> HIDE DEF N, S, R
    <3>1. QED
      BY <1>1, <1>3, ChainExists
  <2>2. \A n \in 0..N : n # 0 => n \in 1..N /\ n - 1 \in 0..N
    BY <1>1
  <2>3. f[0] = open /\ \A n \in 1..N : f[n] = WithEnvelope(f[n - 1], mail[n])
    BY <2>1 DEF IsChain
  <2>4. \A n \in 0..N : f[n] = IF n = 0 THEN open ELSE WithEnvelope(f[n - 1], mail[n])
    BY <2>2, <2>3
  <2>5. Unfolds(f)
    BY <2>4
  <2>6. QED
    BY <2>5
<1>5. Unfolds(c)
  BY <1>4
<1>6. WithMail(open, mail) = c[N]
  BY DEF WithMail
<1>7. c[0] = open /\ \A n \in 1..N : c[n] = WithEnvelope(c[n - 1], mail[n])
  <2> HIDE DEF c
  <2>1. 0 \in 0..N /\ \A n \in 1..N : n \in 0..N /\ n # 0
    BY <1>1
  <2>2. QED
    BY <1>5, <2>1
<1>8. \A n \in 0..N : c[n] \in S
  <2> DEFINE G == {n \in 0..N : c[n] \in S}
  <2> HIDE DEF c
  <2>1. 0 \in G
    <3>1. 0 \in 0..N
      BY <1>1
    <3>2. QED
      BY <1>1, <1>7, <3>1
  <2>2. ASSUME NEW n \in 1..N, n - 1 \in G
        PROVE  n \in G
    <3>1. n \in 0..N
      BY <1>1
    <3>2. c[n - 1] \in S /\ c[n] = WithEnvelope(c[n - 1], mail[n])
      BY <1>7, <2>2
    <3>3. c[n] \in S
      <4> HIDE DEF N, S
      <4>1. QED
        BY <1>2, <3>2
    <3>4. QED
      BY <3>1, <3>3
  <2>3. \A n \in 0..N : n \in G
    <3> HIDE DEF G
    <3>1. QED
      BY <1>1, <2>1, <2>2, UpToAll
  <2>4. QED
    BY <2>3
<1>9. c \in [0..N -> S]
  <2> HIDE DEF c
  <2>1. c = [n \in 0..N |-> c[n]]
    BY <1>5
  <2>2. QED
    BY <1>8, <2>1
<1>10. IsMailing(c, open, mail)
  BY <1>7, <1>9 DEF IsMailing
<1>11. QED
  <2> HIDE DEF c
  <2>1. QED
    BY <1>6, <1>10

\* The bot sees the envelope e in the index.
Shows(lines, e) ==
  \E t \in DOMAIN lines : IF e.to = NoPeer THEN lines[t].key = <<"span", e.span>>
                                           ELSE lines[t].peer = e.to

\* After n envelopes: the tasks there were are there, the envelopes that were
\* read are seen, and nothing is there twice.
MailAfter(lines, open, mail, n) ==
  /\ \A p \in DOMAIN lines :
        \/ \E q \in DOMAIN open : lines[p].key = open[q].key
        \/ \E k \in 1..n : lines[p].key = <<"span", mail[k].span>>
  /\ \A q \in DOMAIN open : \E p \in DOMAIN lines : lines[p].key = open[q].key
  /\ \A k \in 1..n : Shows(lines, mail[k])
  /\ \A p, q \in DOMAIN lines : lines[p].key = lines[q].key => p = q

\* An envelope keeps the lines there are, and is shown (derive_open_tasks).
LEMMA EnvelopeIsAdded ==
  ASSUME NEW open \in Seq(TaskLines), \A q \in DOMAIN open : open[q].key[1] # "span",
         NEW mail \in Seq(QueuedMail), SpansApart(mail),
         NEW n \in Nat, n + 1 \in DOMAIN mail,
         NEW lines \in Seq(TaskLines), MailAfter(lines, open, mail, n)
  PROVE  MailAfter(WithEnvelope(lines, mail[n + 1]), open, mail, n + 1)
<1> DEFINE e == mail[n + 1]
           key == <<"span", e.span>>
           line == [key |-> key, names |-> {key}, status |-> "mail", peer |-> e.to, work |-> NoWork]
           new == Append(lines, line)
           L == Len(lines)
<1>1. e \in QueuedMail
  BY ElementOfSeq, LenProperties
<1>2. \A k \in 1..n : k \in DOMAIN mail /\ k # n + 1 /\ k \in 1..(n + 1)
  BY LenProperties
<1>3. n + 1 \in 1..(n + 1) /\ \A k \in 1..(n + 1) : k = n + 1 \/ k \in 1..n
  OBVIOUS
<1>4. \A p \in DOMAIN lines : lines[p].key # key
  <2> SUFFICES ASSUME NEW p \in DOMAIN lines, lines[p].key = key
               PROVE  FALSE
    OBVIOUS
  <2>1. lines[p].key[1] = "span"
    OBVIOUS
  <2>2. PICK k \in 1..n : lines[p].key = <<"span", mail[k].span>>
    <3>1. \A q \in DOMAIN open : lines[p].key # open[q].key
      BY <2>1
    <3> HIDE DEF key
    <3>2. QED
      BY <3>1 DEF MailAfter
  <2>3. mail[k].span = mail[n + 1].span
    BY <2>2
  <2>4. QED
    BY <1>2, <2>3 DEF SpansApart
<1>5. CASE e.to \in Peers /\ \E p \in DOMAIN lines : lines[p].peer = e.to
  <2>1. WithEnvelope(lines, e) = lines
    BY <1>5 DEF WithEnvelope
  <2>2. Shows(lines, e)
    <3>1. e.to # NoPeer
      BY <1>5, BotTasksAssumption
    <3>2. QED
      BY <1>5, <3>1 DEF Shows
  <2>3. \A k \in 1..(n + 1) : Shows(lines, mail[k])
    BY <1>3, <2>2 DEF MailAfter
  <2>4. MailAfter(lines, open, mail, n + 1)
    BY <1>2, <2>3 DEF MailAfter
  <2>5. QED
    BY <2>1, <2>4
<1>6. CASE ~(e.to \in Peers /\ \E p \in DOMAIN lines : lines[p].peer = e.to)
  <2>1. WithEnvelope(lines, e) = new
    BY <1>4, <1>6 DEF WithEnvelope
  <2>2. line \in TaskLines
    <3>1. key \in TaskKeys /\ e.to \in Peers \cup {NoPeer}
      BY <1>1 DEF QueuedMail, TaskKeys
    <3> HIDE DEF key, e
    <3>2. QED
      BY <3>1 DEF TaskLines
  <2>3. /\ L \in Nat /\ DOMAIN lines = 1..L /\ DOMAIN new = 1..(L + 1)
        /\ \A p \in 1..L : new[p] = lines[p] /\ p # L + 1
        /\ new[L + 1] = line
        /\ \A p \in 1..(L + 1) : p = L + 1 \/ p \in 1..L
    <3> HIDE DEF line
    <3>1. QED
      BY <2>2, AppendProperties, LenProperties
  <2>4. new[L + 1].key = key /\ new[L + 1].peer = e.to /\ L + 1 \in DOMAIN new
    BY <2>3
  <2> HIDE DEF new, line
  <2>5. ASSUME NEW p \in DOMAIN new
        PROVE  \/ \E q \in DOMAIN open : new[p].key = open[q].key
               \/ \E k \in 1..(n + 1) : new[p].key = <<"span", mail[k].span>>
    <3>1. CASE p = L + 1
      BY <1>3, <2>4, <3>1
    <3>2. CASE p \in 1..L
      BY <1>2, <2>3, <3>2 DEF MailAfter
    <3>3. QED
      BY <2>3, <3>1, <3>2
  <2>6. ASSUME NEW q \in DOMAIN open
        PROVE  \E p \in DOMAIN new : new[p].key = open[q].key
    <3>1. PICK p \in DOMAIN lines : lines[p].key = open[q].key
      BY DEF MailAfter
    <3>2. QED
      BY <2>3, <3>1
  <2>7. ASSUME NEW k \in 1..(n + 1)
        PROVE  Shows(new, mail[k])
    <3>1. CASE k = n + 1
      BY <2>4, <3>1 DEF Shows
    <3>2. CASE k \in 1..n
      <4>1. Shows(lines, mail[k])
        BY <3>2 DEF MailAfter
      <4>2. \A p \in DOMAIN lines : p \in DOMAIN new /\ new[p] = lines[p]
        BY <2>3
      <4>3. QED
        BY <4>1, <4>2 DEF Shows
    <3>3. QED
      BY <1>3, <3>1, <3>2
  <2>8. ASSUME NEW p \in DOMAIN new, NEW q \in DOMAIN new, new[p].key = new[q].key
        PROVE  p = q
    <3>1. CASE p \in 1..L /\ q \in 1..L
      BY <2>3, <2>8, <3>1 DEF MailAfter
    <3>2. \A i \in 1..L : new[i].key # key
      BY <1>4, <2>3
    <3>3. QED
      BY <2>3, <2>4, <2>8, <3>1, <3>2
  <2>9. MailAfter(new, open, mail, n + 1)
    BY <2>5, <2>6, <2>7, <2>8 DEF MailAfter
  <2>10. QED
    BY <2>1, <2>9
<1>7. QED
  BY <1>5, <1>6

\* The index with the mail is as it should be after the last envelope.
LEMMA WithMailIs ==
  ASSUME NEW open \in Seq(TaskLines), \A q \in DOMAIN open : open[q].key[1] # "span",
         \A p, q \in DOMAIN open : open[p].key = open[q].key => p = q,
         NEW mail \in Seq(QueuedMail), SpansApart(mail)
  PROVE  WithMail(open, mail) \in Seq(TaskLines)
         /\ MailAfter(WithMail(open, mail), open, mail, Len(mail))
<1> DEFINE N == Len(mail)
<1>1. PICK f : IsMailing(f, open, mail) /\ WithMail(open, mail) = f[N]
  BY WithMailFold
<1> DEFINE G == {n \in 0..N : MailAfter(f[n], open, mail, n)}
<1>2. N \in Nat /\ DOMAIN mail = 1..N
  BY LenProperties
<1>3. 0 \in G
  <2>1. 0 \in 0..N /\ f[0] = open
    BY <1>1, <1>2 DEF IsMailing
  <2>2. MailAfter(open, open, mail, 0)
    BY DEF MailAfter
  <2>3. QED
    BY <2>1, <2>2
<1>4. ASSUME NEW k \in 1..N, k - 1 \in G
      PROVE  k \in G
  <2> DEFINE n == k - 1
             lines == f[n]
  <2>1. n \in Nat /\ n + 1 = k /\ n \in 0..N /\ k \in 0..N /\ n + 1 \in DOMAIN mail
    BY <1>2
  <2>2. lines \in Seq(TaskLines) /\ MailAfter(lines, open, mail, n)
    BY <1>1, <1>4, <2>1 DEF IsMailing
  <2>3. f[k] = WithEnvelope(lines, mail[n + 1])
    BY <1>1, <2>1 DEF IsMailing
  <2> HIDE DEF n, lines
  <2>4. MailAfter(WithEnvelope(lines, mail[n + 1]), open, mail, n + 1)
    BY <2>1, <2>2, EnvelopeIsAdded
  <2>5. QED
    BY <2>1, <2>3, <2>4
<1>5. N \in G
  <2> HIDE DEF G
  <2>1. \A n \in 0..N : n \in G
    BY <1>2, <1>3, <1>4, UpToAll
  <2>2. N \in 0..N
    BY <1>2
  <2>3. QED
    BY <2>1, <2>2
<1>6. f[N] \in Seq(TaskLines)
  <2>1. N \in 0..N
    BY <1>2
  <2>2. QED
    BY <1>1, <2>1 DEF IsMailing
<1>7. QED
  BY <1>1, <1>5, <1>6

-----------------------------------------------------------------------------
(* The steps                                                               *)

\* A row is written to the transcript and, with it, to what there ever was.
LEMMA WrittenRow ==
  ASSUME TasksInv, NEW row \in TaskRows, Written(row)
  PROVE  /\ past' \in Seq(TaskRows) /\ script' \in Seq(TaskRows)
         /\ Len(past) \in Nat /\ DOMAIN past = 1..Len(past)
         /\ DOMAIN past' = 1..(Len(past) + 1)
         /\ \A n \in 1..Len(past) : past'[n] = past[n]
         /\ past'[Len(past) + 1] = row
         /\ \A n \in 1..(Len(past) + 1) : n = Len(past) + 1 \/ n \in 1..Len(past)
         /\ ScriptIsTail'
<1>1. past \in Seq(TaskRows) /\ script \in Seq(TaskRows)
  BY DEF TasksInv, TasksTyped
<1>2. past' = Append(past, row) /\ script' = Append(script, row)
  BY DEF Written
<1>3. /\ past' \in Seq(TaskRows) /\ script' \in Seq(TaskRows)
      /\ Len(past) \in Nat /\ DOMAIN past = 1..Len(past)
      /\ Len(past') = Len(past) + 1 /\ DOMAIN past' = 1..(Len(past) + 1)
      /\ \A n \in 1..Len(past) : past'[n] = past[n]
      /\ past'[Len(past) + 1] = row
  BY <1>1, <1>2, AppendProperties, LenProperties
<1>4. /\ Len(script) \in Nat /\ DOMAIN script = 1..Len(script)
      /\ Len(script') = Len(script) + 1 /\ DOMAIN script' = 1..(Len(script) + 1)
      /\ \A n \in 1..Len(script) : script'[n] = script[n]
      /\ script'[Len(script) + 1] = row
  BY <1>1, <1>2, AppendProperties, LenProperties
<1>5. ScriptIsTail'
  <2>1. PICK c \in 0..Len(past) : /\ Len(past) = c + Len(script)
                                  /\ \A n \in DOMAIN script : script[n] = past[c + n]
    BY DEF TasksInv, ScriptIsTail
  <2>2. c \in 0..Len(past') /\ Len(past') = c + Len(script')
    BY <1>3, <1>4, <2>1
  <2>3. ASSUME NEW n \in DOMAIN script'
        PROVE  script'[n] = past'[c + n]
    <3>1. CASE n = Len(script) + 1
      <4>1. c + n = Len(past) + 1
        BY <1>3, <1>4, <2>1, <3>1
      <4>2. QED
        BY <1>3, <1>4, <3>1, <4>1
    <3>2. CASE n \in 1..Len(script)
      <4>1. c + n \in 1..Len(past)
        BY <1>3, <1>4, <2>1, <3>2
      <4>2. QED
        BY <1>3, <1>4, <2>1, <3>2, <4>1
    <3>3. QED
      BY <1>4, <3>1, <3>2
  <2>4. QED
    BY <2>2, <2>3 DEF ScriptIsTail
<1>6. QED
  BY <1>3, <1>5

\* What is true of the mail stays true while rows are written.
LEMMA MailStaysTold ==
  ASSUME TasksInv, NEW row \in TaskRows, Written(row), posted' = posted
  PROVE  posted' \in Seq(QueuedMail) /\ MailIsTold'
<1>1. \A m \in DOMAIN past : m \in DOMAIN past' /\ past'[m] = past[m]
  BY WrittenRow
<1>2. posted' \in Seq(QueuedMail)
  BY DEF TasksInv, TasksTyped
<1>3. ASSUME NEW n \in DOMAIN posted'
      PROVE  \/ posted'[n].span > MaxCalls
             \/ \E m \in DOMAIN past' :
                    past'[m].type = "answer" /\ past'[m].id = posted'[n].span
  BY <1>1 DEF TasksInv, MailIsTold
<1>4. SpansApart(posted)'
  BY DEF TasksInv, MailIsTold, SpansApart
<1>5. QED
  BY <1>2, <1>3, <1>4 DEF MailIsTold

\* The ids of the calls are the numbers up to their count.
LEMMA CallIdsAre ==
  ASSUME TasksInv
  PROVE  \E k \in Nat : CallIds = 1..k /\ NextCall = k + 1
<1>1. PICK k \in Nat : CallIds = 1..k
  BY DEF TasksInv, CallsAreNumbered
<1>2. Cardinality(1..k) = k
  BY FS_Interval
<1>3. QED
  BY <1>1, <1>2 DEF NextCall

\* A new call gets the next id.
LEMMA CallKeepsInv ==
  ASSUME TasksInv, NEW row \in TaskCallRows, row.id = NextCall, Written(row), posted' = posted
  PROVE  TasksInv'
<1>1. row \in TaskRows /\ row.type = "call"
  BY DEF TaskRows, TaskCallRows
<1>2. PICK k \in Nat : CallIds = 1..k /\ NextCall = k + 1
  BY CallIdsAre
<1> DEFINE L == Len(past)
<1>3. /\ L \in Nat /\ DOMAIN past = 1..L /\ DOMAIN past' = 1..(L + 1)
      /\ \A n \in 1..L : past'[n] = past[n]
      /\ past'[L + 1] = row
      /\ \A n \in 1..(L + 1) : n = L + 1 \/ n \in 1..L
      /\ past' \in Seq(TaskRows) /\ script' \in Seq(TaskRows) /\ ScriptIsTail'
  BY <1>1, WrittenRow
<1>4. L + 1 \in 1..(L + 1) /\ \A n \in 1..L : n \in 1..(L + 1)
  BY <1>3
<1> HIDE DEF L
<1>5. CallIds' = CallIds \cup {k + 1}
  <2>1. \A i : i \in CallIds <=> \E n \in 1..L : past[n].type = "call" /\ past[n].id = i
    BY <1>3 DEF CallIds
  <2>2. \A i : i \in CallIds' <=> \E n \in 1..(L + 1) : past'[n].type = "call" /\ past'[n].id = i
    BY <1>3 DEF CallIds
  <2>3. row.id = k + 1
    BY <1>2
  <2>4. ASSUME NEW i
        PROVE  i \in CallIds' <=> i \in CallIds \/ i = k + 1
    BY <1>1, <1>3, <1>4, <2>1, <2>2, <2>3
  <2>5. QED
    BY <2>4
<1>6. CallsAreNumbered'
  <2>1. 1..(k + 1) = (1..k) \cup {k + 1} /\ k + 1 \in Nat
    OBVIOUS
  <2>2. QED
    BY <1>2, <1>5, <2>1 DEF CallsAreNumbered
<1>7. \A n \in 1..L : past[n].type = "call" => past[n].id # row.id
  <2>1. \A n \in 1..L : past[n].type = "call" => past[n].id \in 1..k
    BY <1>2, <1>3 DEF CallIds
  <2>2. k + 1 \notin 1..k
    OBVIOUS
  <2>3. QED
    BY <1>2, <2>1, <2>2
<1>8. CallsAreOnce(past)'
  <2> SUFFICES ASSUME NEW m \in DOMAIN past', NEW n \in DOMAIN past',
                      past'[m].type = "call", past'[n].type = "call", past'[m].id = past'[n].id
               PROVE  m = n
    BY DEF CallsAreOnce
  <2>1. CASE m \in 1..L /\ n \in 1..L
    BY <1>3, <2>1 DEF TasksInv, CallsAreOnce
  <2>2. QED
    BY <1>3, <1>7, <2>1
<1>9. AnswersFollow'
  <2> SUFFICES ASSUME NEW n \in DOMAIN past', past'[n].type = "answer"
               PROVE  \E m \in DOMAIN past' :
                        /\ n = m + 1 /\ past'[m].type = "call" /\ past'[m].id = past'[n].id
                        /\ OutcomeFits(past'[m].name, past'[n].outcome)
    BY DEF AnswersFollow
  <2>1. n \in 1..L /\ past[n].type = "answer" /\ past'[n] = past[n]
    BY <1>1, <1>3
  <2>2. PICK m \in DOMAIN past :
                        /\ n = m + 1 /\ past[m].type = "call" /\ past[m].id = past[n].id
                        /\ OutcomeFits(past[m].name, past[n].outcome)
    BY <1>3, <2>1 DEF TasksInv, AnswersFollow
  <2>3. QED
    BY <1>3, <1>4, <2>1, <2>2
<1>10. posted' \in Seq(QueuedMail) /\ MailIsTold'
  BY <1>1, MailStaysTold
<1>11. QED
  BY <1>3, <1>6, <1>8, <1>9, <1>10 DEF TasksInv, TasksTyped

\* The call that waits for its result is the last row there is, and has none.
LEMMA AskedIsLast ==
  ASSUME TasksInv, NEW call \in Asked
  PROVE  /\ Len(past) \in Nat \ {0} /\ Len(past) \in DOMAIN past
         /\ call = past[Len(past)] /\ call.type = "call" /\ call \in TaskCallRows
         /\ \A n \in DOMAIN past : past[n].type = "answer" => past[n].id # call.id
<1> DEFINE L == Len(past)
           M == Len(script)
<1>1. past \in Seq(TaskRows) /\ script \in Seq(TaskRows)
  BY DEF TasksInv, TasksTyped
<1>2. /\ L \in Nat /\ M \in Nat /\ DOMAIN past = 1..L /\ DOMAIN script = 1..M
  BY <1>1, LenProperties
<1>3. script # <<>> /\ call = Last(script) /\ call.type = "call"
  BY DEF Asked
<1>4. M # 0
  BY <1>1, <1>3, EmptySeq
<1>5. call = script[M] /\ M \in DOMAIN script
  BY <1>2, <1>3, <1>4 DEF Last
<1>6. call = past[L] /\ L # 0
  <2>1. PICK c \in 0..L : L = c + M /\ \A n \in DOMAIN script : script[n] = past[c + n]
    BY DEF TasksInv, ScriptIsTail
  <2>2. QED
    BY <1>2, <1>4, <1>5, <2>1
<1>7. L \in 1..L
  BY <1>2, <1>6
<1>8. call \in TaskCallRows
  <2>1. call \in TaskRows
    BY <1>1, <1>2, <1>6, <1>7, ElementOfSeq
  <2>2. QED
    BY <1>3, <2>1 DEF TaskRows, TaskAnswerRows, TaskEventRows
<1>9. ASSUME NEW n \in DOMAIN past, past[n].type = "answer", past[n].id = call.id
      PROVE  FALSE
  <2>1. PICK m \in DOMAIN past : n = m + 1 /\ past[m].type = "call" /\ past[m].id = past[n].id
    BY <1>9 DEF TasksInv, AnswersFollow
  <2>2. m = L
    BY <1>2, <1>3, <1>6, <1>7, <1>9, <2>1 DEF TasksInv, CallsAreOnce
  <2>3. QED
    BY <1>2, <2>1, <2>2
<1>10. QED
  BY <1>2, <1>3, <1>6, <1>7, <1>8, <1>9

\* A result answers the last row; what it posts is new.
LEMMA AnswerKeepsInv ==
  ASSUME TasksInv, NEW call \in Asked, NEW outcome, OutcomeFits(call.name, outcome),
         Resulted(call, outcome),
         \/ posted' = posted
         \/ /\ call.name = "delegate"
            /\ posted' = Append(posted, [span |-> call.id, to |-> call.peer, room |-> Here])
  PROVE  TasksInv'
<1> DEFINE L == Len(past)
           row == [type |-> "answer", id |-> call.id, outcome |-> outcome]
<1>1. /\ L \in Nat \ {0} /\ L \in DOMAIN past
      /\ call = past[L] /\ call.type = "call" /\ call \in TaskCallRows
      /\ \A n \in DOMAIN past : past[n].type = "answer" => past[n].id # call.id
  BY AskedIsLast
<1>2. row \in TaskRows /\ row.type = "answer" /\ row.id = call.id /\ row.outcome = outcome
      /\ call.id \in Nat /\ call.id <= MaxCalls /\ (call.name = "delegate" => call.peer \in Peers)
  <2>1. outcome \in {"open", "refused", "error", "done", "queued"}
    BY DEF OutcomeFits
  <2>2. call.id \in 1..MaxCalls /\ (call.name = "delegate" => call.peer \in Peers)
    BY <1>1 DEF TaskCallRows
  <2>3. MaxCalls \in Nat
    BY BotTasksAssumption
  <2>4. QED
    BY <2>1, <2>2, <2>3 DEF TaskRows, TaskAnswerRows
<1>3. Written(row)
  BY DEF Resulted
<1> HIDE DEF row
<1>4. /\ DOMAIN past = 1..L /\ DOMAIN past' = 1..(L + 1)
      /\ \A n \in 1..L : past'[n] = past[n]
      /\ past'[L + 1] = row
      /\ \A n \in 1..(L + 1) : n = L + 1 \/ n \in 1..L
      /\ past' \in Seq(TaskRows) /\ script' \in Seq(TaskRows) /\ ScriptIsTail'
  BY <1>2, <1>3, WrittenRow
<1>5. L + 1 \in 1..(L + 1) /\ L \in 1..L /\ \A n \in 1..L : n \in 1..(L + 1)
  BY <1>1
<1> HIDE DEF L
<1>6. CallIds' = CallIds
  <2>1. \A i : i \in CallIds <=> \E n \in 1..L : past[n].type = "call" /\ past[n].id = i
    BY <1>4 DEF CallIds
  <2>2. \A i : i \in CallIds' <=> \E n \in 1..(L + 1) : past'[n].type = "call" /\ past'[n].id = i
    BY <1>4 DEF CallIds
  <2>3. ASSUME NEW i
        PROVE  i \in CallIds' <=> i \in CallIds
    BY <1>2, <1>4, <1>5, <2>1, <2>2
  <2>4. QED
    BY <2>3
<1>7. CallsAreNumbered'
  BY <1>6 DEF TasksInv, CallsAreNumbered
<1>8. CallsAreOnce(past)'
  <2> SUFFICES ASSUME NEW m \in DOMAIN past', NEW n \in DOMAIN past',
                      past'[m].type = "call", past'[n].type = "call", past'[m].id = past'[n].id
               PROVE  m = n
    BY DEF CallsAreOnce
  <2>1. m \in 1..L /\ n \in 1..L
    BY <1>2, <1>4
  <2>2. QED
    BY <1>4, <2>1 DEF TasksInv, CallsAreOnce
<1>9. AnswersFollow'
  <2> SUFFICES ASSUME NEW n \in DOMAIN past', past'[n].type = "answer"
               PROVE  \E m \in DOMAIN past' :
                        /\ n = m + 1 /\ past'[m].type = "call" /\ past'[m].id = past'[n].id
                        /\ OutcomeFits(past'[m].name, past'[n].outcome)
    BY DEF AnswersFollow
  <2>1. CASE n = L + 1
    BY <1>1, <1>2, <1>4, <1>5, <2>1
  <2>2. CASE n \in 1..L
    <3>1. past[n].type = "answer" /\ past'[n] = past[n]
      BY <1>4, <2>2
    <3>2. PICK m \in DOMAIN past :
                        /\ n = m + 1 /\ past[m].type = "call" /\ past[m].id = past[n].id
                        /\ OutcomeFits(past[m].name, past[n].outcome)
      BY <1>4, <2>2, <3>1 DEF TasksInv, AnswersFollow
    <3>3. QED
      BY <1>4, <1>5, <3>1, <3>2
  <2>3. QED
    BY <1>4, <2>1, <2>2
<1>10. posted' \in Seq(QueuedMail) /\ MailIsTold'
  <2>1. CASE posted' = posted
    BY <1>2, <1>3, <2>1, MailStaysTold
  <2>2. CASE /\ call.name = "delegate"
             /\ posted' = Append(posted, [span |-> call.id, to |-> call.peer, room |-> Here])
    <3> DEFINE e == [span |-> call.id, to |-> call.peer, room |-> Here]
               P == Len(posted)
    <3>1. posted \in Seq(QueuedMail) /\ e \in QueuedMail
      BY <1>2, <2>2, BotTasksAssumption DEF TasksInv, TasksTyped, QueuedMail
    <3>2. /\ posted' \in Seq(QueuedMail) /\ P \in Nat /\ DOMAIN posted = 1..P
          /\ DOMAIN posted' = 1..(P + 1) /\ posted'[P + 1] = e
          /\ \A n \in 1..P : posted'[n] = posted[n]
          /\ \A n \in 1..(P + 1) : n = P + 1 \/ n \in 1..P
      BY <2>2, <3>1, AppendProperties, LenProperties
    <3>3. e.span = call.id /\ e.to = call.peer
      OBVIOUS
    <3> HIDE DEF e, P
    <3>4. ASSUME NEW n \in 1..P
          PROVE  /\ posted[n].span # call.id
                 /\ \/ posted[n].span > MaxCalls
                    \/ \E m \in DOMAIN past' :
                         past'[m].type = "answer" /\ past'[m].id = posted[n].span
      <4>1. CASE posted[n].span > MaxCalls
        <5>1. MaxCalls \in Nat
          BY BotTasksAssumption
        <5>2. posted[n] \in QueuedMail
          BY <3>1, <3>2, ElementOfSeq
        <5>3. posted[n].span \in Nat
          BY <5>2 DEF QueuedMail
        <5>4. QED
          BY <1>2, <4>1, <5>1, <5>3
      <4>2. CASE \E m \in DOMAIN past :
                    past[m].type = "answer" /\ past[m].id = posted[n].span
        BY <1>1, <1>4, <1>5, <4>2
      <4>3. QED
        BY <3>2, <4>1, <4>2 DEF TasksInv, MailIsTold
    <3>5. ASSUME NEW n \in DOMAIN posted'
          PROVE  \/ posted'[n].span > MaxCalls
                 \/ \E m \in DOMAIN past' :
                      past'[m].type = "answer" /\ past'[m].id = posted'[n].span
      <4>1. CASE n = P + 1
        BY <1>2, <1>4, <1>5, <2>2, <3>2, <3>3, <4>1
      <4>2. QED
        BY <3>2, <3>4, <4>1
    <3>6. SpansApart(posted)'
      <4> SUFFICES ASSUME NEW m \in DOMAIN posted', NEW n \in DOMAIN posted',
                          posted'[m].span = posted'[n].span
                   PROVE  m = n
        BY DEF SpansApart
      <4>1. CASE m \in 1..P /\ n \in 1..P
        BY <3>2, <4>1 DEF TasksInv, MailIsTold, SpansApart
      <4>2. QED
        BY <3>2, <3>3, <3>4, <4>1
    <3>7. QED
      BY <3>2, <3>5, <3>6 DEF MailIsTold
  <2>3. QED
    BY <2>1, <2>2
<1>11. QED
  BY <1>4, <1>7, <1>8, <1>9, <1>10 DEF TasksInv, TasksTyped

\* An event is neither a call nor an answer.
LEMMA EventKeepsInv ==
  ASSUME TasksInv, NEW row \in TaskEventRows, Written(row), posted' = posted
  PROVE  TasksInv'
<1> DEFINE L == Len(past)
<1>1. row \in TaskRows /\ row.type = "event"
  BY DEF TaskRows, TaskEventRows
<1>2. /\ L \in Nat /\ DOMAIN past = 1..L /\ DOMAIN past' = 1..(L + 1)
      /\ \A n \in 1..L : past'[n] = past[n]
      /\ past'[L + 1] = row
      /\ \A n \in 1..(L + 1) : n = L + 1 \/ n \in 1..L
      /\ past' \in Seq(TaskRows) /\ script' \in Seq(TaskRows) /\ ScriptIsTail'
  BY <1>1, WrittenRow
<1>3. L + 1 \in 1..(L + 1) /\ \A n \in 1..L : n \in 1..(L + 1)
  BY <1>2
<1> HIDE DEF L
<1>4. CallIds' = CallIds
  <2>1. \A i : i \in CallIds <=> \E n \in 1..L : past[n].type = "call" /\ past[n].id = i
    BY <1>2 DEF CallIds
  <2>2. \A i : i \in CallIds' <=> \E n \in 1..(L + 1) : past'[n].type = "call" /\ past'[n].id = i
    BY <1>2 DEF CallIds
  <2>3. ASSUME NEW i
        PROVE  i \in CallIds' <=> i \in CallIds
    BY <1>1, <1>2, <1>3, <2>1, <2>2
  <2>4. QED
    BY <2>3
<1>5. CallsAreNumbered'
  BY <1>4 DEF TasksInv, CallsAreNumbered
<1>6. CallsAreOnce(past)'
  <2> SUFFICES ASSUME NEW m \in DOMAIN past', NEW n \in DOMAIN past',
                      past'[m].type = "call", past'[n].type = "call", past'[m].id = past'[n].id
               PROVE  m = n
    BY DEF CallsAreOnce
  <2>1. m \in 1..L /\ n \in 1..L
    BY <1>1, <1>2
  <2>2. QED
    BY <1>2, <2>1 DEF TasksInv, CallsAreOnce
<1>7. AnswersFollow'
  <2> SUFFICES ASSUME NEW n \in DOMAIN past', past'[n].type = "answer"
               PROVE  \E m \in DOMAIN past' :
                        /\ n = m + 1 /\ past'[m].type = "call" /\ past'[m].id = past'[n].id
                        /\ OutcomeFits(past'[m].name, past'[n].outcome)
    BY DEF AnswersFollow
  <2>1. n \in 1..L /\ past[n].type = "answer" /\ past'[n] = past[n]
    BY <1>1, <1>2
  <2>2. PICK m \in DOMAIN past :
                        /\ n = m + 1 /\ past[m].type = "call" /\ past[m].id = past[n].id
                        /\ OutcomeFits(past[m].name, past[n].outcome)
    BY <1>2, <2>1 DEF TasksInv, AnswersFollow
  <2>3. QED
    BY <1>2, <1>3, <2>1, <2>2
<1>8. posted' \in Seq(QueuedMail) /\ MailIsTold'
  BY <1>1, MailStaysTold
<1>9. QED
  BY <1>2, <1>5, <1>6, <1>7, <1>8 DEF TasksInv, TasksTyped

\* What is true of the rows there ever were stays true while none is written.
LEMMA PastKept ==
  ASSUME TasksInv, past' = past
  PROVE  past' \in Seq(TaskRows) /\ CallsAreNumbered' /\ CallsAreOnce(past)' /\ AnswersFollow'
<1>1. past \in Seq(TaskRows) /\ CallsAreNumbered /\ CallsAreOnce(past) /\ AnswersFollow
  BY DEF TasksInv, TasksTyped
<1>2. CallIds' = CallIds
  BY DEF CallIds
<1>3. CallsAreNumbered'
  BY <1>1, <1>2 DEF CallsAreNumbered
<1>4. CallsAreOnce(past)'
  BY <1>1 DEF CallsAreOnce
<1>5. AnswersFollow'
  BY <1>1 DEF AnswersFollow
<1>6. QED
  BY <1>1, <1>3, <1>4, <1>5

\* A compaction takes rows from the front.
LEMMA CompactKeepsInv ==
  ASSUME TasksInv, NEW k \in 1..Len(script), CompactScript(k)
  PROVE  TasksInv'
<1>1. past \in Seq(TaskRows) /\ script \in Seq(TaskRows) /\ Len(script) \in Nat
      /\ DOMAIN script = 1..Len(script)
  BY LenProperties DEF TasksInv, TasksTyped
<1>2. script' = SubSeq(script, k + 1, Len(script)) /\ past' = past /\ posted' = posted
  BY DEF CompactScript
<1>3. /\ script' \in Seq(TaskRows) /\ Len(script') = Len(script) - k
      /\ \A n \in 1..Len(script') : script'[n] = script[k + n]
  <2>1. \A i \in (k + 1)..Len(script) : script[i] \in TaskRows
    BY <1>1, ElementOfSeq
  <2>2. k + 1 \in Int /\ Len(script) \in Int
    BY <1>1
  <2>3. /\ script' \in Seq(TaskRows)
        /\ Len(script') = IF k + 1 <= Len(script) THEN Len(script) - (k + 1) + 1 ELSE 0
        /\ \A n \in 1..(Len(script) - (k + 1) + 1) : script'[n] = script[k + 1 + n - 1]
    BY <1>2, <2>1, <2>2, SubSeqProperties
  <2>4. /\ Len(script) - (k + 1) + 1 = Len(script) - k
        /\ (IF k + 1 <= Len(script) THEN Len(script) - (k + 1) + 1 ELSE 0) = Len(script) - k
    <3>1. \A n \in Nat : \A i \in 1..n :
            /\ n - (i + 1) + 1 = n - i
            /\ (IF i + 1 <= n THEN n - (i + 1) + 1 ELSE 0) = n - i
      OBVIOUS
    <3>2. QED
      BY <1>1, <3>1
  <2>5. \A n \in 1..(Len(script) - k) : k + 1 + n - 1 = k + n
    OBVIOUS
  <2>6. QED
    BY <2>3, <2>4, <2>5
<1>4. ScriptIsTail'
  <2>1. PICK c \in 0..Len(past) : /\ Len(past) = c + Len(script)
                                  /\ \A n \in DOMAIN script : script[n] = past[c + n]
    BY DEF TasksInv, ScriptIsTail
  <2>2. c + k \in 0..Len(past') /\ Len(past') = (c + k) + Len(script')
    <3>1. Len(past) \in Nat /\ Len(past') = Len(past)
      BY <1>1, <1>2, LenProperties
    <3>2. Len(script') = Len(script) - k
      BY <1>3
    <3>3. QED
      BY <1>1, <2>1, <3>1, <3>2
  <2>3. DOMAIN script' = 1..Len(script')
    BY <1>3, LenProperties
  <2>4. ASSUME NEW n \in DOMAIN script'
        PROVE  script'[n] = past'[(c + k) + n]
    <3>1. script'[n] = script[k + n] /\ k + n \in DOMAIN script
      BY <1>1, <1>3, <2>3
    <3>2. script[k + n] = past[c + (k + n)]
      BY <2>1, <3>1
    <3>3. c + (k + n) = (c + k) + n
      BY <2>3
    <3>4. QED
      BY <1>2, <3>1, <3>2, <3>3
  <2>5. QED
    BY <2>2, <2>4 DEF ScriptIsTail
<1>5. QED
  <2>1. posted' \in Seq(QueuedMail) /\ MailIsTold'
    BY <1>2 DEF TasksInv, TasksTyped, MailIsTold, SpansApart
  <2>2. QED
    BY <1>2, <1>3, <1>4, <2>1, PastKept DEF TasksInv, TasksTyped

\* What peers, and other windows, write has a span of its own.
LEMMA OthersKeepInv ==
  ASSUME TasksInv, NEW span \in MaxCalls + 1 .. MaxCalls + MaxOthers,
         NEW to \in Peers \cup {NoPeer}, NEW room \in Origins, OthersWrite(span, to, room)
  PROVE  TasksInv'
<1> DEFINE e == [span |-> span, to |-> to, room |-> room]
           P == Len(posted)
<1>1. MaxCalls \in Nat /\ span \in Nat /\ span > MaxCalls
  BY BotTasksAssumption
<1>2. posted \in Seq(QueuedMail) /\ e \in QueuedMail
  BY <1>1 DEF TasksInv, TasksTyped, QueuedMail
<1>3. /\ posted' \in Seq(QueuedMail) /\ P \in Nat /\ DOMAIN posted = 1..P
      /\ DOMAIN posted' = 1..(P + 1) /\ posted'[P + 1] = e
      /\ \A n \in 1..P : posted'[n] = posted[n]
      /\ \A n \in 1..(P + 1) : n = P + 1 \/ n \in 1..P
  BY <1>2, AppendProperties, LenProperties DEF OthersWrite
<1>4. e.span = span
  OBVIOUS
<1>5. past' = past /\ script' = script /\ \A n \in 1..P : posted[n].span # span
  BY <1>3 DEF OthersWrite
<1> HIDE DEF e, P
<1>6. ASSUME NEW n \in DOMAIN posted'
      PROVE  \/ posted'[n].span > MaxCalls
             \/ \E m \in DOMAIN past' :
                  past'[m].type = "answer" /\ past'[m].id = posted'[n].span
  <2>1. CASE n = P + 1
    BY <1>1, <1>3, <1>4, <2>1
  <2>2. CASE n \in 1..P
    BY <1>3, <1>5, <2>2 DEF TasksInv, MailIsTold
  <2>3. QED
    BY <1>3, <2>1, <2>2
<1>7. SpansApart(posted)'
  <2> SUFFICES ASSUME NEW m \in DOMAIN posted', NEW n \in DOMAIN posted',
                      posted'[m].span = posted'[n].span
               PROVE  m = n
    BY DEF SpansApart
  <2>1. CASE m \in 1..P /\ n \in 1..P
    BY <1>3, <2>1 DEF TasksInv, MailIsTold, SpansApart
  <2>2. QED
    BY <1>3, <1>4, <1>5, <2>1
<1>8. QED
  <2>1. script' \in Seq(TaskRows) /\ ScriptIsTail'
    BY <1>5 DEF TasksInv, TasksTyped, ScriptIsTail
  <2>2. MailIsTold'
    BY <1>6, <1>7 DEF MailIsTold
  <2>3. QED
    BY <1>3, <1>5, <2>1, <2>2, PastKept DEF TasksInv, TasksTyped

\* A drained mailbox takes envelopes away.
LEMMA DrainKeepsInv ==
  ASSUME TasksInv, NEW box, NEW readable, DrainMail(box, readable)
  PROVE  TasksInv'
<1> DEFINE P == {n \in DOMAIN posted : posted[n].to # box \/ posted[n].room \notin readable}
<1>1. posted \in Seq(QueuedMail) /\ P \in SUBSET DOMAIN posted
  BY DEF TasksInv, TasksTyped
<1>2. posted' = KeptAt(posted, P) /\ past' = past /\ script' = script
  BY DEF DrainMail
<1> HIDE DEF P
<1>3. /\ posted' \in Seq(QueuedMail) /\ DOMAIN posted' = 1..Cardinality(P) /\ Cardinality(P) \in Nat
      /\ \A n \in DOMAIN posted' : Nth(P, n) \in P /\ posted'[n] = posted[Nth(P, n)]
  BY <1>1, <1>2, KeptIsSeq
<1>4. ASSUME NEW m \in DOMAIN posted', NEW n \in DOMAIN posted', m < n
      PROVE  Nth(P, m) # Nth(P, n)
  <2>1. Nth(P, m) < Nth(P, n)
    BY <1>1, <1>2, <1>4, KeptInOrder
  <2>2. Nth(P, m) \in Nat /\ Nth(P, n) \in Nat
    BY <1>1, <1>3, LenProperties
  <2>3. QED
    BY <2>1, <2>2
<1>5. \A n \in DOMAIN posted' :
        \/ posted'[n].span > MaxCalls
        \/ \E m \in DOMAIN past' :
              past'[m].type = "answer" /\ past'[m].id = posted'[n].span
  BY <1>1, <1>2, <1>3 DEF TasksInv, MailIsTold
<1>6. SpansApart(posted)'
  <2> SUFFICES ASSUME NEW m \in DOMAIN posted', NEW n \in DOMAIN posted',
                      posted'[m].span = posted'[n].span
               PROVE  m = n
    BY DEF SpansApart
  <2>1. Nth(P, m) = Nth(P, n)
    BY <1>1, <1>3 DEF TasksInv, MailIsTold, SpansApart
  <2>2. m \in Nat /\ n \in Nat
    BY <1>3
  <2>3. QED
    BY <1>4, <2>1, <2>2
<1>7. QED
  <2>1. script' \in Seq(TaskRows) /\ ScriptIsTail'
    BY <1>2 DEF TasksInv, TasksTyped, ScriptIsTail
  <2>2. MailIsTold'
    BY <1>5, <1>6 DEF MailIsTold
  <2>3. QED
    BY <1>2, <1>3, <2>1, <2>2, PastKept DEF TasksInv, TasksTyped

\* Before any turn nothing is open (bots/tasks.py).
LEMMA TasksInit_Inv ==
  ASSUME TasksInit
  PROVE  TasksInv
<1>1. past = <<>> /\ script = <<>> /\ posted = <<>>
  BY DEF TasksInit
<1>2. TasksTyped
  BY <1>1, EmptySeq DEF TasksTyped
<1>3. DOMAIN past = {} /\ DOMAIN script = {} /\ DOMAIN posted = {} /\ Len(past) = 0 /\ Len(script) = 0
  BY <1>1
<1>4. CallsAreNumbered
  <2>1. CallIds = 1..0
    BY <1>3 DEF CallIds
  <2>2. QED
    BY <2>1 DEF CallsAreNumbered
<1>5. ScriptIsTail
  BY <1>3 DEF ScriptIsTail
<1>6. QED
  BY <1>2, <1>3, <1>4, <1>5
  DEF TasksInv, CallsAreOnce, AnswersFollow, MailIsTold, SpansApart

\* Each step of a turn, a compaction, another writer or a drain keeps TasksInv (bots/tasks.py).
LEMMA TasksNext_Inv ==
  ASSUME TasksInv, [TasksNext]_tasksVars
  PROVE  TasksInv'
<1>1. ASSUME NEW w \in Works \cup {NoWork}, CallTaskOpen(w)
      PROVE  TasksInv'
  <2> DEFINE row == [type |-> "call", id |-> NextCall, name |-> "open", peer |-> NoPeer, work |-> w]
  <2>1. Written(row) /\ posted' = posted /\ NextCall <= MaxCalls
    BY <1>1 DEF CallTaskOpen
  <2>2. NextCall \in 1..MaxCalls
    BY <2>1, CallIdsAre, BotTasksAssumption
  <2>3. row \in TaskCallRows /\ row.id = NextCall
    BY <2>2 DEF TaskCallRows
  <2> HIDE DEF row
  <2>4. QED
    BY <2>1, <2>3, CallKeepsInv
<1>2. ASSUME NEW p \in Peers, CallDelegate(p)
      PROVE  TasksInv'
  <2> DEFINE row == [type |-> "call", id |-> NextCall, name |-> "delegate", peer |-> p, work |-> NoWork]
  <2>1. Written(row) /\ posted' = posted /\ NextCall <= MaxCalls
    BY <1>2 DEF CallDelegate
  <2>2. NextCall \in 1..MaxCalls
    BY <2>1, CallIdsAre, BotTasksAssumption
  <2>3. row \in TaskCallRows /\ row.id = NextCall
    BY <2>2 DEF TaskCallRows
  <2> HIDE DEF row
  <2>4. QED
    BY <2>1, <2>3, CallKeepsInv
<1>3. ASSUME NEW outcome \in {"open", "refused", "error"}, AckTaskOpen(outcome)
      PROVE  TasksInv'
  <2>1. PICK call \in Asked : call.name = "open" /\ Resulted(call, outcome)
    BY <1>3 DEF AckTaskOpen
  <2>2. OutcomeFits(call.name, outcome)
    BY <2>1 DEF OutcomeFits
  <2>3. posted' = posted
    BY <1>3 DEF AckTaskOpen
  <2>4. QED
    BY <2>1, <2>2, <2>3, AnswerKeepsInv
<1>4. ASSUME NEW outcome \in {"error", "done", "queued"}, NEW queues \in BOOLEAN,
             AckDelegate(outcome, queues)
      PROVE  TasksInv'
  <2>1. PICK call \in Asked :
          /\ call.name = "delegate"
          /\ Resulted(call, outcome)
          /\ posted' = IF queues THEN Append(posted, [span |-> call.id, to |-> call.peer, room |-> Here])
                                 ELSE posted
    BY <1>4 DEF AckDelegate
  <2>2. OutcomeFits(call.name, outcome)
    BY <2>1 DEF OutcomeFits
  <2>3. QED
    BY <2>1, <2>2, AnswerKeepsInv
<1>5. ASSUME NEW event \in {"close", "step"}, NEW i \in CallIds, NEW kind \in {"call", "span"},
             NoteEvent(event, <<kind, i>>)
      PROVE  TasksInv'
  <2> DEFINE row == [type |-> "event", event |-> event, ref |-> <<kind, i>>, id |-> 0]
  <2>1. Written(row) /\ posted' = posted
    BY <1>5 DEF NoteEvent
  <2>2. i \in 1..MaxCalls
    <3>1. PICK n \in DOMAIN past : past[n].type = "call" /\ past[n].id = i
      BY DEF CallIds
    <3>2. past[n] \in TaskRows
      BY ElementOfSeq, LenProperties DEF TasksInv, TasksTyped
    <3>3. past[n] \in TaskCallRows
      BY <3>1, <3>2 DEF TaskRows, TaskAnswerRows, TaskEventRows
    <3>4. QED
      BY <3>1, <3>3 DEF TaskCallRows
  <2>3. row \in TaskEventRows
    BY <2>2 DEF TaskEventRows
  <2> HIDE DEF row
  <2>4. QED
    BY <2>1, <2>3, EventKeepsInv
<1>6. CASE UNCHANGED tasksVars
  <2>1. past' = past /\ script' = script /\ posted' = posted
    BY <1>6 DEF tasksVars
  <2>2. script' \in Seq(TaskRows) /\ ScriptIsTail'
    BY <2>1 DEF TasksInv, TasksTyped, ScriptIsTail
  <2>3. posted' \in Seq(QueuedMail) /\ MailIsTold'
    BY <2>1 DEF TasksInv, TasksTyped, MailIsTold, SpansApart
  <2>4. QED
    BY <2>1, <2>2, <2>3, PastKept DEF TasksInv, TasksTyped
<1>7. QED
  BY <1>1, <1>2, <1>3, <1>4, <1>5, <1>6, CompactKeepsInv, OthersKeepInv, DrainKeepsInv
  DEF TasksNext

-----------------------------------------------------------------------------

\* A call of the transcript has the outcome that is one of its tool's.
LEMMA AnswersFit ==
  ASSUME TasksInv, NEW m \in DOMAIN script, script[m].type = "call",
         NEW a \in Answers(script, script[m].id)
  PROVE  OutcomeFits(script[m].name, a.outcome)
<1>1. PICK k \in DOMAIN script : a = script[k] /\ a.type = "answer" /\ a.id = script[m].id
  BY DEF Answers
<1>2. PICK c \in 0..Len(past) : /\ Len(past) = c + Len(script)
                                /\ \A n \in DOMAIN script : script[n] = past[c + n]
  BY DEF TasksInv, ScriptIsTail
<1>3. /\ Len(past) \in Nat /\ Len(script) \in Nat
      /\ DOMAIN past = 1..Len(past) /\ DOMAIN script = 1..Len(script)
  BY LenProperties DEF TasksInv, TasksTyped
<1>4. c + m \in DOMAIN past /\ c + k \in DOMAIN past
  BY <1>2, <1>3
<1>5. a = past[c + k] /\ script[m] = past[c + m]
  BY <1>1, <1>2
<1>6. PICK j \in DOMAIN past : /\ past[j].type = "call" /\ past[j].id = past[c + k].id
                               /\ OutcomeFits(past[j].name, past[c + k].outcome)
  BY <1>1, <1>4, <1>5 DEF TasksInv, AnswersFollow
<1>7. j = c + m
  BY <1>1, <1>4, <1>5, <1>6 DEF TasksInv, CallsAreOnce
<1>8. QED
  BY <1>5, <1>6, <1>7

\* What the index after the last row means for a call.
LEMMA OpenMeansStillOpen ==
  ASSUME TasksInv, NEW m \in DOMAIN script
  PROVE  OpenAfter(script, m, Len(script)) <=>
           /\ script[m].type = "call"
           /\ \A a \in Answers(script, script[m].id) : a.outcome \notin {"error", "done"}
           /\ ~ \E k \in m .. Len(script) :
                   script[k].type = "event" /\ script[k].event = "close"
                   /\ script[k].ref \in TaskNames(script, script[m])
<1>1. ASSUME script[m].type = "call"
      PROVE  Opens(script, script[m]) <=>
               \A a \in Answers(script, script[m].id) : a.outcome \notin {"error", "done"}
  <2>1. script[m].name \in {"open", "delegate"}
    <3>1. script[m] \in TaskRows
      BY ElementOfSeq, LenProperties DEF TasksInv, TasksTyped
    <3>2. QED
      BY <1>1, <3>1 DEF TaskRows, TaskCallRows, TaskAnswerRows, TaskEventRows
  <2>2. ASSUME NEW a \in Answers(script, script[m].id)
        PROVE  (a.outcome # "error" /\ (script[m].name = "delegate" => a.outcome = "queued"))
                 <=> a.outcome \notin {"error", "done"}
    <3>1. OutcomeFits(script[m].name, a.outcome)
      BY <1>1, AnswersFit
    <3>2. QED
      BY <2>1, <3>1 DEF OutcomeFits
  <2>3. QED
    BY <2>2 DEF Opens
<1>2. QED
  BY <1>1 DEF OpenAfter, ClosedAt

\* The relevant mail is mail: its spans are apart, and are those of the relevant
\* envelopes (_pending_relevant, bots/runtime.py).
LEMMA RelevantMail ==
  ASSUME TasksInv, NEW relevant \in SUBSET DOMAIN posted
  PROVE  LET mail == KeptAt(posted, relevant) IN
         /\ mail \in Seq(QueuedMail) /\ SpansApart(mail)
         /\ \A k \in 1..Len(mail) : \E n \in relevant : mail[k] = posted[n]
         /\ \A n \in relevant : \E k \in 1..Len(mail) : mail[k] = posted[n]
<1> DEFINE mail == KeptAt(posted, relevant)
<1>1. posted \in Seq(QueuedMail) /\ SpansApart(posted)
  BY DEF TasksInv, TasksTyped, MailIsTold
<1>2. /\ mail \in Seq(QueuedMail)
      /\ DOMAIN mail = 1..Cardinality(relevant) /\ Cardinality(relevant) \in Nat
      /\ \A n \in DOMAIN mail : Nth(relevant, n) \in relevant /\ mail[n] = posted[Nth(relevant, n)]
  BY <1>1, KeptIsSeq
<1>3. DOMAIN mail = 1..Len(mail)
  BY <1>2, LenProperties
<1>4. \A n \in relevant : \E k \in DOMAIN mail : mail[k] = posted[n]
  BY <1>1, KeptHasAll
<1>5. ASSUME NEW m \in DOMAIN mail, NEW n \in DOMAIN mail, m < n
      PROVE  Nth(relevant, m) # Nth(relevant, n)
  <2>1. Nth(relevant, m) < Nth(relevant, n)
    BY <1>1, <1>5, KeptInOrder
  <2>2. Nth(relevant, m) \in Nat /\ Nth(relevant, n) \in Nat
    BY <1>1, <1>2, LenProperties
  <2>3. QED
    BY <2>1, <2>2
<1>6. SpansApart(mail)
  <2> SUFFICES ASSUME NEW m \in DOMAIN mail, NEW n \in DOMAIN mail, mail[m].span = mail[n].span
               PROVE  m = n
    BY DEF SpansApart
  <2>1. Nth(relevant, m) = Nth(relevant, n)
    <3> HIDE DEF mail
    <3>1. QED
      BY <1>1, <1>2 DEF SpansApart
  <2>2. m \in Nat /\ n \in Nat
    BY <1>2
  <2>3. QED
    BY <1>5, <2>1, <2>2
<1> HIDE DEF mail
<1>7. \A k \in 1..Len(mail) : \E n \in relevant : mail[k] = posted[n]
  BY <1>2, <1>3
<1>8. QED
  BY <1>2, <1>3, <1>4, <1>6, <1>7 DEF mail

\* The index is exact, shows the relevant mail and no other, and shows nothing twice
\* (derive_open_tasks).
LEMMA IndexHolds ==
  ASSUME TasksInv, NEW relevant \in SUBSET DOMAIN posted
  PROVE  /\ IndexIsExact(OpenTasks(relevant)) /\ MailIsShown(OpenTasks(relevant), relevant)
         /\ ShownOnce(OpenTasks(relevant))
<1> DEFINE calls == CallTasks(script)
           mail == KeptAt(posted, relevant)
           open == WithMail(calls, mail)
           N == Len(script)
<1>1. script \in Seq(TaskRows) /\ mail \in Seq(QueuedMail) /\ SpansApart(mail)
  BY RelevantMail DEF TasksInv, TasksTyped
<1>14. /\ \A k \in 1..Len(mail) : \E n \in relevant : mail[k] = posted[n]
       /\ \A n \in relevant : \E k \in 1..Len(mail) : mail[k] = posted[n]
  BY RelevantMail
<1>2. /\ Len(past) \in Nat /\ N \in Nat /\ DOMAIN past = 1..Len(past) /\ DOMAIN script = 1..N
  BY <1>1, LenProperties DEF TasksInv, TasksTyped
<1>3. CallsAreOnce(script)
  <2>1. PICK c \in 0..Len(past) : /\ Len(past) = c + N
                                  /\ \A n \in DOMAIN script : script[n] = past[c + n]
    BY DEF TasksInv, ScriptIsTail
  <2> SUFFICES ASSUME NEW m \in DOMAIN script, NEW n \in DOMAIN script,
                      script[m].type = "call", script[n].type = "call", script[m].id = script[n].id
               PROVE  m = n
    BY DEF CallsAreOnce
  <2>2. c + m \in DOMAIN past /\ c + n \in DOMAIN past
    BY <1>2, <2>1
  <2>3. c + m = c + n
    BY <2>1, <2>2 DEF TasksInv, CallsAreOnce
  <2>4. QED
    BY <1>2, <2>3
<1>4. calls \in Seq(TaskLines) /\ IndexAfter(script, calls, N)
  BY <1>1, <1>3, CallTasksIs
<1> HIDE DEF calls
<1>5. \A q \in DOMAIN calls : calls[q].key[1] # "span"
  <2>1. ASSUME NEW q \in DOMAIN calls
        PROVE  calls[q].key[1] # "span"
    <3>1. PICK m \in 1..N : calls[q].key = <<"call", script[m].id>>
      BY <1>4 DEF IndexAfter
    <3>2. QED
      BY <3>1
  <2>2. QED
    BY <2>1
<1>6. \A p, q \in DOMAIN calls : calls[p].key = calls[q].key => p = q
  BY <1>4 DEF IndexAfter
<1> HIDE DEF mail
<1>7. open \in Seq(TaskLines) /\ MailAfter(open, calls, mail, Len(mail))
  BY <1>1, <1>4, <1>5, <1>6, WithMailIs
<1>8. OpenTasks(relevant) = open
  BY DEF OpenTasks, calls, mail
<1> HIDE DEF open
<1>9. ASSUME NEW i \in CallIds
      PROVE  (\E n \in DOMAIN open : open[n].key = <<"call", i>>) <=> StillOpen(script, i)
  <2>1. (\E n \in DOMAIN open : open[n].key = <<"call", i>>)
          <=> \E q \in DOMAIN calls : calls[q].key = <<"call", i>>
    <3>1. ASSUME NEW n \in DOMAIN open, open[n].key = <<"call", i>>
          PROVE  \E q \in DOMAIN calls : calls[q].key = <<"call", i>>
      <4>1. \A k \in 1..Len(mail) : open[n].key # <<"span", mail[k].span>>
        BY <3>1
      <4>2. QED
        BY <1>7, <3>1, <4>1 DEF MailAfter
    <3>2. ASSUME NEW q \in DOMAIN calls, calls[q].key = <<"call", i>>
          PROVE  \E n \in DOMAIN open : open[n].key = <<"call", i>>
      BY <1>7, <3>2 DEF MailAfter
    <3>3. QED
      BY <3>1, <3>2
  <2>2. (\E q \in DOMAIN calls : calls[q].key = <<"call", i>>)
          <=> \E m \in 1..N : OpenAfter(script, m, N) /\ script[m].id = i
    <3>1. ASSUME NEW q \in DOMAIN calls, calls[q].key = <<"call", i>>
          PROVE  \E m \in 1..N : OpenAfter(script, m, N) /\ script[m].id = i
      <4>1. PICK m \in 1..N : OpenAfter(script, m, N) /\ calls[q].key = <<"call", script[m].id>>
        BY <1>4 DEF IndexAfter
      <4>2. script[m].id = i
        BY <3>1, <4>1
      <4>3. QED
        BY <4>1, <4>2
    <3>2. ASSUME NEW m \in 1..N, OpenAfter(script, m, N), script[m].id = i
          PROVE  \E q \in DOMAIN calls : calls[q].key = <<"call", i>>
      BY <1>4, <3>2 DEF IndexAfter
    <3>3. QED
      BY <3>1, <3>2
  <2>3. (\E m \in 1..N : OpenAfter(script, m, N) /\ script[m].id = i) <=> StillOpen(script, i)
    <3>1. ASSUME NEW m \in 1..N, OpenAfter(script, m, N), script[m].id = i
          PROVE  StillOpen(script, i)
      BY <1>2, <3>1, OpenMeansStillOpen DEF StillOpen
    <3>2. ASSUME NEW m \in DOMAIN script, script[m].type = "call", script[m].id = i,
                 \A a \in Answers(script, i) : a.outcome \notin {"error", "done"},
                 ~ \E k \in m .. N : script[k].type = "event" /\ script[k].event = "close"
                                     /\ script[k].ref \in TaskNames(script, script[m])
          PROVE  OpenAfter(script, m, N)
      BY <3>2, OpenMeansStillOpen
    <3>3. QED
      BY <1>2, <3>1, <3>2 DEF StillOpen
  <2>4. QED
    BY <2>1, <2>2, <2>3
<1>10. IndexIsExact(open)
  BY <1>9 DEF IndexIsExact
<1>11. MailIsShown(open, relevant)
  <2>1. ASSUME NEW n \in relevant
        PROVE  \E t \in DOMAIN open : IF posted[n].to = NoPeer
                 THEN open[t].key = <<"span", posted[n].span>> ELSE open[t].peer = posted[n].to
    <3>1. PICK k \in 1..Len(mail) : mail[k] = posted[n]
      BY <1>14
    <3>2. Shows(open, mail[k])
      BY <1>7 DEF MailAfter
    <3>3. Shows(open, posted[n])
      BY <3>1, <3>2
    <3>4. QED
      BY <3>3 DEF Shows
  <2>2. ASSUME NEW n \in DOMAIN posted, n \notin relevant, NEW t \in DOMAIN open,
               open[t].key = <<"span", posted[n].span>>
        PROVE  FALSE
    <3>1. \A q \in DOMAIN calls : open[t].key # calls[q].key
      BY <1>5, <2>2
    <3>2. PICK k \in 1..Len(mail) : open[t].key = <<"span", mail[k].span>>
      BY <1>7, <3>1 DEF MailAfter
    <3>3. PICK m \in relevant : mail[k] = posted[m]
      BY <1>14
    <3>4. posted[m].span = posted[n].span
      BY <2>2, <3>2, <3>3
    <3>5. QED
      BY <2>2, <3>4 DEF TasksInv, MailIsTold, SpansApart
  <2>3. QED
    BY <2>1, <2>2 DEF MailIsShown
<1>12. ShownOnce(open)
  BY <1>7 DEF MailAfter, ShownOnce
<1>13. QED
  BY <1>8, <1>10, <1>11, <1>12

\* What a group and another window see of a follow-up (overlay_private_followups,
\* workspace_context.py).
LEMMA FollowupsHold ==
  ASSUME NEW open
  PROVE  FollowupStaysPrivate(open)
<1> SUFFICES ASSUME NEW catalog \in SUBSET Works
             PROVE  LET items == WorkItems(open, catalog) IN \A f \in Followups :
                      /\ FollowupSection(f, "origin") \subseteq {"waiting_private"}
                      /\ FollowupSection(f, "other") = {}
                      /\ Overlay(items, f, "other") = items
                      /\ \A item \in Overlay(items, f, "origin") \ items :
                             item.status = "waiting_private"
  BY DEF FollowupStaysPrivate
<1> DEFINE items == WorkItems(open, catalog)
<1> SUFFICES ASSUME NEW f \in Followups
             PROVE  /\ FollowupSection(f, "origin") \subseteq {"waiting_private"}
                    /\ FollowupSection(f, "other") = {}
                    /\ Overlay(items, f, "other") = items
                    /\ \A item \in Overlay(items, f, "origin") \ items :
                           item.status = "waiting_private"
  OBVIOUS
<1>1. \A item \in items : item.work \in {item.work} /\ DOMAIN item = {"work", "status"}
                          /\ [item EXCEPT !.status = "waiting_private"].status = "waiting_private"
  BY DEF WorkItems
<1>2. FollowupSection(f, "origin") \subseteq {"waiting_private"} /\ FollowupSection(f, "other") = {}
  BY DEF FollowupSection
<1> HIDE DEF items
<1>3. Overlay(items, f, "other") = items
  BY DEF Overlay
<1>4. \A item \in Overlay(items, f, "origin") \ items : item.status = "waiting_private"
  BY <1>1 DEF Overlay
<1>5. QED
  BY <1>2, <1>3, <1>4

\* The task index shows a task exactly while it is open, forgets none of the mail
\* that the turn may read and shows none of the other, repeats no task, and a private follow-up stays private (bots/tasks.py, bots/work_items.py).
THEOREM TheIndexIsHonest == TasksSpec => []TasksAreHonest
<1>1. TasksInit => TasksInv
  BY TasksInit_Inv
<1>2. TasksInv /\ [TasksNext]_tasksVars => TasksInv'
  BY TasksNext_Inv
<1>3. TasksInv => TasksAreHonest
  <2> SUFFICES ASSUME TasksInv,
                      NEW relevant \in {RelevantAt(r, c) : r \in SUBSET Origins, c \in SUBSET Peers}
               PROVE  LET open == OpenTasks(relevant) IN
                      /\ IndexIsExact(open) /\ MailIsShown(open, relevant) /\ ShownOnce(open)
                      /\ FollowupStaysPrivate(open)
    BY DEF TasksAreHonest
  <2>1. relevant \in SUBSET DOMAIN posted
    BY DEF RelevantAt
  <2>2. QED
    BY <2>1, IndexHolds, FollowupsHold
<1>4. QED
  BY <1>1, <1>2, <1>3, PTL DEF TasksSpec
=============================================================================
