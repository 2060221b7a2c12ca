--------------------------- MODULE TurnClaimsProofs ---------------------------
(***************************************************************************)
(* The safety of the claims and of the hubs, for any sets of requests and   *)
(* doors: a door has one owner, a follower misses nothing of a turn, and,   *)
(* where nothing is pruned, a turn that is reported as completed is         *)
(* recorded.                                                                *)
(*                                                                          *)
(* The types and OneOwnerPerDoor are inductive together.  A follower misses *)
(* nothing because a hub's subscribers are exactly those who follow it and  *)
(* have not left (Subscribed).  A turn at work has its door because it      *)
(* holds it all the time (AtWork), and that is where delete_unclaimed's     *)
(* check under the lock is needed.                                          *)
(***************************************************************************)
EXTENDS TurnClaims, TLAPS

USE DEF registryVars, storeVars, jobVars, hubVars, compactVars, cancelVars,
        followVars, pruneVars, taskFrame, compactFrame, doorFrame

-----------------------------------------------------------------------------
(* Types                                                                   *)

LEMMA InitTypeOK == Init => TypeOK
  BY DEF Init, TypeOK, TurnPlaces, TaskPlaces, CompactPlaces, CancelPlaces, FollowPlaces,
         PrunePlaces, Requests

\* An item that is published is queued and logged.
LEMMA PublishType ==
  ASSUME TypeOK, NEW t \in Turns, NEW item \in Items, Publish(t, item)
  PROVE  /\ items' \in [Turns -> Seq(Items)]
         /\ received' \in [Followers -> Seq(QueueItems)]
<1>1. items' \in [Turns -> Seq(Items)]
  <2>1. items \in [Turns -> Seq(Items)] /\ Append(items[t], item) \in Seq(Items)
    BY DEF TypeOK
  <2> QED
    BY <2>1 DEF Publish
<1>2. ASSUME NEW f \in Followers
      PROVE  Append(received[f], item) \in Seq(QueueItems)
  <2>1. received[f] \in Seq(QueueItems) /\ item \in QueueItems
    BY <1>2 DEF TypeOK, QueueItems
  <2> QED
    BY <2>1
<1>3. received \in [Followers -> Seq(QueueItems)]
  BY DEF TypeOK
<1> QED
  BY <1>1, <1>2, <1>3 DEF Publish

LEMMA ThreadTypeOK ==
  ASSUME TypeOK, NEW t \in Turns, TurnThread(t)
  PROVE  TypeOK'
<1> USE DEF TypeOK, TurnPlaces, InFlight, Requests
<1>1. doorOf[t] \in Doors
  OBVIOUS
<1>2. CASE Load(t)      BY <1>1, <1>2 DEF Load
<1>3. CASE Claim(t)
  <2>1. /\ turnAt' \in [Turns -> TurnPlaces]
        /\ turns' \in [Doors -> Turns \cup {NoTurn}]
        /\ attached' \in [Turns -> BOOLEAN]
    <3>1. /\ turnAt' = [turnAt EXCEPT ![t] = "refused"] \/ turnAt' = [turnAt EXCEPT ![t] = "claimed"]
          /\ UNCHANGED turns \/ turns' = [turns EXCEPT ![doorOf[t]] = t]
          /\ UNCHANGED attached \/ attached' = [attached EXCEPT ![t] = TRUE]
      BY <1>3 DEF Claim
    <3>2. turnAt' \in [Turns -> TurnPlaces]
      BY <3>1
    <3>3. turns' \in [Doors -> Turns \cup {NoTurn}]
      BY <1>1, <3>1
    <3>4. attached' \in [Turns -> BOOLEAN]
      BY <3>1
    <3> QED
      BY <3>2, <3>3, <3>4
  <2> QED
    BY <1>3, <2>1 DEF Claim
<1>4. CASE Submit(t)    BY <1>4 DEF Submit, TaskPlaces
<1>5. CASE PublishTerminal(t)
  <2>1. cfut[t] \in Items
    BY <1>5 DEF PublishTerminal, Items
  <2>2. /\ items' \in [Turns -> Seq(Items)]
        /\ received' \in [Followers -> Seq(QueueItems)]
    BY <1>5, <2>1, PublishType DEF PublishTerminal, Outcome
  <2> QED
    BY <1>5, <2>2 DEF PublishTerminal
<1>6. CASE Release(t)   BY <1>1, <1>6 DEF Release
<1>7. CASE Close(t)
  <2>1. ASSUME NEW f \in Followers
        PROVE  Append(received[f], Sentinel) \in Seq(QueueItems)
    <3>1. received[f] \in Seq(QueueItems) /\ Sentinel \in QueueItems
      BY <2>1 DEF QueueItems
    <3> QED
      BY <3>1
  <2>2. received' \in [Followers -> Seq(QueueItems)]
    BY <1>7, <2>1 DEF Close
  <2>3. /\ turnAt' \in [Turns -> TurnPlaces]
        /\ closed' \in [Turns -> BOOLEAN]
        /\ subs' \in [Turns -> SUBSET Followers]
    BY <1>7 DEF Close
  <2> QED
    BY <1>7, <2>2, <2>3 DEF Close
<1> QED
  BY <1>2, <1>3, <1>4, <1>5, <1>6, <1>7 DEF TurnThread

LEMMA TaskTypeOK ==
  ASSUME TypeOK, NEW t \in Turns, TurnTask(t)
  PROVE  TypeOK'
<1> USE DEF TypeOK, TaskPlaces, Alive, Ended, Requests
<1>1. doorOf[t] \in Doors
  OBVIOUS
<1>0. "event" \in Items
  BY DEF Items
<1>2. CASE Spawn(t)
  <2>1. /\ task' = [task EXCEPT ![t] = "dropped"] \/ task' = [task EXCEPT ![t] = "queued"]
        /\ UNCHANGED cfut \/ cfut' = [cfut EXCEPT ![t] = "cancelled"]
    BY <1>2 DEF Spawn
  <2>2. task' \in [Turns -> TaskPlaces]
    BY <2>1
  <2>3. cfut' \in [Turns -> Terminals \cup {"pending"}]
    BY <2>1 DEF Terminals
  <2> QED
    BY <1>2, <2>2, <2>3 DEF Spawn
<1>3. CASE Enter(t)          BY <1>3 DEF Enter
<1>4. ASSUME NEW from, NEW kind \in {"user", "reply"}, NEW to \in TaskPlaces,
             Record(t, from, kind, to)
      PROVE  TypeOK'
  <2>1. rows' \in [Doors -> SUBSET (Turns \X {"user", "reply"})]
    <3>1. <<t, kind>> \in Turns \X {"user", "reply"}
      BY <1>4
    <3>2. CASE UNCHANGED rows
      BY <3>2
    <3>3. CASE rows' = [rows EXCEPT ![doorOf[t]] = @ \cup {<<t, kind>>}]
      <4> DEFINE R == Turns \X {"user", "reply"}
      <4>1. rows \in [Doors -> SUBSET R] /\ <<t, kind>> \in R
        BY <3>1
      <4> HIDE DEF R
      <4>2. rows' \in [Doors -> SUBSET R]
        BY <3>3, <4>1, <1>1
      <4> QED
        BY <4>2 DEF R
    <3> QED
      BY <1>4, <3>2, <3>3 DEF Record
  <2>2. task' \in [Turns -> TaskPlaces]
    BY <1>4 DEF Record
  <2> QED
    BY <1>4, <2>1, <2>2 DEF Record
<1>5. CASE RecordUser(t) \/ RecordReply(t)
  BY <1>4, <1>5 DEF RecordUser, RecordReply
<1>6. CASE Emit(t)
  <2>1. /\ items' \in [Turns -> Seq(Items)]
        /\ received' \in [Followers -> Seq(QueueItems)]
    BY <1>0, <1>6, PublishType DEF Emit
  <2> QED
    BY <1>6, <2>1 DEF Emit
<1>7. CASE Fail(t)           BY <1>7 DEF Fail
<1>8. CASE Return(t)         BY <1>8 DEF Return
<1>9. CASE CancelTask(t)     BY <1>9 DEF CancelTask
<1>10. CASE Done(t)          BY <1>10 DEF Done, Terminals
<1>11. CASE StartDelivery(t) BY <1>11 DEF StartDelivery
<1>12. CASE DeliveryEmits(t)
  <2>1. /\ items' \in [Turns -> Seq(Items)]
        /\ received' \in [Followers -> Seq(QueueItems)]
    BY <1>0, <1>12, PublishType DEF DeliveryEmits
  <2> QED
    BY <1>12, <2>1 DEF DeliveryEmits
<1>13. CASE DeliveryEnds(t)  BY <1>13 DEF DeliveryEnds
<1> QED
  BY <1>2, <1>3, <1>5, <1>6, <1>7, <1>8, <1>9, <1>10, <1>11, <1>12, <1>13
     DEF TurnTask

\* A sequence over a set is one over a larger set.
LEMMA SeqGrows ==
  ASSUME NEW S, NEW T, S \subseteq T, NEW s \in Seq(S)
  PROVE  s \in Seq(T)
  OBVIOUS

LEMMA RemoveType ==
  ASSUME TypeOK, NEW d \in Doors, Remove(d)
  PROVE  /\ door' \in [Doors -> {"unborn", "present", "gone"}]
         /\ rows' \in [Doors -> SUBSET (Turns \X {"user", "reply"})]
<1> DEFINE R == Turns \X {"user", "reply"}
<1>1. rows \in [Doors -> SUBSET R]
  BY DEF TypeOK
<1> HIDE DEF R
<1>2. rows' \in [Doors -> SUBSET R]
  BY <1>1 DEF Remove
<1>3. door' \in [Doors -> {"unborn", "present", "gone"}]
  BY DEF Remove, TypeOK
<1> QED
  BY <1>2, <1>3 DEF R

\* A follower that is past its lookup has a turn to follow.
Following ==
  \A f \in Followers : followAt[f] \in {"found", "subscribed", "dropped"} =>
    followed[f] \in Turns

LEMMA RestTypeOK ==
  ASSUME TypeOK, Following
  PROVE  /\ \A k \in Cancels : RequestCancel(k) \/ EndCancel(k) => TypeOK'
         /\ \A f \in Followers : FollowHub(f) \/ Subscribe(f) \/ Drop(f) => TypeOK'
         /\ \A c \in Compactions :
              LoadToCompact(c) \/ BeginCompact(c) \/ EndCompact(c) => TypeOK'
         /\ \A d \in Doors : Delete(d) => TypeOK'
         /\ \A p \in Prunes : Prune(p) => TypeOK'
<1> USE DEF TypeOK, Requests
<1>1. ASSUME NEW k \in Cancels
      PROVE  RequestCancel(k) \/ EndCancel(k) => TypeOK'
  <2>1. doorOf[k] \in Doors
    OBVIOUS
  <2>2. CASE RequestCancel(k)
    <3> DEFINE u == turns[doorOf[k]]
    <3>0. u \in Turns \cup {NoTurn}
      BY <2>1
    <3>1. /\ cancelAt' = [cancelAt EXCEPT ![k] = "idle"] \/ cancelAt' = [cancelAt EXCEPT ![k] = "polling"]
          /\ UNCHANGED cancelOf \/ cancelOf' = [cancelOf EXCEPT ![k] = u]
          /\ UNCHANGED cancel \/ cancel' = [cancel EXCEPT ![u] = TRUE]
          /\ UNCHANGED kill \/ kill' = [kill EXCEPT ![u] = @ \/ task[u] \in Alive \cup Ended]
      BY <2>2 DEF RequestCancel
    <3>2. /\ cancelAt' \in [Cancels -> CancelPlaces]
          /\ cancelOf' \in [Cancels -> Turns \cup {NoTurn}]
      BY <3>0, <3>1 DEF CancelPlaces
    <3>3. cancel' \in [Turns -> BOOLEAN]
      BY <3>1
    <3>4. kill' \in [Turns -> BOOLEAN]
      <4>1. ASSUME NEW w
            PROVE  (kill[w] \/ task[w] \in Alive \cup Ended) \in BOOLEAN
        OBVIOUS
      <4> QED
        BY <3>1, <4>1
    <3> QED
      BY <2>2, <3>2, <3>3, <3>4 DEF RequestCancel
  <2>3. CASE EndCancel(k)
    BY <2>3 DEF EndCancel, CancelPlaces
  <2> QED
    BY <2>2, <2>3
<1>2. ASSUME NEW f \in Followers
      PROVE  FollowHub(f) \/ Subscribe(f) \/ Drop(f) => TypeOK'
  <2>1. doorOf[f] \in Doors
    OBVIOUS
  <2>2. CASE FollowHub(f)  BY <2>1, <2>2 DEF FollowHub, FollowPlaces
  <2>3. CASE Subscribe(f)
    <3>1. followed[f] \in Turns
      BY <2>3 DEF Subscribe, Following
    <3>2. Replay(followed[f]) \in Seq(QueueItems)
      <4>1. items[followed[f]] \in Seq(Items)
        BY <3>1
      <4>2. items[followed[f]] \in Seq(QueueItems)
        BY <4>1, SeqGrows DEF QueueItems
      <4>3. Append(items[followed[f]], Sentinel) \in Seq(QueueItems)
        <5>1. Sentinel \in QueueItems
          BY DEF QueueItems
        <5> QED
          BY <4>2, <5>1
      <4> QED
        BY <4>2, <4>3 DEF Replay
    <3>3. /\ received' \in [Followers -> Seq(QueueItems)]
          /\ followAt' \in [Followers -> FollowPlaces]
          /\ subs' \in [Turns -> SUBSET Followers]
      BY <2>3, <3>1, <3>2 DEF Subscribe, FollowPlaces
    <3> QED
      BY <2>3, <3>3 DEF Subscribe
  <2>4. CASE Drop(f)
    <3>1. followed[f] \in Turns
      BY <2>4 DEF Drop, Following
    <3>2. /\ followAt' \in [Followers -> FollowPlaces]
          /\ subs' \in [Turns -> SUBSET Followers]
      BY <2>4, <3>1 DEF Drop, FollowPlaces
    <3> QED
      BY <2>4, <3>2 DEF Drop
  <2> QED
    BY <2>2, <2>3, <2>4
<1>3. ASSUME NEW c \in Compactions
      PROVE  LoadToCompact(c) \/ BeginCompact(c) \/ EndCompact(c) => TypeOK'
  <2>1. doorOf[c] \in Doors
    OBVIOUS
  <2>2. CASE LoadToCompact(c) BY <2>2 DEF LoadToCompact, CompactPlaces
  <2>3. CASE BeginCompact(c)
    <3>1. /\ \/ compactAt' = [compactAt EXCEPT ![c] = "refused"]
             \/ compactAt' = [compactAt EXCEPT ![c] = "compacting"]
          /\ compacts' \subseteq Doors
      BY <2>1, <2>3 DEF BeginCompact
    <3>2. compactAt' \in [Compactions -> CompactPlaces]
      BY <3>1 DEF CompactPlaces
    <3> QED
      BY <2>3, <3>1, <3>2 DEF BeginCompact
  <2>4. CASE EndCompact(c) BY <2>4 DEF EndCompact, CompactPlaces
  <2> QED
    BY <2>2, <2>3, <2>4
<1>4. ASSUME NEW d \in Doors
      PROVE  Delete(d) => TypeOK'
  <2> SUFFICES ASSUME Delete(d) PROVE TypeOK'
    OBVIOUS
  <2>1. /\ door' \in [Doors -> {"unborn", "present", "gone"}]
        /\ rows' \in [Doors -> SUBSET (Turns \X {"user", "reply"})]
    BY RemoveType DEF Delete
  <2> QED
    BY <2>1 DEF Delete
<1>5. ASSUME NEW p \in Prunes
      PROVE  Prune(p) => TypeOK'
  <2> USE DEF PrunePlaces
  <2>1. CASE Snapshot(p)    BY <2>1 DEF Snapshot
  <2>2. CASE BeginPrune(p)  BY <2>2 DEF BeginPrune
  <2>3. CASE PruneBlank(p)
    <3>1. blank[p] \in Doors
      BY <2>3 DEF PruneBlank
    <3>2. /\ door' \in [Doors -> {"unborn", "present", "gone"}]
          /\ rows' \in [Doors -> SUBSET (Turns \X {"user", "reply"})]
      BY <2>3, <3>1, RemoveType DEF PruneBlank
    <3> QED
      BY <2>3, <3>2 DEF PruneBlank
  <2>4. CASE EndPrune(p)    BY <2>4 DEF EndPrune
  <2>5. ASSUME NEW d \in Doors, LoadToPrune(p, d)
        PROVE  TypeOK'
    BY <2>5 DEF LoadToPrune
  <2>6. ASSUME NEW d \in Doors, Create(p, d)
        PROVE  TypeOK'
    BY <2>6 DEF Create
  <2> QED
    BY <2>1, <2>2, <2>3, <2>4, <2>5, <2>6 DEF Prune
<1> QED
  BY <1>1, <1>2, <1>3, <1>4, <1>5

LEMMA NextTypeOK ==
  ASSUME TypeOK, Following, [Next]_vars
  PROVE  TypeOK'
<1>1. CASE UNCHANGED vars
  BY <1>1 DEF vars, TypeOK
<1>2. CASE Next
  BY <1>2, ThreadTypeOK, TaskTypeOK, RestTypeOK DEF Next
<1> QED
  BY <1>1, <1>2

-----------------------------------------------------------------------------
(* What a step may change                                                  *)

ownerVars == <<turnAt, turns, doorOf, attached, compactAt, compacts>>

\* Only the threads of turns and of compactions touch the claims.
LEMMA OwnerFrame ==
  ASSUME [Next]_vars
  PROVE  \/ UNCHANGED ownerVars
         \/ \E t \in Turns : Claim(t) \/ Release(t)
         \/ \E t \in Turns : Load(t) \/ Submit(t) \/ PublishTerminal(t) \/ Close(t)
         \/ \E c \in Compactions : LoadToCompact(c) \/ BeginCompact(c) \/ EndCompact(c)
<1> USE DEF ownerVars
<1>1. CASE UNCHANGED vars
  BY <1>1 DEF vars
<1>2. ASSUME NEW t \in Turns, TurnTask(t)
      PROVE  UNCHANGED ownerVars
  BY <1>2 DEF TurnTask, Spawn, Enter, RecordUser, RecordReply, Record, Emit, Fail, Return,
              CancelTask, Done, StartDelivery, DeliveryEmits, DeliveryEnds
<1>3. ASSUME NEW k \in Cancels, RequestCancel(k) \/ EndCancel(k)
      PROVE  UNCHANGED ownerVars
  BY <1>3 DEF RequestCancel, EndCancel
<1>4. ASSUME NEW f \in Followers, FollowHub(f) \/ Subscribe(f) \/ Drop(f)
      PROVE  UNCHANGED ownerVars
  BY <1>4 DEF FollowHub, Subscribe, Drop
<1>5. ASSUME NEW d \in Doors, Delete(d)
      PROVE  UNCHANGED ownerVars
  BY <1>5 DEF Delete
<1>6. ASSUME NEW p \in Prunes, Prune(p)
      PROVE  UNCHANGED ownerVars
  BY <1>6 DEF Prune, Snapshot, BeginPrune, LoadToPrune, PruneBlank, EndPrune, Create
<1> QED
  BY <1>1, <1>2, <1>3, <1>4, <1>5, <1>6 DEF Next, TurnThread

hubFrame == <<items, closed, subs, received, followAt, followed>>

\* Only publishing, closing and the followers themselves touch the hubs.
LEMMA HubFrame ==
  ASSUME [Next]_vars
  PROVE  \/ UNCHANGED hubFrame
         \/ \E t \in Turns : PublishTerminal(t) \/ Emit(t) \/ DeliveryEmits(t) \/ Close(t)
         \/ \E f \in Followers : FollowHub(f) \/ Subscribe(f) \/ Drop(f)
<1> USE DEF hubFrame
<1>1. CASE UNCHANGED vars
  BY <1>1 DEF vars
<1>2. ASSUME NEW t \in Turns, TurnThread(t)
      PROVE  UNCHANGED hubFrame \/ PublishTerminal(t) \/ Close(t)
  BY <1>2 DEF TurnThread, Load, Claim, Submit, Release
<1>3. ASSUME NEW t \in Turns, TurnTask(t)
      PROVE  UNCHANGED hubFrame \/ Emit(t) \/ DeliveryEmits(t)
  BY <1>3 DEF TurnTask, Spawn, Enter, RecordUser, RecordReply, Record, Fail, Return,
              CancelTask, Done, StartDelivery, DeliveryEnds
<1>4. ASSUME NEW k \in Cancels, RequestCancel(k) \/ EndCancel(k)
      PROVE  UNCHANGED hubFrame
  BY <1>4 DEF RequestCancel, EndCancel
<1>5. ASSUME NEW c \in Compactions, LoadToCompact(c) \/ BeginCompact(c) \/ EndCompact(c)
      PROVE  UNCHANGED hubFrame
  BY <1>5 DEF LoadToCompact, BeginCompact, EndCompact
<1>6. ASSUME NEW d \in Doors, Delete(d)
      PROVE  UNCHANGED hubFrame
  BY <1>6 DEF Delete
<1>7. ASSUME NEW p \in Prunes, Prune(p)
      PROVE  UNCHANGED hubFrame
  BY <1>7 DEF Prune, Snapshot, BeginPrune, LoadToPrune, PruneBlank, EndPrune, Create
<1> QED
  BY <1>1, <1>2, <1>3, <1>4, <1>5, <1>6, <1>7 DEF Next

-----------------------------------------------------------------------------
(* One owner per door                                                      *)

LEMMA NextOneOwner ==
  ASSUME TypeOK, OneOwnerPerDoor, [Next]_vars
  PROVE  OneOwnerPerDoor'
<1> USE DEF OneOwnerPerDoor, InFlight
<1>0. /\ turns \in [Doors -> Turns \cup {NoTurn}]
      /\ turnAt \in [Turns -> TurnPlaces]
      /\ attached \in [Turns -> BOOLEAN]
      /\ compactAt \in [Compactions -> CompactPlaces]
      /\ \A t \in Turns : doorOf[t] \in Doors /\ t # NoTurn
      /\ \A c \in Compactions : doorOf[c] \in Doors
  BY NoTurnAssumption DEF TypeOK, Requests
<1>1. CASE UNCHANGED ownerVars
  BY <1>1 DEF ownerVars
<1>2. ASSUME NEW t \in Turns, Claim(t)
      PROVE  OneOwnerPerDoor'
  <2>1. CASE Held(doorOf[t])
    BY <1>0, <1>2, <2>1 DEF Claim
  <2>2. CASE ~Held(doorOf[t])
    <3>1. /\ turnAt' = [turnAt EXCEPT ![t] = "claimed"]
          /\ turns' = [turns EXCEPT ![doorOf[t]] = t]
          /\ attached' = [attached EXCEPT ![t] = TRUE]
          /\ UNCHANGED <<doorOf, compacts, compactAt>>
          /\ turns[doorOf[t]] = NoTurn /\ doorOf[t] \notin compacts
      BY <1>2, <2>2 DEF Claim, Held
    <3> QED
      BY <1>0, <3>1
  <2> QED
    BY <2>1, <2>2
<1>3. ASSUME NEW t \in Turns, Release(t)
      PROVE  OneOwnerPerDoor'
  <2>1. /\ turnAt[t] = "published"
        /\ turnAt' = [turnAt EXCEPT ![t] = "released"]
        /\ turns' = [turns EXCEPT ![doorOf[t]] = NoTurn]
        /\ attached' = [attached EXCEPT ![t] = FALSE]
        /\ UNCHANGED <<doorOf, compacts, compactAt>>
    BY <1>3 DEF Release
  <2> QED
    BY <1>0, <2>1
<1>4. ASSUME NEW t \in Turns, Load(t) \/ Submit(t) \/ PublishTerminal(t) \/ Close(t)
      PROVE  OneOwnerPerDoor'
  <2>1. /\ \E place \in TurnPlaces : /\ place \in InFlight <=> turnAt[t] \in InFlight
                                     /\ turnAt' = [turnAt EXCEPT ![t] = place]
        /\ UNCHANGED <<turns, attached, doorOf, compacts, compactAt>>
    BY <1>4 DEF Load, Submit, PublishTerminal, Close, TurnPlaces
  <2> QED
    BY <1>0, <2>1
<1>5. ASSUME NEW c \in Compactions, LoadToCompact(c) \/ BeginCompact(c) \/ EndCompact(c)
      PROVE  OneOwnerPerDoor'
  <2>1. UNCHANGED <<turnAt, turns, attached, doorOf>>
    BY <1>5 DEF LoadToCompact, BeginCompact, EndCompact
  <2>2. CASE LoadToCompact(c)
    BY <1>0, <2>1, <2>2 DEF LoadToCompact
  <2>3. CASE BeginCompact(c)
    BY <1>0, <2>1, <2>3 DEF BeginCompact, Held
  <2>4. CASE EndCompact(c)
    BY <1>0, <2>1, <2>4 DEF EndCompact
  <2> QED
    BY <1>5, <2>2, <2>3, <2>4
<1> QED
  BY <1>1, <1>2, <1>3, <1>4, <1>5, OwnerFrame

-----------------------------------------------------------------------------
(* Followers                                                               *)

\* The subscribers of an open hub are those who follow it and have not left.
Subscribed ==
  \A f \in Followers, t \in Turns :
    f \in subs[t] <=> followAt[f] = "subscribed" /\ followed[f] = t /\ ~closed[t]

HubInv == Following /\ Subscribed /\ FollowersMissNothing

LEMMA PublishKeepsHubs ==
  ASSUME TypeOK, HubInv, NEW t \in Turns, NEW item, Publish(t, item),
         UNCHANGED <<closed, subs, followAt, followed>>
  PROVE  HubInv'
<1> USE DEF HubInv
<1>1. Following' /\ Subscribed'
  BY DEF Following, Subscribed
<1>2. ASSUME NEW f \in Followers, followAt[f] = "subscribed"
      PROVE  received'[f] = IF closed[followed[f]] THEN Append(items'[followed[f]], Sentinel)
                                                    ELSE items'[followed[f]]
  <2>1. followed[f] \in Turns
    BY <1>2 DEF Following
  <2>2. received[f] = IF closed[followed[f]] THEN Append(items[followed[f]], Sentinel)
                                             ELSE items[followed[f]]
    BY <1>2 DEF FollowersMissNothing
  <2>3. CASE followed[f] = t /\ ~closed[t]
    <3>1. f \in subs[t]
      BY <1>2, <2>3 DEF Subscribed
    <3>2. received'[f] = Append(received[f], item) /\ items'[t] = Append(items[t], item)
      BY <2>3, <3>1 DEF Publish, TypeOK
    <3> QED
      BY <2>2, <2>3, <3>2
  <2>4. CASE followed[f] # t \/ closed[t]
    <3>1. f \notin subs[t] \/ closed[t]
      BY <2>4 DEF Subscribed
    <3>2. received'[f] = received[f] /\ items'[followed[f]] = items[followed[f]]
      BY <2>1, <2>4, <3>1 DEF Publish, TypeOK
    <3> QED
      BY <2>2, <3>2
  <2> QED
    BY <2>3, <2>4
<1>3. FollowersMissNothing'
  BY <1>2 DEF FollowersMissNothing
<1> QED
  BY <1>1, <1>3

LEMMA CloseKeepsHubs ==
  ASSUME TypeOK, HubInv, NEW t \in Turns, Close(t)
  PROVE  HubInv'
<1> USE DEF HubInv
<1>1. /\ closed' = [closed EXCEPT ![t] = TRUE]
      /\ subs' = [subs EXCEPT ![t] = {}]
      /\ received' = [f \in Followers |->
           IF f \in subs[t] THEN Append(received[f], Sentinel) ELSE received[f]]
      /\ UNCHANGED <<items, followAt, followed>>
      /\ closed \in [Turns -> BOOLEAN] /\ subs \in [Turns -> SUBSET Followers]
  BY DEF Close, TypeOK
<1>2. Following' /\ Subscribed'
  BY <1>1 DEF Following, Subscribed
<1>3. ASSUME NEW f \in Followers, followAt[f] = "subscribed"
      PROVE  received'[f] = IF closed'[followed[f]] THEN Append(items[followed[f]], Sentinel)
                                                     ELSE items[followed[f]]
  <2>1. followed[f] \in Turns
    BY <1>3 DEF Following
  <2>2. received[f] = IF closed[followed[f]] THEN Append(items[followed[f]], Sentinel)
                                             ELSE items[followed[f]]
    BY <1>3 DEF FollowersMissNothing
  <2>3. CASE followed[f] = t /\ ~closed[t]
    BY <1>1, <1>3, <2>2, <2>3 DEF Subscribed
  <2>4. CASE followed[f] # t \/ closed[t]
    BY <1>1, <1>3, <2>1, <2>2, <2>4 DEF Subscribed
  <2> QED
    BY <2>3, <2>4
<1>4. FollowersMissNothing'
  BY <1>1, <1>3 DEF FollowersMissNothing
<1> QED
  BY <1>2, <1>4

LEMMA FollowerKeepsHubs ==
  ASSUME TypeOK, HubInv, NEW f \in Followers, FollowHub(f) \/ Subscribe(f) \/ Drop(f)
  PROVE  HubInv'
<1> USE DEF HubInv
<1>0. /\ followAt \in [Followers -> FollowPlaces]
      /\ followed \in [Followers -> Turns \cup {NoTurn}]
      /\ subs \in [Turns -> SUBSET Followers]
      /\ closed \in [Turns -> BOOLEAN]
      /\ received \in [Followers -> Seq(QueueItems)]
      /\ turns[doorOf[f]] \in Turns \cup {NoTurn}
  BY DEF TypeOK, Requests
<1>1. CASE FollowHub(f)
  <2>1. UNCHANGED <<items, closed, subs, received>>
    BY <1>1 DEF FollowHub
  <2>2. /\ followAt[f] = "new"
        /\ followed' = [followed EXCEPT ![f] = turns[doorOf[f]]]
        /\ followAt' = [followAt EXCEPT ![f] =
             IF turns[doorOf[f]] = NoTurn THEN "idle" ELSE "found"]
    BY <1>1 DEF FollowHub
  <2>3. Following'
    BY <1>0, <2>2 DEF Following
  <2>4. Subscribed' /\ FollowersMissNothing'
    BY <1>0, <2>1, <2>2 DEF Subscribed, FollowersMissNothing
  <2> QED
    BY <2>3, <2>4
<1>2. CASE Subscribe(f)
  <2>1. /\ followAt[f] = "found" /\ followed[f] \in Turns
        /\ followAt' = [followAt EXCEPT ![f] = "subscribed"]
        /\ received' = [received EXCEPT ![f] = Replay(followed[f])]
        /\ subs' = IF closed[followed[f]] THEN subs
                   ELSE [subs EXCEPT ![followed[f]] = @ \cup {f}]
        /\ UNCHANGED <<items, closed, followed>>
    BY <1>2 DEF Subscribe, Following
  <2>2. Following' /\ Subscribed'
    BY <1>0, <2>1 DEF Following, Subscribed
  <2>3. FollowersMissNothing'
    BY <1>0, <2>1 DEF FollowersMissNothing, Replay
  <2> QED
    BY <2>2, <2>3
<1>3. CASE Drop(f)
  <2>1. /\ followAt[f] = "subscribed" /\ followed[f] \in Turns
        /\ followAt' = [followAt EXCEPT ![f] = "dropped"]
        /\ subs' = [subs EXCEPT ![followed[f]] = @ \ {f}]
        /\ UNCHANGED <<items, closed, received, followed>>
    BY <1>3 DEF Drop, Following
  <2>2. Following' /\ Subscribed'
    BY <1>0, <2>1 DEF Following, Subscribed
  <2>3. FollowersMissNothing'
    BY <1>0, <2>1 DEF FollowersMissNothing
  <2> QED
    BY <2>2, <2>3
<1> QED
  BY <1>1, <1>2, <1>3

LEMMA NextHubInv ==
  ASSUME TypeOK, HubInv, [Next]_vars
  PROVE  HubInv'
<1>1. CASE UNCHANGED hubFrame
  BY <1>1 DEF hubFrame, HubInv, Following, Subscribed, FollowersMissNothing
<1>2. ASSUME NEW t \in Turns, PublishTerminal(t) \/ Emit(t) \/ DeliveryEmits(t)
      PROVE  HubInv'
  BY <1>2, PublishKeepsHubs DEF PublishTerminal, Emit, DeliveryEmits
<1> QED
  BY <1>1, <1>2, CloseKeepsHubs, FollowerKeepsHubs, HubFrame

(* Threads, tasks and futures                                              *)

\* A task lives while its thread waits, and until then its future is open.
Phases ==
  \A t \in Turns :
    /\ turnAt[t] \in {"new", "loaded", "refused", "claimed"} =>
         task[t] = "none" /\ cfut[t] = "pending"
    /\ turnAt[t] \in {"published", "released", "done"} => cfut[t] # "pending"
    /\ task[t] \in Alive \cup {"posted"} => cfut[t] = "pending"
    /\ cfut[t] = "completed" => task[t] = "returned"

phaseVars == <<turnAt, task, cfut>>

\* What a step does to the places of a turn.
PhaseStep(t) ==
  \/ Load(t) \/ Claim(t) \/ Submit(t) \/ PublishTerminal(t) \/ Release(t) \/ Close(t)
  \/ Spawn(t) \/ Enter(t) \/ RecordUser(t) \/ RecordReply(t) \/ Fail(t) \/ Return(t)
  \/ CancelTask(t) \/ Done(t)

LEMMA PhaseFrame ==
  ASSUME [Next]_vars
  PROVE  UNCHANGED phaseVars \/ \E t \in Turns : PhaseStep(t)
<1> USE DEF phaseVars
<1>1. CASE UNCHANGED vars
  BY <1>1 DEF vars
<1>2. ASSUME NEW t \in Turns, TurnThread(t) \/ TurnTask(t)
      PROVE  UNCHANGED phaseVars \/ PhaseStep(t)
  BY <1>2 DEF TurnThread, TurnTask, PhaseStep, Emit, StartDelivery, DeliveryEmits, DeliveryEnds
<1>3. ASSUME NEW k \in Cancels, RequestCancel(k) \/ EndCancel(k)
      PROVE  UNCHANGED phaseVars
  BY <1>3 DEF RequestCancel, EndCancel
<1>4. ASSUME NEW f \in Followers, FollowHub(f) \/ Subscribe(f) \/ Drop(f)
      PROVE  UNCHANGED phaseVars
  BY <1>4 DEF FollowHub, Subscribe, Drop
<1>5. ASSUME NEW c \in Compactions, LoadToCompact(c) \/ BeginCompact(c) \/ EndCompact(c)
      PROVE  UNCHANGED phaseVars
  BY <1>5 DEF LoadToCompact, BeginCompact, EndCompact
<1>6. ASSUME NEW d \in Doors, Delete(d)
      PROVE  UNCHANGED phaseVars
  BY <1>6 DEF Delete
<1>7. ASSUME NEW p \in Prunes, Prune(p)
      PROVE  UNCHANGED phaseVars
  BY <1>7 DEF Prune, Snapshot, BeginPrune, LoadToPrune, PruneBlank, EndPrune, Create
<1> QED
  BY <1>1, <1>2, <1>3, <1>4, <1>5, <1>6, <1>7 DEF Next

LEMMA NextPhases ==
  ASSUME TypeOK, Phases, [Next]_vars
  PROVE  Phases'
<1> USE DEF Phases, Alive, Ended
<1>0. /\ turnAt \in [Turns -> TurnPlaces]
      /\ task \in [Turns -> TaskPlaces]
      /\ cfut \in [Turns -> Terminals \cup {"pending"}]
  BY DEF TypeOK
<1>1. CASE UNCHANGED phaseVars
  BY <1>1 DEF phaseVars
<1>2. ASSUME NEW t \in Turns, PhaseStep(t)
      PROVE  Phases'
  <2>1. CASE Load(t)            BY <1>0, <2>1 DEF Load
  <2>2. CASE Claim(t)           BY <1>0, <2>2 DEF Claim
  <2>3. CASE Submit(t)          BY <1>0, <2>3 DEF Submit
  <2>4. CASE PublishTerminal(t) BY <1>0, <2>4 DEF PublishTerminal
  <2>5. CASE Release(t)         BY <1>0, <2>5 DEF Release
  <2>6. CASE Close(t)           BY <1>0, <2>6 DEF Close
  <2>7. CASE Spawn(t)           BY <1>0, <2>7 DEF Spawn
  <2>8. CASE Enter(t)           BY <1>0, <2>8 DEF Enter
  <2>9. CASE RecordUser(t)      BY <1>0, <2>9 DEF RecordUser, Record
  <2>10. CASE RecordReply(t)    BY <1>0, <2>10 DEF RecordReply, Record
  <2>11. CASE Fail(t)           BY <1>0, <2>11 DEF Fail
  <2>12. CASE Return(t)         BY <1>0, <2>12 DEF Return
  <2>13. CASE CancelTask(t)     BY <1>0, <2>13 DEF CancelTask
  <2>14. CASE Done(t)           BY <1>0, <2>14 DEF Done
  <2> QED
    BY <1>2, <2>1, <2>2, <2>3, <2>4, <2>5, <2>6, <2>7, <2>8, <2>9, <2>10, <2>11, <2>12,
       <2>13, <2>14 DEF PhaseStep
<1> QED
  BY <1>1, <1>2, PhaseFrame

-----------------------------------------------------------------------------
(* The ending that a hub tells                                             *)

\* The terminals of a log, after an item is appended to it.
LEMMA AppendEndings ==
  ASSUME NEW s \in Seq(Items), NEW item \in Items
  PROVE  LET E(q) == {i \in DOMAIN q : q[i] \in Terminals} IN
         /\ item \notin Terminals => E(Append(s, item)) = E(s)
         /\ item \in Terminals => E(Append(s, item)) = E(s) \cup {Len(s) + 1}
         /\ \A i \in DOMAIN s : i \in DOMAIN Append(s, item) /\ Append(s, item)[i] = s[i]
         /\ Len(s) + 1 \in DOMAIN Append(s, item) /\ Append(s, item)[Len(s) + 1] = item
<1>1. /\ Len(s) \in Nat /\ DOMAIN s = 1 .. Len(s)
      /\ DOMAIN Append(s, item) = 1 .. Len(s) + 1
      /\ Append(s, item)[Len(s) + 1] = item
      /\ \A i \in 1 .. Len(s) : Append(s, item)[i] = s[i]
  OBVIOUS
<1> QED
  BY <1>1

\* A hub closes with the thread of its turn.
ClosedWhenDone == \A t \in Turns : closed[t] => turnAt[t] = "done"

EndingInv == ClosedWhenDone /\ OneEnding

\* An event in the log of a turn changes no ending.
LEMMA EventKeepsEnding ==
  ASSUME TypeOK, EndingInv, NEW t \in Turns, Publish(t, "event"),
         UNCHANGED <<turnAt, cfut, closed>>
  PROVE  EndingInv'
<1>1. \A u \in Turns : /\ Endings(u)' = Endings(u)
                       /\ \A i \in Endings(u) : items'[u][i] = items[u][i]
                       /\ DOMAIN items[u] \subseteq DOMAIN items'[u]
  <2>1. CASE closed[t]
    BY <2>1 DEF Publish, Endings
  <2>2. CASE ~closed[t]
    <3>1. "event" \in Items /\ "event" \notin Terminals /\ items[t] \in Seq(Items)
      BY DEF Items, Terminals, TypeOK
    <3>2. items' = [items EXCEPT ![t] = Append(@, "event")]
      BY <2>2 DEF Publish
    <3>3. items'[t] = Append(items[t], "event") /\ \A u \in Turns \ {t} : items'[u] = items[u]
      BY <3>2 DEF TypeOK
    <3> QED
      BY SMTT(30), <3>1, <3>3, AppendEndings DEF Endings
  <2> QED
    BY <2>1, <2>2
<1>2. ASSUME NEW u \in Turns, turnAt[u] \in {"published", "released", "done"}
      PROVE  \E i \in DOMAIN items'[u] : Endings(u)' = {i} /\ items'[u][i] = cfut[u]
  <2>1. PICK i \in DOMAIN items[u] : Endings(u) = {i} /\ items[u][i] = cfut[u]
    BY <1>2 DEF EndingInv, OneEnding
  <2> QED
    BY <1>1, <2>1
<1>3. ASSUME NEW u \in Turns, turnAt[u] \notin {"published", "released", "done"}
      PROVE  Endings(u)' = {}
  BY <1>1, <1>3 DEF EndingInv, OneEnding
<1> QED
  BY <1>2, <1>3 DEF EndingInv, ClosedWhenDone, OneEnding

LEMMA TerminalTellsEnding ==
  ASSUME TypeOK, Phases, EndingInv, NEW t \in Turns, PublishTerminal(t)
  PROVE  EndingInv'
<1>1. /\ ~closed[t] /\ Endings(t) = {} /\ cfut[t] \in Terminals /\ cfut[t] \in Items
      /\ items[t] \in Seq(Items) /\ UNCHANGED <<cfut, closed>>
  BY DEF PublishTerminal, EndingInv, ClosedWhenDone, OneEnding, TypeOK, Items
<1>2. /\ items' = [items EXCEPT ![t] = Append(@, cfut[t])]
      /\ turnAt[t] = "waiting" /\ turnAt' = [turnAt EXCEPT ![t] = "published"]
  BY <1>1 DEF PublishTerminal, Publish, Outcome
<1>3. /\ items'[t] = Append(items[t], cfut[t]) /\ turnAt'[t] = "published"
      /\ \A u \in Turns \ {t} : items'[u] = items[u] /\ turnAt'[u] = turnAt[u]
  BY <1>2 DEF TypeOK
<1>4. /\ Len(items[t]) + 1 \in DOMAIN items'[t]
      /\ items'[t][Len(items[t]) + 1] = cfut[t]
      /\ Endings(t)' = {Len(items[t]) + 1}
  BY <1>1, <1>3, AppendEndings DEF Endings
<1>5. \A u \in Turns \ {t} : Endings(u)' = Endings(u)
  BY <1>3 DEF Endings
<1>6. OneEnding'
  BY <1>1, <1>3, <1>4, <1>5 DEF EndingInv, OneEnding
<1>7. ClosedWhenDone'
  BY <1>1, <1>3 DEF EndingInv, ClosedWhenDone
<1> QED
  BY <1>6, <1>7 DEF EndingInv

LEMMA NextEnding ==
  ASSUME TypeOK, Phases, EndingInv, [Next]_vars
  PROVE  EndingInv'
<1> DEFINE logs == <<items, closed>>
<1>0. /\ turnAt \in [Turns -> TurnPlaces]
      /\ cfut \in [Turns -> Terminals \cup {"pending"}]
      /\ closed \in [Turns -> BOOLEAN]
  BY DEF TypeOK
<1>1. CASE UNCHANGED phaseVars /\ UNCHANGED logs
  BY <1>1 DEF phaseVars, EndingInv, ClosedWhenDone, OneEnding, Endings
<1>2. ASSUME NEW t \in Turns, Emit(t) \/ DeliveryEmits(t)
      PROVE  EndingInv'
  BY <1>2, EventKeepsEnding DEF Emit, DeliveryEmits
<1>3. ASSUME NEW t \in Turns, PhaseStep(t)
      PROVE  EndingInv'
  <2>1. CASE PublishTerminal(t)
    BY <2>1, TerminalTellsEnding
  <2>2. CASE Load(t) \/ Claim(t) \/ Submit(t) \/ Release(t) \/ Close(t)
    <3> DEFINE told == {"published", "released", "done"}
    <3>1. UNCHANGED <<items, cfut>>
      BY <2>2 DEF Load, Claim, Submit, Release, Close
    <3>2. \A u \in Turns : /\ turnAt'[u] \in told <=> turnAt[u] \in told
                           /\ turnAt[u] = "done" => turnAt'[u] = "done"
      BY <1>0, <2>2 DEF Load, Claim, Submit, Release, Close
    <3>3. \A u \in Turns : closed'[u] => closed[u] \/ turnAt'[u] = "done"
      BY <1>0, <2>2 DEF Load, Claim, Submit, Release, Close
    <3>4. \A u \in Turns : Endings(u)' = Endings(u)
      BY <3>1 DEF Endings
    <3>5. ASSUME NEW u \in Turns, closed'[u]
          PROVE  turnAt'[u] = "done"
      BY <3>2, <3>3, <3>5 DEF EndingInv, ClosedWhenDone
    <3>6. ASSUME NEW u \in Turns
          PROVE  IF turnAt'[u] \in told
                 THEN \E i \in DOMAIN items'[u] : Endings(u)' = {i} /\ items'[u][i] = cfut'[u]
                 ELSE Endings(u)' = {}
      <4>1. IF turnAt[u] \in told
            THEN \E i \in DOMAIN items[u] : Endings(u) = {i} /\ items[u][i] = cfut[u]
            ELSE Endings(u) = {}
        BY DEF EndingInv, OneEnding
      <4> QED
        BY <3>1, <3>2, <3>4, <4>1
    <3> QED
      BY <3>5, <3>6 DEF EndingInv, ClosedWhenDone, OneEnding
  <2>3. CASE \/ Spawn(t) \/ Enter(t) \/ RecordUser(t) \/ RecordReply(t) \/ Fail(t)
             \/ Return(t) \/ CancelTask(t) \/ Done(t)
    <3>1. /\ UNCHANGED <<items, closed, turnAt>>
          /\ \A u \in Turns : cfut[u] # "pending" => cfut'[u] = cfut[u]
      <4>1. CASE Spawn(t)
        BY <1>0, <4>1 DEF Spawn, Phases
      <4>2. CASE Done(t)
        BY <1>0, <4>2 DEF Done
      <4>3. CASE \/ Enter(t) \/ RecordUser(t) \/ RecordReply(t) \/ Fail(t)
                 \/ Return(t) \/ CancelTask(t)
        BY <4>3 DEF Enter, RecordUser, RecordReply, Record, Fail, Return, CancelTask
      <4> QED
        BY <2>3, <4>1, <4>2, <4>3
    <3>2. \A u \in Turns : Endings(u)' = Endings(u)
      BY <3>1 DEF Endings
    <3> QED
      BY <3>1, <3>2 DEF Phases, EndingInv, ClosedWhenDone, OneEnding
  <2> QED
    BY <1>3, <2>1, <2>2, <2>3 DEF PhaseStep
<1>4. CASE UNCHANGED phaseVars /\ ~UNCHANGED logs
  <2>1. ASSUME NEW f \in Followers, FollowHub(f) \/ Subscribe(f) \/ Drop(f)
        PROVE  UNCHANGED logs
    BY <2>1 DEF FollowHub, Subscribe, Drop
  <2>2. \E t \in Turns : PublishTerminal(t) \/ Emit(t) \/ DeliveryEmits(t) \/ Close(t)
    BY <1>4, <2>1, HubFrame DEF hubFrame
  <2> QED
    BY <1>2, <1>3, <2>2 DEF PhaseStep
<1> QED
  BY <1>1, <1>3, <1>4, PhaseFrame

(* Cancelled turns                                                         *)

\* Whatever carries a cancellation, a request found the turn in flight.
Asked(t) == \E k \in Cancels : cancelOf[k] = t

CancelInv ==
  /\ \A k \in Cancels : cancelAt[k] = "new" => cancelOf[k] = NoTurn
  /\ \A t \in Turns :
       cancel[t] \/ kill[t] \/ task[t] \in {"dropped", "cancelled"} \/ cfut[t] = "cancelled"
       => Asked(t)

cancelFrame == <<cancelAt, cancelOf, cancel, kill, task, cfut>>

LEMMA NextCancel ==
  ASSUME TypeOK, CancelInv, [Next]_vars
  PROVE  CancelInv'
<1> USE DEF CancelInv
<1>0. /\ task \in [Turns -> TaskPlaces]
      /\ cfut \in [Turns -> Terminals \cup {"pending"}]
      /\ cancel \in [Turns -> BOOLEAN] /\ kill \in [Turns -> BOOLEAN]
      /\ cancelOf \in [Cancels -> Turns \cup {NoTurn}]
      /\ cancelAt \in [Cancels -> CancelPlaces]
  BY DEF TypeOK
<1>1. CASE UNCHANGED vars
  BY <1>1 DEF vars, Asked
<1>2. ASSUME NEW t \in Turns, TurnThread(t)
      PROVE  CancelInv'
  <2>1. /\ UNCHANGED <<cancelAt, cancelOf, cancel, kill, cfut>>
        /\ UNCHANGED task \/ task' = [task EXCEPT ![t] = "posted"]
    BY <1>2 DEF TurnThread, Load, Claim, Submit, PublishTerminal, Release, Close
  <2> QED
    BY <1>0, <2>1 DEF Asked
<1>3. ASSUME NEW t \in Turns, TurnTask(t)
      PROVE  CancelInv'
  <2>1. UNCHANGED <<cancelAt, cancelOf, cancel>>
    BY <1>3 DEF TurnTask, Spawn, Enter, RecordUser, RecordReply, Record, Emit, Fail, Return,
                CancelTask, Done, StartDelivery, DeliveryEmits, DeliveryEnds
  <2>2. CASE Spawn(t)
    BY <1>0, <2>1, <2>2 DEF Spawn, Asked
  <2>3. CASE CancelTask(t)
    BY <1>0, <2>1, <2>3 DEF CancelTask, Asked
  <2>4. CASE Done(t)
    BY <1>0, <2>1, <2>4 DEF Done, Asked, Ended
  <2>5. CASE \/ Enter(t) \/ RecordUser(t) \/ RecordReply(t) \/ Emit(t) \/ Fail(t) \/ Return(t)
             \/ StartDelivery(t) \/ DeliveryEmits(t) \/ DeliveryEnds(t)
    <3>1. /\ UNCHANGED <<kill, cfut>>
          /\ UNCHANGED task
             \/ \E place \in TaskPlaces \ {"dropped", "cancelled"} :
                  task' = [task EXCEPT ![t] = place]
      BY <2>5 DEF Enter, RecordUser, RecordReply, Record, Emit, Fail, Return, StartDelivery,
                  DeliveryEmits, DeliveryEnds, TaskPlaces, Alive, Ended
    <3> QED
      BY <1>0, <2>1, <3>1 DEF Asked
  <2> QED
    BY <1>3, <2>2, <2>3, <2>4, <2>5 DEF TurnTask
<1>4. ASSUME NEW k \in Cancels, RequestCancel(k)
      PROVE  CancelInv'
  <2>1. UNCHANGED <<task, cfut>> /\ cancelAt[k] = "new" /\ cancelOf[k] = NoTurn
    BY <1>4 DEF RequestCancel
  <2>2. CASE turns[doorOf[k]] = NoTurn
    <3>1. UNCHANGED <<cancelOf, cancel, kill>> /\ cancelAt' = [cancelAt EXCEPT ![k] = "idle"]
      BY <1>4, <2>2 DEF RequestCancel
    <3> QED
      BY <1>0, <2>1, <3>1 DEF Asked
  <2>3. CASE turns[doorOf[k]] # NoTurn
    <3> DEFINE u == turns[doorOf[k]]
    <3>1. /\ cancelAt' = [cancelAt EXCEPT ![k] = "polling"]
          /\ cancelOf' = [cancelOf EXCEPT ![k] = u]
          /\ \A t \in Turns \ {u} : cancel'[t] = cancel[t] /\ kill'[t] = kill[t]
      BY <1>0, <1>4, <2>3 DEF RequestCancel
    <3>2. \A t \in Turns : Asked(t) \/ t = u => Asked(t)'
      BY <1>0, <2>1, <3>1, NoTurnAssumption DEF Asked
    <3>3. \A b \in Cancels : cancelAt'[b] = "new" => cancelOf'[b] = NoTurn
      BY <1>0, <3>1
    <3> QED
      BY <2>1, <3>1, <3>2, <3>3
  <2> QED
    BY <2>2, <2>3
<1>5. ASSUME NEW k \in Cancels, EndCancel(k)
      PROVE  CancelInv'
  BY ZenonT(60), <1>0, <1>5 DEF EndCancel, Asked
<1>6. ASSUME NEW f \in Followers, FollowHub(f) \/ Subscribe(f) \/ Drop(f)
      PROVE  CancelInv'
  BY <1>6 DEF FollowHub, Subscribe, Drop, Asked
<1>7. ASSUME NEW c \in Compactions, LoadToCompact(c) \/ BeginCompact(c) \/ EndCompact(c)
      PROVE  CancelInv'
  BY <1>7 DEF LoadToCompact, BeginCompact, EndCompact, Asked
<1>8. ASSUME NEW d \in Doors, Delete(d)
      PROVE  CancelInv'
  BY <1>8 DEF Delete, Asked
<1>9. ASSUME NEW p \in Prunes, Prune(p)
      PROVE  CancelInv'
  BY <1>9 DEF Prune, Snapshot, BeginPrune, LoadToPrune, PruneBlank, EndPrune, Create, Asked
<1> QED
  BY <1>1, <1>2, <1>3, <1>4, <1>5, <1>6, <1>7, <1>8, <1>9 DEF Next

-----------------------------------------------------------------------------
(* Doors of turns at work, where nothing is pruned                         *)

\* A turn in flight whose task has loaded its door has the door, and the rows
\* that the task has written.
AtWork ==
  \A t \in Turns :
    turnAt[t] \in InFlight /\ task[t] \in {"running", "recorded", "replied", "returned"} =>
      /\ door[doorOf[t]] = "present"
      /\ task[t] # "running" => <<t, "user">> \in rows[doorOf[t]]
      /\ task[t] \in {"replied", "returned"} => <<t, "reply">> \in rows[doorOf[t]]

\* No step but a deletion, or a prune, takes a door or a row.
LEMMA StoreGrows ==
  ASSUME TypeOK, Prunes = {}, [Next]_vars
  PROVE  \/ \E d \in Doors : Delete(d)
         \/ /\ UNCHANGED door
            /\ \A d \in Doors : rows[d] \subseteq rows'[d]
<1>1. CASE UNCHANGED vars
  BY <1>1 DEF vars
<1>2. ASSUME NEW t \in Turns, TurnThread(t)
      PROVE  UNCHANGED <<door, rows>>
  BY <1>2 DEF TurnThread, Load, Claim, Submit, PublishTerminal, Release, Close
<1>3. ASSUME NEW t \in Turns, TurnTask(t)
      PROVE  UNCHANGED door /\ \A d \in Doors : rows[d] \subseteq rows'[d]
  <2>1. ASSUME NEW from, NEW kind, NEW to, Record(t, from, kind, to)
        PROVE  UNCHANGED door /\ \A d \in Doors : rows[d] \subseteq rows'[d]
    <3> DEFINE R == Turns \X {"user", "reply"}
    <3>1. rows \in [Doors -> SUBSET R]
      BY DEF TypeOK
    <3> HIDE DEF R
    <3>2. UNCHANGED rows \/ rows' = [rows EXCEPT ![doorOf[t]] = @ \cup {<<t, kind>>}]
      BY <2>1 DEF Record
    <3>3. UNCHANGED door
      BY <2>1 DEF Record
    <3> QED
      BY <3>1, <3>2, <3>3
  <2>2. CASE RecordUser(t) \/ RecordReply(t)
    BY <2>1, <2>2 DEF RecordUser, RecordReply
  <2>3. CASE ~(RecordUser(t) \/ RecordReply(t))
    BY <1>3, <2>3 DEF TurnTask, Spawn, Enter, Emit, Fail, Return, CancelTask, Done,
                      StartDelivery, DeliveryEmits, DeliveryEnds
  <2> QED
    BY <2>2, <2>3
<1>4. ASSUME NEW k \in Cancels, RequestCancel(k) \/ EndCancel(k)
      PROVE  UNCHANGED <<door, rows>>
  BY <1>4 DEF RequestCancel, EndCancel
<1>5. ASSUME NEW f \in Followers, FollowHub(f) \/ Subscribe(f) \/ Drop(f)
      PROVE  UNCHANGED <<door, rows>>
  BY <1>5 DEF FollowHub, Subscribe, Drop
<1>6. ASSUME NEW c \in Compactions, LoadToCompact(c) \/ BeginCompact(c) \/ EndCompact(c)
      PROVE  UNCHANGED <<door, rows>>
  BY <1>6 DEF LoadToCompact, BeginCompact, EndCompact
<1> QED
  BY <1>1, <1>2, <1>3, <1>4, <1>5, <1>6 DEF Next

LEMMA NextAtWork ==
  ASSUME TypeOK, Phases, OneOwnerPerDoor, AtWork, Prunes = {}, [Next]_vars
  PROVE  AtWork'
<1> USE DEF AtWork, InFlight
<1>0. /\ turnAt \in [Turns -> TurnPlaces]
      /\ task \in [Turns -> TaskPlaces]
      /\ rows \in [Doors -> SUBSET (Turns \X {"user", "reply"})]
      /\ door \in [Doors -> {"unborn", "present", "gone"}]
      /\ \A t \in Turns : doorOf[t] \in Doors
  BY DEF TypeOK, Requests
<1>1. ASSUME NEW d \in Doors, Delete(d)
      PROVE  AtWork'
  <2>1. turns[d] = NoTurn
    BY <1>1 DEF Delete, Held
  <2>2. \A t \in Turns : turnAt[t] \in InFlight => doorOf[t] # d
    BY <2>1, NoTurnAssumption DEF OneOwnerPerDoor
  <2>3. /\ UNCHANGED <<turnAt, task, doorOf>>
        /\ \A b \in Doors \ {d} : door'[b] = door[b] /\ rows'[b] = rows[b]
    BY <1>0, <1>1 DEF Delete, Remove
  <2> QED
    BY <1>0, <2>2, <2>3
<1>2. CASE UNCHANGED door /\ \A d \in Doors : rows[d] \subseteq rows'[d]
  <2>0. UNCHANGED doorOf
    BY OwnerFrame DEF ownerVars, Claim, Release, Load, Submit, PublishTerminal, Close,
       LoadToCompact, BeginCompact, EndCompact
  <2>1. CASE UNCHANGED phaseVars
    BY <1>0, <1>2, <2>0, <2>1 DEF phaseVars
  <2>2. ASSUME NEW t \in Turns, PhaseStep(t)
        PROVE  AtWork'
    <3> USE <1>0, <1>2, <2>0
    <3>1. CASE Load(t)            BY <3>1 DEF Load
    <3>2. CASE Claim(t)           BY SMTT(30), <3>2 DEF Claim, Phases
    <3>3. CASE Submit(t)          BY <3>3 DEF Submit
    <3>4. CASE PublishTerminal(t) BY <3>4 DEF PublishTerminal
    <3>5. CASE Release(t)         BY <3>5 DEF Release
    <3>6. CASE Close(t)           BY <3>6 DEF Close
    <3>7. CASE Spawn(t)           BY <3>7 DEF Spawn
    <3>8. CASE Enter(t)           BY <3>8 DEF Enter
    <3>9. CASE RecordUser(t)      BY <3>9 DEF RecordUser, Record
    <3>10. CASE RecordReply(t)    BY <3>10 DEF RecordReply, Record
    <3>11. CASE Fail(t)           BY <3>11 DEF Fail
    <3>12. CASE Return(t)         BY <3>12 DEF Return
    <3>13. CASE CancelTask(t)     BY <3>13 DEF CancelTask
    <3>14. CASE Done(t)           BY <3>14 DEF Done
    <3> QED
      BY <2>2, <3>1, <3>2, <3>3, <3>4, <3>5, <3>6, <3>7, <3>8, <3>9, <3>10, <3>11, <3>12,
         <3>13, <3>14 DEF PhaseStep
  <2> QED
    BY <2>1, <2>2, PhaseFrame
<1> QED
  BY <1>1, <1>2, StoreGrows

-----------------------------------------------------------------------------
(* Doors of turns at work, and prunes                                      *)

\* A prune that runs, or has run, and does not spare the door.
StaleFor(p, d) == pruneAt[p] \in {"pruning", "pruned", "done"} /\ d \notin keep[p]

\* The door that a prune is about to delete is one it does not spare, and a turn
\* whose task has loaded its door has lost it to such a prune only.
StaleInv ==
  /\ \A p \in Prunes : blank[p] # NoDoor => StaleFor(p, blank[p])
  /\ \A t \in Turns :
       /\ turnAt[t] = "waiting" /\ task[t] \in {"running", "recorded", "replied"}
       /\ door[doorOf[t]] = "gone"
       => \E p \in Prunes : StaleFor(p, doorOf[t])

\* Who takes doors, and who makes a prune go on.
LEMMA PruneFrame ==
  ASSUME [Next]_vars
  PROVE  \/ UNCHANGED <<door, pruneVars>>
         \/ \E d \in Doors : Delete(d)
         \/ \E p \in Prunes : \/ Snapshot(p) \/ BeginPrune(p) \/ EndPrune(p) \/ PruneBlank(p)
                              \/ \E d \in Doors : LoadToPrune(p, d) \/ Create(p, d)
<1>1. CASE UNCHANGED vars
  BY <1>1 DEF vars
<1>2. ASSUME NEW t \in Turns, TurnThread(t) \/ TurnTask(t)
      PROVE  UNCHANGED <<door, pruneVars>>
  BY <1>2 DEF TurnThread, Load, Claim, Submit, PublishTerminal, Release, Close,
              TurnTask, Spawn, Enter, RecordUser, RecordReply, Record, Emit, Fail, Return,
              CancelTask, Done, StartDelivery, DeliveryEmits, DeliveryEnds
<1>3. ASSUME NEW k \in Cancels, RequestCancel(k) \/ EndCancel(k)
      PROVE  UNCHANGED <<door, pruneVars>>
  BY <1>3 DEF RequestCancel, EndCancel
<1>4. ASSUME NEW f \in Followers, FollowHub(f) \/ Subscribe(f) \/ Drop(f)
      PROVE  UNCHANGED <<door, pruneVars>>
  BY <1>4 DEF FollowHub, Subscribe, Drop
<1>5. ASSUME NEW c \in Compactions, LoadToCompact(c) \/ BeginCompact(c) \/ EndCompact(c)
      PROVE  UNCHANGED <<door, pruneVars>>
  BY <1>5 DEF LoadToCompact, BeginCompact, EndCompact
<1> QED
  BY <1>1, <1>2, <1>3, <1>4, <1>5 DEF Next, Prune

LEMMA NextStale ==
  ASSUME TypeOK, OneOwnerPerDoor, StaleInv, [Next]_vars
  PROVE  StaleInv'
<1> DEFINE Works(t) == turnAt[t] = "waiting" /\ task[t] \in {"running", "recorded", "replied"}
<1>0. /\ turnAt \in [Turns -> TurnPlaces]
      /\ task \in [Turns -> TaskPlaces]
      /\ door \in [Doors -> {"unborn", "present", "gone"}]
      /\ pruneAt \in [Prunes -> PrunePlaces] /\ keep \in [Prunes -> SUBSET Doors]
      /\ blank \in [Prunes -> Doors \cup {NoDoor}]
      /\ \A t \in Turns : doorOf[t] \in Doors
  BY DEF TypeOK, Requests
<1>1. UNCHANGED doorOf
  BY OwnerFrame DEF ownerVars, Claim, Release, Load, Submit, PublishTerminal, Close,
     LoadToCompact, BeginCompact, EndCompact
<1>2. ASSUME NEW t \in Turns, Works(t)'
      PROVE  Works(t) \/ (door[doorOf[t]] = "present" /\ UNCHANGED door)
  <2>1. CASE UNCHANGED phaseVars
    BY <1>2, <2>1 DEF phaseVars
  <2>2. ASSUME NEW u \in Turns, PhaseStep(u)
        PROVE  Works(t) \/ (door[doorOf[t]] = "present" /\ UNCHANGED door)
    <3> USE <1>0, <1>2
    <3>1. CASE Load(u)            BY <3>1 DEF Load
    <3>2. CASE Claim(u)           BY <3>2 DEF Claim
    <3>3. CASE Submit(u)          BY <3>3 DEF Submit
    <3>4. CASE PublishTerminal(u) BY <3>4 DEF PublishTerminal
    <3>5. CASE Release(u)         BY <3>5 DEF Release
    <3>6. CASE Close(u)           BY <3>6 DEF Close
    <3>7. CASE Spawn(u)           BY <3>7 DEF Spawn
    <3>8. CASE Enter(u)           BY <3>8 DEF Enter
    <3>9. CASE RecordUser(u)      BY <3>9 DEF RecordUser, Record
    <3>10. CASE RecordReply(u)    BY <3>10 DEF RecordReply, Record
    <3>11. CASE Fail(u)           BY <3>11 DEF Fail
    <3>12. CASE Return(u)         BY <3>12 DEF Return
    <3>13. CASE CancelTask(u)     BY <3>13 DEF CancelTask
    <3>14. CASE Done(u)           BY <3>14 DEF Done
    <3> QED
      BY <2>2, <3>1, <3>2, <3>3, <3>4, <3>5, <3>6, <3>7, <3>8, <3>9, <3>10, <3>11, <3>12,
         <3>13, <3>14 DEF PhaseStep
  <2> QED
    BY <2>1, <2>2, PhaseFrame
\* It is enough that stale prunes stay stale and take what is taken.
<1>3. ASSUME \A p \in Prunes, d \in Doors : StaleFor(p, d) => StaleFor(p, d)',
             \A p \in Prunes : blank'[p] # NoDoor => StaleFor(p, blank[p])',
             \A t \in Turns : Works(t) /\ door[doorOf[t]] # "gone" /\ door'[doorOf[t]] = "gone"
                              => \E p \in Prunes : StaleFor(p, doorOf[t])'
      PROVE  StaleInv'
  <2>1. \A t \in Turns : /\ Works(t)' /\ door'[doorOf[t]] = "gone"
                         => \E p \in Prunes : StaleFor(p, doorOf[t])'
    <3> SUFFICES ASSUME NEW t \in Turns, Works(t)', door'[doorOf[t]] = "gone"
                 PROVE  \E p \in Prunes : StaleFor(p, doorOf[t])'
      OBVIOUS
    <3>1. CASE door[doorOf[t]] = "gone"
      <4>1. Works(t)
        BY <1>2, <3>1
      <4>2. PICK p \in Prunes : StaleFor(p, doorOf[t])
        BY <3>1, <4>1 DEF StaleInv
      <4> QED
        BY <1>0, <1>1, <1>3, <4>2 DEF StaleFor
    <3>2. CASE door[doorOf[t]] # "gone"
      BY <1>2, <1>3, <3>2
    <3> QED
      BY <3>1, <3>2
  <2> QED
    BY <1>0, <1>1, <1>3, <2>1 DEF StaleInv, StaleFor
<1>4. CASE UNCHANGED <<door, pruneVars>>
  BY <1>0, <1>3, <1>4 DEF StaleInv, StaleFor
<1>5. ASSUME NEW d \in Doors, Delete(d)
      PROVE  StaleInv'
  <2>1. turns[d] = NoTurn /\ UNCHANGED pruneVars
    BY <1>5 DEF Delete, Held
  <2>2. \A t \in Turns : Works(t) => doorOf[t] # d
    BY <2>1, NoTurnAssumption DEF OneOwnerPerDoor, InFlight
  <2>3. \A b \in Doors \ {d} : door'[b] = door[b]
    BY <1>0, <1>5 DEF Delete, Remove
  <2> QED
    BY <1>0, <1>3, <2>1, <2>2, <2>3 DEF StaleInv, StaleFor
<1>6. ASSUME NEW p \in Prunes, PruneBlank(p)
      PROVE  StaleInv'
  <2>1. /\ blank[p] # NoDoor /\ blank' = [blank EXCEPT ![p] = NoDoor]
        /\ UNCHANGED <<pruneAt, keep>> /\ door' = [door EXCEPT ![blank[p]] = "gone"]
    BY <1>6 DEF PruneBlank, Remove
  <2>2. \A d \in Doors : door[d] # "gone" /\ door'[d] = "gone" => d = blank[p]
    BY <1>0, <2>1
  <2> QED
    BY <1>0, <1>1, <1>3, <2>1, <2>2 DEF StaleInv, StaleFor
<1>7. ASSUME NEW p \in Prunes, NEW d \in Doors, Create(p, d)
      PROVE  StaleInv'
  <2>1. /\ pruneAt[p] = "pruned" /\ pruneAt' = [pruneAt EXCEPT ![p] = "done"]
        /\ door' = [door EXCEPT ![d] = "present"] /\ UNCHANGED <<keep, blank>>
    BY <1>7 DEF Create
  <2>2. \A c \in Doors : door[c] # "gone" => door'[c] # "gone"
    BY <1>0, <2>1
  <2> QED
    BY <1>0, <1>3, <2>1, <2>2 DEF StaleInv, StaleFor
<1>8. ASSUME NEW p \in Prunes, Snapshot(p)
      PROVE  StaleInv'
  <2>1. blank[p] = NoDoor
    BY <1>8 DEF Snapshot, StaleInv, StaleFor
  <2> QED
    BY <1>0, <1>3, <1>8, <2>1 DEF Snapshot, StaleInv, StaleFor
<1>9. ASSUME NEW p \in Prunes, BeginPrune(p) \/ EndPrune(p)
      PROVE  StaleInv'
  BY <1>0, <1>3, <1>9 DEF BeginPrune, EndPrune, StaleInv, StaleFor
<1>10. ASSUME NEW p \in Prunes, NEW d \in Doors, LoadToPrune(p, d)
       PROVE  StaleInv'
  <2>1. /\ pruneAt[p] = "pruning" /\ UNCHANGED <<door, pruneAt, keep>>
        /\ \A q \in Prunes \ {p} : blank'[q] = blank[q]
        /\ blank'[p] = IF d \in keep[p] \/ rows[d] # {} THEN NoDoor ELSE d
    BY <1>0, <1>10 DEF LoadToPrune
  <2> QED
    BY <1>0, <1>3, <2>1 DEF StaleInv, StaleFor
<1> QED
  BY <1>4, <1>5, <1>6, <1>7, <1>8, <1>9, <1>10, PruneFrame

-----------------------------------------------------------------------------
(* The theorems                                                            *)

ClaimInv == TypeOK /\ OneOwnerPerDoor /\ HubInv /\ Phases /\ EndingInv /\ CancelInv

LEMMA InitClaimInv == Init => ClaimInv
<1> SUFFICES ASSUME Init PROVE ClaimInv
  OBVIOUS
<1>1. TypeOK
  BY InitTypeOK
<1>2. OneOwnerPerDoor
  <2>1. \A t \in Turns : t # NoTurn /\ doorOf[t] \in Doors
    BY NoTurnAssumption DEF Init, Requests
  <2> QED
    BY <2>1 DEF Init, OneOwnerPerDoor, InFlight
<1>3. HubInv
  BY DEF Init, HubInv, Following, Subscribed, FollowersMissNothing
<1>4. Phases
  BY DEF Init, Phases, Alive
<1>5. EndingInv
  BY DEF Init, EndingInv, ClosedWhenDone, OneEnding, Endings
<1>6. CancelInv
  BY DEF Init, CancelInv, Terminals
<1> QED
  BY <1>1, <1>2, <1>3, <1>4, <1>5, <1>6 DEF ClaimInv

LEMMA ClaimInvInductive == Spec => []ClaimInv
<1>1. ClaimInv /\ [Next]_vars => ClaimInv'
  BY NextTypeOK, NextOneOwner, NextHubInv, NextPhases, NextEnding, NextCancel
     DEF ClaimInv, HubInv
<1> QED
  BY InitClaimInv, <1>1, PTL DEF Spec

\* The registry of turns and compactions, the jobs, the hubs and the doors keep
\* their types, for any requests and doors.
THEOREM ClaimTypeCorrect == Spec => []TypeOK
<1>1. ClaimInv => TypeOK
  BY DEF ClaimInv
<1> QED
  BY ClaimInvInductive, <1>1, PTL

\* One turn or one compaction at a time holds a door, and the registry says which.
THEOREM DoorsHaveOneOwner == Spec => []OneOwnerPerDoor
<1>1. ClaimInv => OneOwnerPerDoor
  BY DEF ClaimInv
<1> QED
  BY ClaimInvInductive, <1>1, PTL

\* A subscriber of a hub is given its whole log and its end, whenever it comes.
THEOREM SubscribersMissNothing == Spec => []FollowersMissNothing
<1>1. ClaimInv => FollowersMissNothing
  BY DEF ClaimInv, HubInv
<1> QED
  BY ClaimInvInductive, <1>1, PTL

\* A hub tells the outcome of its turn, once, before the claim is given back.
THEOREM HubsTellOneEnding == Spec => []OneEnding
<1>1. ClaimInv => OneEnding
  BY DEF ClaimInv, EndingInv
<1> QED
  BY ClaimInvInductive, <1>1, PTL

\* No turn is cancelled that no request found in flight.
THEOREM CancelsHitTheirTurn == Spec => []CancelHitsItsTurn
<1>1. ClaimInv => CancelHitsItsTurn
  BY DEF ClaimInv, CancelInv, Asked, CancelHitsItsTurn
<1> QED
  BY ClaimInvInductive, <1>1, PTL

\* Where nothing is pruned, a turn that is reported as completed is recorded: the
\* user's row and the reply are in its door until it gives back the claim.
THEOREM CompletedTurnsAreRecorded ==
  ASSUME Prunes = {}
  PROVE  Spec => []CompletedTurnIsRecorded
<1>1. Init => AtWork
  BY DEF Init, AtWork, InFlight
<1>2. ClaimInv /\ AtWork /\ [Next]_vars => AtWork'
  BY NextAtWork DEF ClaimInv
<1>3. ClaimInv /\ AtWork => CompletedTurnIsRecorded
  BY DEF ClaimInv, Phases, AtWork, CompletedTurnIsRecorded, InFlight
<1> QED
  BY ClaimInvInductive, <1>1, <1>2, <1>3, PTL DEF Spec

\* With any number of prunes and of turns: a turn at work loses its door only to a
\* prune that snapshotted the turns in flight before the claim
\* (conversation_admin/service.py); no other caller takes it.
THEOREM OnlyStalePrunesTakeDoors == Spec => []OnlyStalePruneTakes
<1>1. Init => StaleInv
  BY DEF Init, StaleInv
<1>2. ClaimInv /\ StaleInv /\ [Next]_vars => StaleInv'
  BY NextStale DEF ClaimInv
<1>3. StaleInv => OnlyStalePruneTakes
  BY DEF StaleInv, StaleFor, OnlyStalePruneTakes
<1> QED
  BY ClaimInvInductive, <1>1, <1>2, <1>3, PTL DEF Spec

===============================================================================
