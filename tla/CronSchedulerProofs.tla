------------------------- MODULE CronSchedulerProofs -------------------------
(* For any triggers, periods, clients, queue and number of crashes: what the *)
(* scheduler and its file hold, that a trigger skips no more than it owes,   *)
(* that plan and file agree, and that the sleeping loop knows what is next.  *)
EXTENDS CronScheduler, FiniteSetTheorems, TLAPS

\* What a queued request may be about.
RequestsTyped ==
    \A k \in DOMAIN lock :
        /\ lock[k].op \in {"add", "remove", "enable", "disable"} => lock[k].id \in minted
        /\ lock[k].op = "consume" => lock[k].id \in Once

TypeInv == TypeOK /\ RequestsTyped

LEMMA NextFireTyped ==
  ASSUME NEW i \in Cron, now \in Nat
  PROVE  NextFire(i, now) \in Nat
  <1> DEFINE p == Period[i]
  <1>1. p \in Nat \ {0}
    BY CronConstants
  <1>2. \A q \in Nat \ {0}, n \in Nat : n \div q \in Nat
    BY SMT
  <1>3. now \div p \in Nat
    BY <1>1, <1>2
  <1>4. \A a, b \in Nat : a * (b + 1) \in Nat
    BY SMT
  <1> QED BY <1>1, <1>3, <1>4 DEF NextFire

\* The queue of the lock, one request longer or shorter.
LEMMA LockAppend ==
  ASSUME lock \in Seq(Request), NEW r \in Request, lock' = Append(lock, r)
  PROVE  /\ lock' \in Seq(Request)
         /\ \A k \in DOMAIN lock' : (k \in DOMAIN lock /\ lock'[k] = lock[k]) \/ lock'[k] = r
         /\ \A k \in DOMAIN lock : k \in DOMAIN lock' /\ lock'[k] = lock[k]
         /\ Len(lock) + 1 \in DOMAIN lock' /\ lock'[Len(lock) + 1] = r
         /\ \A k \in DOMAIN lock' : k \notin DOMAIN lock => k = Len(lock) + 1
  OBVIOUS

LEMMA LockTail ==
  ASSUME lock \in Seq(Request), lock # <<>>, lock' = Tail(lock)
  PROVE  /\ lock' \in Seq(Request)
         /\ 1 \in DOMAIN lock /\ Head(lock) = lock[1] /\ Head(lock) \in Request
         /\ \A k \in DOMAIN lock' : k \in Nat /\ k + 1 \in DOMAIN lock /\ lock'[k] = lock[k + 1] /\ k + 1 # 1
         /\ \A k \in DOMAIN lock : k # 1 => k - 1 \in DOMAIN lock' /\ lock'[k - 1] = lock[k]
  OBVIOUS

LEMMA TypeInit == Init => TypeInv
  <1> SUFFICES ASSUME Init PROVE TypeInv
    OBVIOUS
  <1>1. MaxTime \in Nat /\ MaxFailures \in Nat /\ MaxCrashes \in Nat /\ QUEUE_CAPACITY \in Nat
    BY CronConstants
  <1>2. 0 \in Time /\ Never \in Time \cup {Never} /\ 0 \in 0..MaxFailures
    BY <1>1 DEF Time
  <1>3. trigger_state \in [Ids -> [last : Time \cup {Never}, failures : 0..MaxFailures]]
    BY <1>2 DEF Init
  <1>4. fires \in [Ids -> [Time -> Nat]] /\ torn \in [Once -> Nat]
    BY DEF Init
  <1>5. store \in [DOMAIN store -> Record] /\ items \in [DOMAIN items -> Item]
        /\ DOMAIN store = {} /\ DOMAIN items = {} /\ Len(queue) = 0
        /\ queue \in Seq(Ids) /\ lock \in Seq(Request) /\ DOMAIN lock = {}
    BY DEF Init
  <1>6. now \in Time /\ crashes \in 0..MaxCrashes /\ Len(queue) <= QUEUE_CAPACITY
    BY <1>1, <1>2, <1>5 DEF Init
  <1>7. minted \subseteq Dynamic /\ todo \subseteq Ids /\ wake \in BOOLEAN
    BY DEF Init
  <1>8. pc = "down" /\ target = None /\ running = None
    BY DEF Init
  <1>9. TypeOK
    <2> HIDE DEF Init
    <2> QED BY <1>3, <1>4, <1>5, <1>6, <1>7, <1>8 DEF TypeOK
  <1>10. RequestsTyped
    BY <1>5 DEF RequestsTyped
  <1> QED BY <1>9, <1>10 DEF TypeInv

-----------------------------------------------------------------------------
(* What the helpers return *)

LEMMA ItemsMore ==
  ASSUME items \in [DOMAIN items -> Item], NEW i, NEW m \in Item, items' = With(items, i, m)
  PROVE  items' \in [DOMAIN items' -> Item] /\ DOMAIN items' = DOMAIN items \cup {i}
  <1>1. DOMAIN items' = DOMAIN items \cup {i}
    BY DEF With
  <1>2. \A j \in DOMAIN items \cup {i} : items'[j] \in Item
    BY DEF With
  <1>3. items' = [j \in DOMAIN items \cup {i} |-> items'[j]]
    BY DEF With
  <1> QED BY <1>1, <1>2, <1>3

LEMMA StoreMore ==
  ASSUME store \in [DOMAIN store -> Record], NEW i, NEW r \in Record, store' = With(store, i, r)
  PROVE  store' \in [DOMAIN store' -> Record] /\ DOMAIN store' = DOMAIN store \cup {i}
  <1>1. DOMAIN store' = DOMAIN store \cup {i}
    BY DEF With
  <1>2. \A j \in DOMAIN store \cup {i} : store'[j] \in Record
    BY DEF With
  <1>3. store' = [j \in DOMAIN store \cup {i} |-> store'[j]]
    BY DEF With
  <1> QED BY <1>1, <1>2, <1>3

LEMMA WithoutFacts ==
  ASSUME NEW f, NEW S, f \in [DOMAIN f -> S], NEW G
  PROVE  /\ Without(f, G) \in [DOMAIN Without(f, G) -> S]
         /\ DOMAIN Without(f, G) = DOMAIN f \ G
         /\ \A j \in DOMAIN f \ G : Without(f, G)[j] = f[j]
  BY DEF Without, Restrict

LEMMA FireTyped ==
  ASSUME TypeOK, NEW i \in Ids, NEW due, Fire(i, due)
  PROVE  /\ trigger_state' \in [Ids -> [last : Time \cup {Never}, failures : 0..MaxFailures]]
         /\ fires' \in [Ids -> [Time -> Nat]]
         /\ queue' \in Seq(Ids) /\ Len(queue') <= QUEUE_CAPACITY
         /\ \A j \in Ids : trigger_state'[j].failures = trigger_state[j].failures
  <1> DEFINE S == [last : Time \cup {Never}, failures : 0..MaxFailures]
             fs == fires[i]
  <1>1. \A r \in S, n \in Time :
           [r EXCEPT !.last = n] \in S /\ [r EXCEPT !.last = n].failures = r.failures
    OBVIOUS
  <1>2. trigger_state[i] \in S /\ now \in Time /\ trigger_state \in [Ids -> S]
    BY DEF TypeOK
  <1>3. trigger_state' = [trigger_state EXCEPT ![i] = [trigger_state[i] EXCEPT !.last = now]]
    BY DEF Fire
  <1> HIDE DEF S
  <1>4. trigger_state' \in [Ids -> S]
    BY <1>1, <1>2, <1>3
  <1>5. \A j \in Ids : trigger_state'[j].failures = trigger_state[j].failures
    BY <1>1, <1>2, <1>3
  <1>6. fs \in [Time -> Nat]
    BY DEF TypeOK
  <1>7. [fs EXCEPT ![due] = @ + 1] \in [Time -> Nat]
    <2> HIDE DEF fs
    <2>1. CASE due \in Time
      <3>1. fs[due] + 1 \in Nat
        BY <1>6, <2>1
      <3> QED BY <1>6, <3>1
    <2>2. CASE due \notin Time
      <3>1. [fs EXCEPT ![due] = @ + 1] = fs
        BY <1>6, <2>2
      <3> QED BY <1>6, <3>1
    <2> QED BY <2>1, <2>2
  <1>8. fires' \in [Ids -> [Time -> Nat]]
    BY <1>7 DEF Fire, TypeOK
  <1>9. queue' \in Seq(Ids) /\ Len(queue') <= QUEUE_CAPACITY
    BY CronConstants DEF Fire, TypeOK
  <1> QED BY <1>4, <1>5, <1>8, <1>9 DEF S

LEMMA KeepFacts ==
  ASSUME TypeOK, NEW G, KeepTarget(G)
  PROVE  /\ target' \in Target \cup {None}
         /\ target # None <=> target' # None
         /\ target # None => target'.id = target.id /\ target'.at = target.at
         /\ target # None => (target'.stale <=> target.stale \/ target.id \in G \cap DOMAIN items)
  <1>1. CASE target # None /\ target.id \in G \cap DOMAIN items /\ ~ target.stale
    <2>1. target \in Target /\ items[target.id].skip \in Nat
      BY <1>1 DEF TypeOK, Item
    <2>2. target' = [target EXCEPT !.skip = items[target.id].skip, !.stale = TRUE]
      BY <1>1 DEF KeepTarget
    <2>3. /\ target' \in Target /\ target'.id = target.id /\ target'.at = target.at
          /\ target'.stale = TRUE
      BY <2>1, <2>2 DEF Target
    <2>4. None \notin Target
      BY CronConstants DEF Target
    <2> QED BY <1>1, <2>3, <2>4
  <1>2. CASE ~ (target # None /\ target.id \in G \cap DOMAIN items /\ ~ target.stale)
    <2>1. target' = target
      BY <1>2 DEF KeepTarget
    <2> QED BY <1>2, <2>1 DEF TypeOK
  <1> QED BY <1>1, <1>2

\* An item that is moved on is an item still, of the same triggers.
LEMMA AdvanceFacts ==
  ASSUME TypeOK, NEW i \in Cron, NEW skip, NEW stale \in BOOLEAN,
         ~ stale /\ i \in DOMAIN items => skip \in Nat, Advance(i, skip, stale)
  PROVE  /\ items' \in [DOMAIN items' -> Item] /\ DOMAIN items' = DOMAIN items
         /\ \A j \in DOMAIN items : j # i => items'[j] = items[j]
         /\ i \in DOMAIN items => items'[i].skip = IF stale THEN items[i].skip ELSE skip
  <1>1. CASE stale \/ i \notin DOMAIN items
    <2>1. items' = items
      BY <1>1 DEF Advance, TypeOK
    <2> QED BY <1>1, <2>1 DEF TypeOK
  <1>2. CASE ~ stale /\ i \in DOMAIN items
    <2>1. now \in Nat
      BY CronConstants DEF TypeOK, Time
    <2>2. NextFire(i, now) \in Nat /\ skip \in Nat /\ items[i] \in Item
      BY <1>2, <2>1, NextFireTyped DEF TypeOK
    <2> DEFINE m == [items[i] EXCEPT !.at = NextFire(i, now), !.skip = skip]
    <2>3. m \in Item /\ m.skip = skip
      BY <2>2 DEF Item
    <2>4. items' = [items EXCEPT ![i] = m]
      BY <1>2 DEF Advance
    <2> HIDE DEF m
    <2>5. items \in [DOMAIN items -> Item]
      BY DEF TypeOK
    <2> QED BY <1>2, <2>3, <2>4, <2>5
  <1> QED BY <1>1, <1>2

LEMMA RequestsKept ==
  ASSUME RequestsTyped, UNCHANGED lock, minted \subseteq minted'
  PROVE  RequestsTyped'
  BY DEF RequestsTyped

LEMMA RequestsMore ==
  ASSUME TypeOK, RequestsTyped, NEW r \in Request, lock' = Append(lock, r), minted \subseteq minted',
         r.op \in {"add", "remove", "enable", "disable"} => r.id \in minted',
         r.op = "consume" => r.id \in Once
  PROVE  RequestsTyped' /\ lock' \in Seq(Request)
  <1>1. lock \in Seq(Request)
    BY DEF TypeOK
  <1>2. \A k \in DOMAIN lock' : (k \in DOMAIN lock /\ lock'[k] = lock[k]) \/ lock'[k] = r
    BY <1>1, LockAppend
  <1>3. lock' \in Seq(Request)
    BY <1>1, LockAppend
  <1> QED BY <1>2, <1>3 DEF RequestsTyped

LEMMA RequestsFewer ==
  ASSUME TypeOK, RequestsTyped, NEW op, Unlock(op), UNCHANGED minted
  PROVE  /\ RequestsTyped' /\ lock' \in Seq(Request) /\ Asked \in Request /\ Asked.op = op
         /\ op \in {"add", "remove", "enable", "disable"} => Asked.id \in minted
         /\ op = "consume" => Asked.id \in Once
  <1>1. lock \in Seq(Request) /\ lock # <<>> /\ lock' = Tail(lock) /\ Asked.op = op
    BY DEF TypeOK, Unlock
  <1>2. \A k \in DOMAIN lock' : k \in Nat /\ k + 1 \in DOMAIN lock /\ lock'[k] = lock[k + 1]
    BY <1>1, LockTail
  <1>3. lock' \in Seq(Request) /\ 1 \in DOMAIN lock /\ Asked = lock[1] /\ Asked \in Request
    BY <1>1, LockTail DEF Asked
  <1>4. RequestsTyped'
    BY <1>2 DEF RequestsTyped
  <1> QED BY <1>1, <1>3, <1>4 DEF RequestsTyped

LEMMA ConsumeTyped ==
  ASSUME TypeInv, NEW i \in Once, StartConsume(i), UNCHANGED minted
  PROVE  /\ RequestsTyped' /\ lock' \in Seq(Request)
         /\ items' \in [DOMAIN items' -> Item] /\ DOMAIN items' = DOMAIN items \ {i}
  <1> DEFINE r == [actor |-> Loop, op |-> "consume", id |-> i, at |-> 0]
  <1>1. r \in Request /\ r.op = "consume" /\ r.id = i
    BY DEF Request, Ids
  <1>2. lock' = Append(lock, r)
    BY DEF StartConsume
  <1>3. items' \in [DOMAIN items' -> Item] /\ DOMAIN items' = DOMAIN items \ {i}
    BY WithoutFacts DEF StartConsume, TypeInv, TypeOK
  <1> HIDE DEF r
  <1> QED BY <1>1, <1>2, <1>3, RequestsMore DEF TypeInv

-----------------------------------------------------------------------------
(* Type correctness, action by action *)

LEMMA NowTyped == TypeOK => now \in Nat
  BY CronConstants DEF TypeOK, Time

LEMMA TypeBoot ==
  ASSUME TypeInv, Boot
  PROVE  TypeInv'
  <1> DEFINE enabled == Static \cup {i \in DOMAIN store : store[i].enabled}
  <1>1. enabled \subseteq Ids
    BY DEF TypeInv, TypeOK, Ids, Cron, Dynamic
  <1>2. ASSUME NEW i \in enabled
        PROVE  (IF i \in Once THEN store[i].at ELSE NextFire(i, now)) \in Nat
    <2>1. CASE i \in Once
      BY <1>2, <2>1, CronConstants DEF TypeInv, TypeOK, Record, Dynamic
    <2>2. CASE i \notin Once
      BY <1>1, <1>2, <2>2, NowTyped, NextFireTyped DEF TypeInv, Ids
    <2> QED BY <2>1, <2>2
  <1>3. items' \in [enabled -> Item]
    BY <1>2 DEF Boot, Planned, Item
  <1>4. DOMAIN items' = enabled
    BY <1>3
  <1>5. TypeOK'
    BY <1>1, <1>3, <1>4 DEF TypeInv, TypeOK, Boot, fileVars, runVars, history
  <1> QED BY <1>5, RequestsKept DEF TypeInv, Boot, fileVars

LEMMA TypeSmall ==
  ASSUME TypeInv, Serve \/ Idle \/ WakeUp \/ TimerFires \/ Tick
  PROVE  TypeInv'
  <1> USE DEF TypeInv, fileVars, runVars, history, planVars
  <1>1. CASE Serve
    BY <1>1, RequestsKept DEF TypeOK, Serve
  <1>2. CASE Idle
    BY <1>2, RequestsKept DEF TypeOK, Idle
  <1>3. CASE WakeUp
    BY <1>3, RequestsKept DEF TypeOK, WakeUp
  <1>4. CASE TimerFires
    BY <1>4, RequestsKept DEF TypeOK, TimerFires
  <1>5. CASE Tick
    <2>1. now' \in Time
      BY <1>5, CronConstants DEF TypeOK, Tick, Time
    <2> QED BY <1>5, <2>1, RequestsKept DEF TypeOK, Tick
  <1> QED BY <1>1, <1>2, <1>3, <1>4, <1>5

LEMMA TypeSleep ==
  ASSUME TypeInv, Sleep
  PROVE  TypeInv'
  <1>1. PICK i \in Soonest :
           target' = [id |-> i, at |-> items[i].at, skip |-> 0, stale |-> FALSE]
    BY DEF Sleep
  <1>2. i \in Ids /\ items[i].at \in Nat
    BY DEF Soonest, TypeInv, TypeOK, Item
  <1>3. target' \in Target
    BY <1>1, <1>2 DEF Target
  <1>4. target' # None
    BY <1>3, CronConstants DEF Target
  <1> QED BY <1>3, <1>4, RequestsKept DEF TypeInv, TypeOK, Sleep, fileVars, runVars, history

LEMMA TypeRuns ==
  ASSUME TypeInv, Take \/ Unplanned \/ Succeeded \/ Failed
  PROVE  TypeInv'
  <1> USE DEF TypeInv, fileVars, runVars, history, planVars
  <1> DEFINE S == [last : Time \cup {Never}, failures : 0..MaxFailures]
  <1>0. trigger_state \in [Ids -> S] /\ DOMAIN items \subseteq Ids /\ items \in [DOMAIN items -> Item]
    BY DEF TypeOK
  <1>a. \A r \in S, n \in 0..MaxFailures : [r EXCEPT !.failures = n] \in S
    OBVIOUS
  <1>b. \A m \in Item, n \in Nat : [m EXCEPT !.skip = n] \in Item
    BY DEF Item
  <1>1. CASE Take
    <2>1. queue # <<>> /\ queue \in Seq(Ids) /\ Len(queue) <= QUEUE_CAPACITY /\ queue' = Tail(queue)
      BY <1>1 DEF TypeOK, Take
    <2>2. Head(queue) \in Ids /\ queue' \in Seq(Ids) /\ Len(queue') <= QUEUE_CAPACITY
      BY <2>1, CronConstants
    <2> QED BY <1>1, <2>2, RequestsKept DEF TypeOK, Take
  <1>2. CASE Unplanned
    BY <1>2, RequestsKept DEF TypeOK, Unplanned
  <1>3. CASE Succeeded
    <2>1. 0 \in 0..MaxFailures
      BY CronConstants
    <2>2. /\ trigger_state' = [trigger_state EXCEPT ![running] = [trigger_state[running] EXCEPT !.failures = 0]]
          /\ items' = [items EXCEPT ![running] = [items[running] EXCEPT !.skip = 0]]
          /\ running \in DOMAIN items
      BY <1>3 DEF Succeeded
    <2> HIDE DEF S
    <2>3. trigger_state' \in [Ids -> S] /\ items' \in [DOMAIN items -> Item]
      BY <1>0, <1>a, <1>b, <2>1, <2>2
    <2> QED BY <1>3, <2>3, RequestsKept DEF TypeOK, Succeeded, S
  <1>4. CASE Failed
    <2> DEFINE n == trigger_state[running].failures + 1
    <2>1. running \in DOMAIN items /\ n \in 0..MaxFailures /\ (n >= 3 => n - 2 \in Nat)
      BY <1>0, <1>4, CronConstants DEF Failed
    <2>2. /\ trigger_state' = [trigger_state EXCEPT ![running] = [trigger_state[running] EXCEPT !.failures = n]]
          /\ items' = IF n >= 3 THEN [items EXCEPT ![running] = [items[running] EXCEPT !.skip = n - 2]]
                       ELSE items
      BY <1>4 DEF Failed
    <2> HIDE DEF S, n
    <2>3. trigger_state' \in [Ids -> S] /\ items' \in [DOMAIN items -> Item]
      BY <1>0, <1>a, <1>b, <2>1, <2>2
    <2> QED BY <1>4, <2>3, RequestsKept DEF TypeOK, Failed, S
  <1> QED BY <1>1, <1>2, <1>3, <1>4

LEMMA TypeDie ==
  ASSUME TypeInv, Die, UNCHANGED <<now, trigger_state, store, minted, fires>>,
         crashes' \in 0..MaxCrashes, torn' \in [Once -> Nat]
  PROVE  TypeInv'
  <1>1. DOMAIN items' = {} /\ items' \in [DOMAIN items' -> Item] /\ lock' \in Seq(Request)
        /\ DOMAIN lock' = {} /\ queue' \in Seq(Ids) /\ Len(queue') = 0
    BY DEF Die
  <1>2. Len(queue') <= QUEUE_CAPACITY
    BY <1>1, CronConstants
  <1>3. RequestsTyped'
    BY <1>1 DEF RequestsTyped
  <1>4. TypeOK'
    BY <1>1, <1>2 DEF TypeInv, TypeOK, Die
  <1> QED BY <1>3, <1>4 DEF TypeInv

LEMMA TypeHandle ==
  ASSUME TypeInv, NEW i \in Ids, NEW due, NEW skip, NEW stale \in BOOLEAN,
         ~ stale /\ i \in DOMAIN items => skip = items[i].skip,
         Handle(i, due, skip, stale), UNCHANGED <<now, crashes, store, minted, torn>>
  PROVE  TypeInv'
  <1>1. ~ stale /\ i \in DOMAIN items => skip \in Nat
    BY DEF TypeInv, TypeOK, Item
  <1>2. CASE skip > 0 /\ i \in Once /\ Die /\ UNCHANGED <<trigger_state, fires>>
    BY <1>2, TypeDie DEF TypeInv, TypeOK
  <1>3. CASE /\ skip > 0 /\ i \in Cron
             /\ Advance(i, skip - 1, stale) /\ pc' = "top" /\ target' = None
             /\ UNCHANGED <<wake, todo, lock, runVars, trigger_state, fires>>
    <2>1. ~ stale /\ i \in DOMAIN items => skip - 1 \in Nat
      BY <1>1, <1>3
    <2>2. items' \in [DOMAIN items' -> Item] /\ DOMAIN items' = DOMAIN items
      BY <1>3, <2>1, AdvanceFacts DEF TypeInv
    <2> QED BY <1>3, <2>2, RequestsKept DEF TypeInv, TypeOK, runVars
  <1>4. CASE /\ skip = 0 /\ i \in Cron /\ Fire(i, due)
             /\ Advance(i, 0, stale) /\ pc' = "top" /\ target' = None
             /\ UNCHANGED <<wake, todo, lock, running>>
    <2>1. items' \in [DOMAIN items' -> Item] /\ DOMAIN items' = DOMAIN items
      BY <1>4, AdvanceFacts DEF TypeInv
    <2>2. /\ trigger_state' \in [Ids -> [last : Time \cup {Never}, failures : 0..MaxFailures]]
          /\ fires' \in [Ids -> [Time -> Nat]]
          /\ queue' \in Seq(Ids) /\ Len(queue') <= QUEUE_CAPACITY
      BY <1>4, FireTyped DEF TypeInv
    <2> QED BY <1>4, <2>1, <2>2, RequestsKept DEF TypeInv, TypeOK
  <1>5. CASE /\ skip = 0 /\ i \in Once /\ Fire(i, due)
             /\ StartConsume(i) /\ pc' = "consume" /\ target' = None
             /\ UNCHANGED <<wake, todo, running>>
    <2>1. /\ RequestsTyped' /\ lock' \in Seq(Request)
          /\ items' \in [DOMAIN items' -> Item] /\ DOMAIN items' = DOMAIN items \ {i}
      BY <1>5, ConsumeTyped
    <2>2. /\ trigger_state' \in [Ids -> [last : Time \cup {Never}, failures : 0..MaxFailures]]
          /\ fires' \in [Ids -> [Time -> Nat]]
          /\ queue' \in Seq(Ids) /\ Len(queue') <= QUEUE_CAPACITY
      BY <1>5, FireTyped DEF TypeInv
    <2> QED BY <1>5, <2>1, <2>2 DEF TypeInv, TypeOK
  <1> QED BY <1>2, <1>3, <1>4, <1>5 DEF Handle

LEMMA TypeRun ==
  ASSUME TypeInv, Overdue \/ HandleTarget
  PROVE  TypeInv'
  <1>1. CASE Overdue
    <2>1. PICK i \in Soonest : Handle(i, items[i].at, items[i].skip, FALSE)
      BY <1>1 DEF Overdue
    <2>2. i \in Ids /\ UNCHANGED <<now, crashes, store, minted, torn>>
      BY <1>1 DEF Soonest, TypeInv, TypeOK, Overdue
    <2> QED BY <2>1, <2>2, TypeHandle
  <1>2. CASE HandleTarget
    <2> DEFINE skip == IF target.stale THEN target.skip ELSE items[target.id].skip
    <2>1. target.id \in Ids /\ target.stale \in BOOLEAN
      BY <1>2 DEF HandleTarget, TypeInv, TypeOK, Target
    <2>2. Handle(target.id, target.at, skip, target.stale) /\ UNCHANGED <<now, crashes, store, minted, torn>>
      BY <1>2 DEF HandleTarget
    <2> QED BY <2>1, <2>2, TypeHandle
  <1> QED BY <1>1, <1>2

LEMMA TypeCatchUp ==
  ASSUME TypeInv, NEW i \in Ids, CatchUp(i)
  PROVE  TypeInv'
  <1>1. /\ todo' \subseteq Ids /\ pc = "catchup"
        /\ UNCHANGED <<now, crashes, wake, target, store, minted, running, torn>>
    BY DEF CatchUp, TypeInv, TypeOK
  <1>2. ASSUME NEW due, Fire(i, due) \/ Skip
        PROVE  /\ trigger_state' \in [Ids -> [last : Time \cup {Never}, failures : 0..MaxFailures]]
               /\ fires' \in [Ids -> [Time -> Nat]]
               /\ queue' \in Seq(Ids) /\ Len(queue') <= QUEUE_CAPACITY
    BY <1>2, FireTyped DEF TypeInv, TypeOK, Skip
  <1>3. CASE UNCHANGED <<items, lock, pc>> /\ \E due : Fire(i, due) \/ Skip
    BY <1>1, <1>2, <1>3, RequestsKept DEF TypeInv, TypeOK
  <1>4. CASE i \in Once /\ StartConsume(i) /\ pc' = "drop" /\ \E due : Fire(i, due) \/ Skip
    <2>1. /\ RequestsTyped' /\ lock' \in Seq(Request)
          /\ items' \in [DOMAIN items' -> Item] /\ DOMAIN items' = DOMAIN items \ {i}
      BY <1>1, <1>4, ConsumeTyped
    <2> QED BY <1>1, <1>2, <1>4, <2>1 DEF TypeInv, TypeOK
  <1>5. CASE i \in Once
    <2>1. CatchUpOnce(i)
      BY <1>5 DEF CatchUp
    <2> QED BY <1>3, <1>4, <1>5, <2>1 DEF CatchUpOnce
  <1>6. CASE i \notin Once
    <2>1. CatchUpCron(i)
      BY <1>6 DEF CatchUp
    <2> QED BY <1>3, <2>1 DEF CatchUpCron
  <1> QED BY <1>5, <1>6

LEMMA TypeAsk ==
  ASSUME TypeInv, NEW c \in Clients, NEW op, NEW i \in Ids \cup {None}, NEW at \in Nat,
         op \in {"add", "remove", "enable", "disable", "clear"},
         op # "clear" => i \in minted', minted \subseteq minted', minted' \subseteq Dynamic,
         Ask(c, op, i, at)
  PROVE  TypeInv'
  <1> DEFINE r == [actor |-> c, op |-> op, id |-> i, at |-> at]
  <1>1. r \in Request /\ r.op = op /\ r.id = i
    BY DEF Request
  <1>2. lock' = Append(lock, r)
    BY DEF Ask
  <1> HIDE DEF r
  <1>3. RequestsTyped' /\ lock' \in Seq(Request)
    BY <1>1, <1>2, RequestsMore DEF TypeInv
  <1> QED BY <1>3 DEF TypeInv, TypeOK, Ask, planVars, runVars, history

LEMMA TypeClient ==
  ASSUME TypeInv, NEW c \in Clients, ClientStep(c)
  PROVE  TypeInv'
  <1>1. minted \subseteq Dynamic /\ Dynamic \subseteq Ids
    BY DEF TypeInv, TypeOK, Dynamic, Ids, Cron
  <1>2. ASSUME NEW i \in Dynamic, AskAdd(c, i)
        PROVE  TypeInv'
    <2>1. minted' = minted \cup {i}
      BY <1>2 DEF AskAdd
    <2>2. CASE i \in Once
      <3>1. PICK at \in Time : Ask(c, "add", i, at)
        BY <1>2, <2>2 DEF AskAdd
      <3>2. at \in Nat
        BY CronConstants DEF Time
      <3> QED BY <1>1, <2>1, <3>1, <3>2, TypeAsk
    <2>3. CASE i \notin Once
      <3>1. Ask(c, "add", i, NextFire(i, now))
        BY <1>2, <2>3 DEF AskAdd
      <3>2. NextFire(i, now) \in Nat
        BY <2>3, NowTyped, NextFireTyped DEF TypeInv, Dynamic, Cron
      <3> QED BY <1>1, <2>1, <3>1, <3>2, TypeAsk
    <2> QED BY <2>2, <2>3
  <1>3. ASSUME NEW i \in Dynamic, AskRemove(c, i)
        PROVE  TypeInv'
    BY <1>1, <1>3, TypeAsk DEF AskRemove
  <1>4. ASSUME NEW i \in Dynamic, NEW on \in BOOLEAN, AskEnable(c, i, on)
        PROVE  TypeInv'
    BY <1>1, <1>4, TypeAsk DEF AskEnable
  <1>5. CASE AskClear(c)
    BY <1>1, <1>5, TypeAsk DEF AskClear
  <1>6. ASSUME NEW i \in Static, NEW on \in BOOLEAN, EnableStatic(c, i, on)
        PROVE  TypeInv'
    <2>1. \A m \in Item : [m EXCEPT !.enabled = on] \in Item
      BY DEF Item
    <2>2. items \in [DOMAIN items -> Item]
          /\ items' = [items EXCEPT ![i] = [items[i] EXCEPT !.enabled = on]]
      BY <1>6 DEF EnableStatic, TypeInv, TypeOK
    <2>3. items' \in [DOMAIN items -> Item]
      BY <2>1, <2>2
    <2> QED BY <1>6, <2>3, RequestsKept DEF EnableStatic, TypeInv, TypeOK, fileVars, runVars, history
  <1>7. ASSUME NEW i \in Ids, FireNow(c, i)
        PROVE  TypeInv'
    <2>1. queue' \in Seq(Ids) /\ Len(queue') <= QUEUE_CAPACITY
      BY <1>7, CronConstants DEF FireNow, TypeInv, TypeOK
    <2> QED BY <1>7, <2>1, RequestsKept DEF FireNow, TypeInv, TypeOK, planVars, fileVars, history
  <1> QED BY <1>2, <1>3, <1>4, <1>5, <1>6, <1>7 DEF ClientStep

LEMMA ItemsFewer ==
  ASSUME TypeOK, NEW G, items' = Without(items, G)
  PROVE  /\ items' \in [DOMAIN items' -> Item] /\ DOMAIN items' = DOMAIN items \ G
         /\ \A j \in DOMAIN items' : j \in DOMAIN items /\ items'[j] = items[j]
  <1>1. items \in [DOMAIN items -> Item]
    BY DEF TypeOK
  <1>2. /\ Without(items, G) \in [DOMAIN Without(items, G) -> Item]
        /\ DOMAIN Without(items, G) = DOMAIN items \ G
        /\ \A j \in DOMAIN items \ G : Without(items, G)[j] = items[j]
    BY <1>1, WithoutFacts
  <1> QED BY <1>2

LEMMA UninstallFacts ==
  ASSUME TypeOK, NEW G, Uninstall(G), UNCHANGED pc
  PROVE  /\ items' \in [DOMAIN items' -> Item] /\ DOMAIN items' = DOMAIN items \ G
         /\ \A j \in DOMAIN items' : items'[j] = items[j]
         /\ target' \in Target \cup {None} /\ (pc' \in {"sleep", "due"} => target' # None)
  <1>1. items' = Without(items, G)
    BY DEF Uninstall
  <1>2. /\ target' \in Target \cup {None}
        /\ target # None <=> target' # None
    BY KeepFacts DEF Uninstall
  <1>3. pc' \in {"sleep", "due"} => target' # None
    BY <1>2 DEF TypeOK
  <1> QED BY <1>1, <1>2, <1>3, ItemsFewer

LEMMA TypeLocked ==
  ASSUME TypeInv, Locked
  PROVE  TypeInv'
  <1>1. store \in [DOMAIN store -> Record] /\ items \in [DOMAIN items -> Item]
    BY DEF TypeInv, TypeOK
  <1>2. ASSUME NEW op, Unlock(op), UNCHANGED minted
        PROVE  /\ RequestsTyped' /\ lock' \in Seq(Request) /\ Asked \in Request
               /\ op \in {"add", "remove", "enable", "disable"} => Asked.id \in minted
               /\ op = "consume" => Asked.id \in Once
    BY <1>2, RequestsFewer DEF TypeInv
  <1>3. Asked \in Request => Asked.at \in Nat
    BY DEF Request
  <1>a. minted \subseteq Ids
    BY DEF TypeInv, TypeOK, Dynamic, Ids, Cron
  <1>4. CASE Add
    <2> DEFINE i == Asked.id
               r == [enabled |-> TRUE, at |-> Asked.at]
               m == Planned(Asked.at)
    <2>1. Unlock("add") /\ UNCHANGED minted
      BY <1>4 DEF Add
    <2>2. RequestsTyped' /\ lock' \in Seq(Request) /\ i \in minted /\ Asked.at \in Nat
      BY <1>2, <1>3, <2>1
    <2>3. r \in Record /\ m \in Item
      BY <2>2 DEF Record, Planned, Item
    <2>4. store' = With(store, i, r) /\ items' = With(items, i, m)
      BY <1>4 DEF Add
    <2>5. store' \in [DOMAIN store' -> Record] /\ DOMAIN store' = DOMAIN store \cup {i}
      <3> HIDE DEF i, r
      <3> QED BY <1>1, <2>3, <2>4, StoreMore
    <2>6. items' \in [DOMAIN items' -> Item] /\ DOMAIN items' = DOMAIN items \cup {i}
      <3> HIDE DEF i, m
      <3> QED BY <1>1, <2>3, <2>4, ItemsMore
    <2> QED BY <1>4, <1>a, <2>2, <2>5, <2>6 DEF Add, TypeInv, TypeOK, runVars, history
  <1>5. ASSUME NEW op, NEW G, Unlock(op), Uninstall(G),
               store' \in [DOMAIN store' -> Record], DOMAIN store' \subseteq DOMAIN store,
               wake' \in BOOLEAN,
               UNCHANGED <<now, crashes, trigger_state, pc, todo, minted, runVars, history>>
        PROVE  TypeInv'
    <2>1. RequestsTyped' /\ lock' \in Seq(Request)
      BY <1>2, <1>5
    <2>2. /\ items' \in [DOMAIN items' -> Item] /\ DOMAIN items' = DOMAIN items \ G
          /\ target' \in Target \cup {None} /\ (pc' \in {"sleep", "due"} => target' # None)
      BY <1>5, UninstallFacts DEF TypeInv
    <2> QED BY <1>5, <2>1, <2>2 DEF TypeInv, TypeOK, runVars, history
  <1>6. CASE Remove
    <2>1. store' = Without(store, {Asked.id})
      BY <1>6 DEF Remove
    <2>2. store' \in [DOMAIN store' -> Record] /\ DOMAIN store' \subseteq DOMAIN store
      BY <1>1, <2>1, WithoutFacts
    <2> QED BY <1>5, <1>6, <2>2 DEF Remove, TypeInv, TypeOK
  <1>7. CASE NoSuchTrigger
    <2>1. Unlock(Asked.op) /\ UNCHANGED minted
      BY <1>7 DEF NoSuchTrigger
    <2>2. RequestsTyped' /\ lock' \in Seq(Request)
      BY <1>2, <2>1
    <2> QED BY <1>7, <2>2 DEF NoSuchTrigger, TypeInv, TypeOK, planVars, runVars, history
  <1>8. CASE Enable
    <2> DEFINE i == Asked.id
               v == Planned(IF i \in Once THEN store[i].at ELSE NextFire(i, now))
    <2>1. Unlock("enable") /\ UNCHANGED minted /\ i \in DOMAIN store
      BY <1>8 DEF Enable
    <2>2. RequestsTyped' /\ lock' \in Seq(Request) /\ i \in minted
      BY <1>2, <2>1
    <2>3. store[i] \in Record /\ [store[i] EXCEPT !.enabled = TRUE] \in Record
      BY <1>1, <2>1 DEF Record
    <2>4. store' \in [DOMAIN store -> Record]
      <3>1. store' = [store EXCEPT ![i] = [store[i] EXCEPT !.enabled = TRUE]]
        BY <1>8 DEF Enable
      <3> HIDE DEF i
      <3> QED BY <1>1, <2>3, <3>1
    <2>5. v \in Item
      <3>1. CASE i \in Once
        <4>1. store[i].at \in Nat
          BY <2>3 DEF Record
        <4> QED BY <3>1, <4>1 DEF Planned, Item
      <3>2. CASE i \notin Once
        <4>1. NextFire(i, now) \in Nat
          BY <1>a, <2>2, <3>2, NowTyped, NextFireTyped DEF TypeInv, Ids
        <4> QED BY <3>2, <4>1 DEF Planned, Item
      <3> QED BY <3>1, <3>2
    <2>6. items' \in [DOMAIN items' -> Item] /\ DOMAIN items' \subseteq DOMAIN items \cup {i}
      <3>1. CASE i \in DOMAIN items
        <4>1. items[i] \in Item /\ [items[i] EXCEPT !.enabled = TRUE] \in Item
          BY <1>1, <3>1 DEF Item
        <4>2. items' = [items EXCEPT ![i] = [items[i] EXCEPT !.enabled = TRUE]]
          BY <1>8, <3>1 DEF Enable
        <4> HIDE DEF i
        <4> QED BY <1>1, <4>1, <4>2
      <3>2. CASE i \notin DOMAIN items
        <4>1. items' = With(items, i, v)
          BY <1>8, <3>2 DEF Enable
        <4> HIDE DEF i, v
        <4> QED BY <1>1, <2>5, <4>1, ItemsMore
      <3> QED BY <3>1, <3>2
    <2>7. torn' \in [Once -> Nat]
      <3>1. torn \in [Once -> Nat] /\ [torn EXCEPT ![i] = @ + 1] \in [Once -> Nat]
        <4>1. torn \in [Once -> Nat] /\ \A n \in Nat : n + 1 \in Nat
          BY DEF TypeInv, TypeOK
        <4> HIDE DEF i
        <4> QED BY <4>1
      <3>2. torn' = [torn EXCEPT ![i] = @ + 1] \/ torn' = torn
        BY <1>8 DEF Enable
      <3> QED BY <3>1, <3>2
    <2> QED BY <1>8, <1>a, <2>2, <2>4, <2>6, <2>7 DEF Enable, TypeInv, TypeOK, runVars
  <1>9. CASE Disable
    <2>1. Asked.id \in DOMAIN store
          /\ store' = [store EXCEPT ![Asked.id] = [store[Asked.id] EXCEPT !.enabled = FALSE]]
      BY <1>9 DEF Disable
    <2>2. \A r \in Record : [r EXCEPT !.enabled = FALSE] \in Record
      BY DEF Record
    <2>3. store' \in [DOMAIN store -> Record]
      BY <1>1, <2>1, <2>2
    <2> QED BY <1>5, <1>9, <2>3 DEF Disable
  <1>10. CASE Clear
    <2>1. store' \in [DOMAIN store' -> Record] /\ DOMAIN store' = {}
      BY <1>10 DEF Clear
    <2> QED BY <1>5, <1>10, <2>1 DEF Clear, TypeInv, TypeOK
  <1>11. CASE Consume
    <2>1. Unlock("consume") /\ UNCHANGED minted /\ store' = Without(store, {Asked.id})
      BY <1>11 DEF Consume
    <2>2. RequestsTyped' /\ lock' \in Seq(Request)
      BY <1>2, <2>1
    <2>3. store' \in [DOMAIN store' -> Record] /\ DOMAIN store' \subseteq DOMAIN store
      BY <1>1, <2>1, WithoutFacts
    <2> QED BY <1>11, <2>2, <2>3 DEF Consume, TypeInv, TypeOK, runVars, history
  <1> QED BY <1>4, <1>6, <1>7, <1>8, <1>9, <1>10, <1>11 DEF Locked

LEMMA TypeCrash ==
  ASSUME TypeInv, Crash
  PROVE  TypeInv'
  <1>1. crashes' \in 0..MaxCrashes
    BY CronConstants DEF Crash, TypeInv, TypeOK
  <1>2. torn' \in [Once -> Nat]
    BY DEF Crash, TypeInv, TypeOK
  <1> QED BY <1>1, <1>2, TypeDie DEF Crash

LEMMA TypeStep == TypeInv /\ [Next]_vars => TypeInv'
  <1> SUFFICES ASSUME TypeInv, [Next]_vars PROVE TypeInv'
    OBVIOUS
  <1>1. CASE UNCHANGED vars
    BY <1>1, RequestsKept DEF TypeInv, TypeOK, vars, planVars, fileVars, runVars, history
  <1>2. CASE Next
    BY <1>2, TypeBoot, TypeSmall, TypeSleep, TypeRuns, TypeRun, TypeCatchUp, TypeClient, TypeLocked, TypeCrash
    DEF Next, Run
  <1> QED BY <1>1, <1>2

(* Every state has its type: in particular the loop has a target whenever  *)
(* it sleeps or its timer has gone off, the queue of the worker keeps to   *)
(* its capacity and a record in the file has an id that was handed out.    *)
THEOREM TypeCorrect == Spec => []TypeOK
  <1>1. Spec => []TypeInv
    BY TypeInit, TypeStep, PTL DEF Spec
  <1>2. TypeInv => TypeOK
    BY DEF TypeInv
  <1> QED BY <1>1, <1>2, PTL

-----------------------------------------------------------------------------
(* Backoff: no step but a failure raises a count of fires to skip *)

LEMMA OwedKept ==
  ASSUME TypeOK, TypeOK', SkipsAreOwed,
         \A j \in DOMAIN items' :
            items'[j].skip = 0 \/ (j \in DOMAIN items /\ items'[j].skip <= items[j].skip),
         \A j \in Ids : trigger_state'[j].failures = trigger_state[j].failures
  PROVE  SkipsAreOwed'
  <1> SUFFICES ASSUME NEW j \in DOMAIN items', items'[j].skip > 0
               PROVE  items'[j].skip + 2 <= trigger_state'[j].failures
    BY DEF SkipsAreOwed
  <1>1. j \in Ids /\ items'[j] \in Item
    BY DEF TypeOK
  <1>2. items'[j].skip \in Nat /\ items'[j].skip # 0
    BY <1>1 DEF Item
  <1>3. j \in DOMAIN items /\ items'[j].skip <= items[j].skip
    BY <1>2
  <1>4. items[j].skip \in Nat
    BY <1>3 DEF TypeOK, Item
  <1>5. trigger_state[j].failures \in Nat
    BY <1>1, CronConstants DEF TypeOK
  <1>6. items[j].skip > 0
    BY <1>2, <1>3, <1>4
  <1>7. items[j].skip + 2 <= trigger_state[j].failures
    BY <1>3, <1>6 DEF SkipsAreOwed
  <1> QED BY <1>1, <1>2, <1>3, <1>4, <1>5, <1>7

LEMMA OwedInit == Init => SkipsAreOwed
  BY DEF Init, SkipsAreOwed

LEMMA OwedHandle ==
  ASSUME TypeInv, TypeOK', SkipsAreOwed, NEW i \in Ids, NEW due, NEW skip, NEW stale \in BOOLEAN,
         ~ stale /\ i \in DOMAIN items => skip = items[i].skip,
         Handle(i, due, skip, stale)
  PROVE  SkipsAreOwed'
  <1>1. \A j \in DOMAIN items : items[j] \in Item /\ items[j].skip \in Nat
    BY DEF TypeInv, TypeOK, Item
  <1>2. CASE Die
    BY <1>2 DEF Die, SkipsAreOwed
  <1>3. CASE skip > 0 /\ i \in Cron /\ Advance(i, skip - 1, stale) /\ UNCHANGED trigger_state
    <2>1. ~ stale /\ i \in DOMAIN items => skip \in Nat /\ skip - 1 \in Nat
      BY <1>1, <1>3
    <2>2. /\ DOMAIN items' = DOMAIN items
          /\ \A j \in DOMAIN items : j # i => items'[j] = items[j]
          /\ i \in DOMAIN items => items'[i].skip = IF stale THEN items[i].skip ELSE skip - 1
      BY <1>3, <2>1, AdvanceFacts DEF TypeInv
    <2>3. ASSUME NEW j \in DOMAIN items'
          PROVE  j \in DOMAIN items /\ items'[j].skip <= items[j].skip
      <3>1. CASE j = i /\ ~ stale
        BY <1>1, <2>1, <2>2, <2>3, <3>1
      <3>2. CASE j # i \/ stale
        <4>1. items'[j].skip = items[j].skip
          BY <2>2, <2>3, <3>2
        <4> QED BY <1>1, <2>2, <2>3, <4>1
      <3> QED BY <3>1, <3>2
    <2> QED BY <1>3, <2>3, OwedKept DEF TypeInv
  <1>4. CASE skip = 0 /\ i \in Cron /\ Fire(i, due) /\ Advance(i, 0, stale)
    <2>1. /\ DOMAIN items' = DOMAIN items
          /\ \A j \in DOMAIN items : j # i => items'[j] = items[j]
          /\ i \in DOMAIN items => items'[i].skip = IF stale THEN items[i].skip ELSE 0
      BY <1>4, AdvanceFacts DEF TypeInv
    <2>2. \A j \in Ids : trigger_state'[j].failures = trigger_state[j].failures
      BY <1>4, FireTyped DEF TypeInv
    <2>3. \A j \in DOMAIN items' : items'[j].skip = 0 \/ items'[j].skip = items[j].skip
      BY <2>1
    <2>4. \A j \in DOMAIN items' : items'[j].skip = 0 \/ (j \in DOMAIN items /\ items'[j].skip <= items[j].skip)
      BY <1>1, <2>1, <2>3
    <2> QED BY <2>2, <2>4, OwedKept DEF TypeInv
  <1>5. CASE i \in Once /\ Fire(i, due) /\ StartConsume(i)
    <2>1. \A j \in Ids : trigger_state'[j].failures = trigger_state[j].failures
      BY <1>5, FireTyped DEF TypeInv
    <2>2. DOMAIN items' = DOMAIN items \ {i} /\ \A j \in DOMAIN items' : items'[j] = items[j]
      BY <1>5, ItemsFewer DEF StartConsume, TypeInv
    <2>3. \A j \in DOMAIN items' : j \in DOMAIN items /\ items'[j].skip <= items[j].skip
      BY <1>1, <2>2
    <2> QED BY <2>1, <2>3, OwedKept DEF TypeInv
  <1> QED BY <1>2, <1>3, <1>4, <1>5 DEF Handle

LEMMA OwedStep == TypeInv /\ SkipsAreOwed /\ [Next]_vars => SkipsAreOwed'
  <1> SUFFICES ASSUME TypeInv, SkipsAreOwed, [Next]_vars PROVE SkipsAreOwed'
    OBVIOUS
  <1>0. TypeInv' /\ TypeOK'
    BY TypeStep DEF TypeInv
  <1>a. \A j \in DOMAIN items : items[j] \in Item /\ items[j].skip \in Nat
    BY DEF TypeInv, TypeOK, Item
  <1>b. CASE UNCHANGED <<items, trigger_state>>
    BY <1>b DEF SkipsAreOwed
  \* Items may go, and those that are new or set anew have nothing to skip.
  <1>c. ASSUME \A j \in Ids : trigger_state'[j].failures = trigger_state[j].failures,
               \A j \in DOMAIN items' : \/ items'[j].skip = 0
                                        \/ j \in DOMAIN items /\ items'[j].skip = items[j].skip
        PROVE  SkipsAreOwed'
    <2>1. \A j \in DOMAIN items' : items'[j].skip = 0 \/ (j \in DOMAIN items /\ items'[j].skip <= items[j].skip)
      BY <1>a, <1>c
    <2> QED BY <1>0, <1>c, <2>1, OwedKept DEF TypeInv
  <1>d. ASSUME NEW G, items' = Without(items, G), UNCHANGED trigger_state
        PROVE  SkipsAreOwed'
    <2>1. \A j \in DOMAIN items' : j \in DOMAIN items /\ items'[j] = items[j]
      BY <1>d, ItemsFewer DEF TypeInv
    <2> QED BY <1>c, <1>d, <2>1
  <1>1. CASE Boot
    <2>1. \A j \in DOMAIN items' : items'[j].skip = 0
      BY <1>1 DEF Boot, Planned
    <2>2. UNCHANGED trigger_state
      BY <1>1 DEF Boot
    <2> QED BY <1>c, <2>1, <2>2
  <1>2. ASSUME NEW i \in Ids, CatchUp(i)
        PROVE  SkipsAreOwed'
    <2>1. (\E due : Fire(i, due)) \/ Skip
      BY <1>2 DEF CatchUp, CatchUpOnce, CatchUpCron
    <2>2. \A j \in Ids : trigger_state'[j].failures = trigger_state[j].failures
      BY <2>1, FireTyped DEF TypeInv, Skip
    <2>3. items' = items \/ items' = Without(items, {i})
      BY <1>2 DEF CatchUp, CatchUpOnce, CatchUpCron, StartConsume
    <2>4. \A j \in DOMAIN items' : j \in DOMAIN items /\ items'[j] = items[j]
      BY <2>3, ItemsFewer DEF TypeInv
    <2> QED BY <1>c, <2>2, <2>4
  <1>3. CASE Overdue
    <2>1. PICK i \in Soonest : Handle(i, items[i].at, items[i].skip, FALSE)
      BY <1>3 DEF Overdue
    <2>2. i \in Ids
      BY DEF Soonest, TypeInv, TypeOK
    <2> QED BY <1>0, <2>1, <2>2, OwedHandle
  <1>4. CASE HandleTarget
    <2> DEFINE skip == IF target.stale THEN target.skip ELSE items[target.id].skip
    <2>1. target.id \in Ids /\ target.stale \in BOOLEAN
      BY <1>4 DEF HandleTarget, TypeInv, TypeOK, Target
    <2>2. Handle(target.id, target.at, skip, target.stale)
      BY <1>4 DEF HandleTarget
    <2> QED BY <1>0, <2>1, <2>2, OwedHandle
  <1>5. ASSUME NEW c \in Clients, ClientStep(c)
        PROVE  SkipsAreOwed'
    <2>1. CASE UNCHANGED <<items, trigger_state>>
      BY <1>b, <2>1
    <2>2. ASSUME NEW i \in Static, NEW on \in BOOLEAN, EnableStatic(c, i, on)
          PROVE  SkipsAreOwed'
      <3>1. items' = [items EXCEPT ![i] = [items[i] EXCEPT !.enabled = on]] /\ UNCHANGED trigger_state
        BY <2>2 DEF EnableStatic
      <3>2. \A m \in Item : [m EXCEPT !.enabled = on].skip = m.skip
        BY DEF Item
      <3>3. \A j \in DOMAIN items' : j \in DOMAIN items /\ items'[j].skip = items[j].skip
        BY <1>a, <3>1, <3>2
      <3> QED BY <1>c, <3>1, <3>3
    <2> QED BY <1>5, <2>1, <2>2 DEF ClientStep, AskAdd, AskRemove, AskEnable, AskClear, Ask, FireNow, planVars
  <1>6. CASE Locked
    <2>1. CASE Add
      <3>1. /\ items' = With(items, Asked.id, Planned(Asked.at)) /\ UNCHANGED trigger_state
        BY <2>1 DEF Add
      <3>2. \A j \in DOMAIN items' : items'[j].skip = 0 \/ (j \in DOMAIN items /\ items'[j] = items[j])
        BY <3>1 DEF With, Planned
      <3> QED BY <1>c, <3>1, <3>2
    <2>2. CASE Remove \/ Disable \/ Clear
      BY <1>d, <2>2 DEF Remove, Disable, Clear, Uninstall
    <2>3. CASE Enable
      <3> DEFINE i == Asked.id
      <3>1. UNCHANGED trigger_state
        BY <2>3 DEF Enable
      <3>2. CASE i \in DOMAIN items
        <4>1. items' = [items EXCEPT ![i] = [items[i] EXCEPT !.enabled = TRUE]]
          BY <2>3, <3>2 DEF Enable
        <4>2. \A m \in Item : [m EXCEPT !.enabled = TRUE].skip = m.skip
          BY DEF Item
        <4> HIDE DEF i
        <4>3. \A j \in DOMAIN items' : j \in DOMAIN items /\ items'[j].skip = items[j].skip
          BY <1>a, <4>1, <4>2
        <4> QED BY <1>c, <3>1, <4>3
      <3>3. CASE i \notin DOMAIN items
        <4>1. \E at : items' = With(items, i, Planned(at))
          BY <2>3, <3>3 DEF Enable
        <4>2. \A j \in DOMAIN items' : items'[j].skip = 0 \/ (j \in DOMAIN items /\ items'[j] = items[j])
          BY <4>1 DEF With, Planned
        <4> QED BY <1>c, <3>1, <4>2
      <3> QED BY <3>2, <3>3
    <2>4. CASE NoSuchTrigger \/ Consume
      BY <1>b, <2>4 DEF NoSuchTrigger, Consume, planVars
    <2> QED BY <1>6, <2>1, <2>2, <2>3, <2>4 DEF Locked
  <1>7. CASE Succeeded
    <2>1. \A j \in DOMAIN items' : j \in DOMAIN items
      BY <1>7 DEF Succeeded
    <2>2. \A j \in DOMAIN items \ {running} : items'[j] = items[j] /\ trigger_state'[j] = trigger_state[j]
      BY <1>7 DEF Succeeded, TypeInv, TypeOK
    <2>3. running \in DOMAIN items => items'[running].skip = 0
      BY <1>7, <1>a DEF Succeeded, Item
    <2> QED BY <2>1, <2>2, <2>3 DEF SkipsAreOwed
  <1>8. CASE Failed
    <2> DEFINE n == trigger_state[running].failures + 1
    <2>1. running \in DOMAIN items /\ running \in Ids
          /\ trigger_state' = [trigger_state EXCEPT ![running] = [trigger_state[running] EXCEPT !.failures = n]]
          /\ items' = IF n >= 3 THEN [items EXCEPT ![running] = [items[running] EXCEPT !.skip = n - 2]]
                      ELSE items
      BY <1>8 DEF Failed, TypeInv, TypeOK
    <2>2. trigger_state[running].failures \in Nat /\ n \in Nat
      BY <2>1, CronConstants DEF TypeInv, TypeOK
    <2>3. trigger_state'[running].failures = n
      BY <2>1 DEF TypeInv, TypeOK
    <2>4. n >= 3 => items'[running].skip = n - 2
      BY <1>a, <2>1 DEF Item
    <2>5. n < 3 => items' = items
      BY <2>1, <2>2
    <2> HIDE DEF n
    <2>6. ASSUME NEW j \in DOMAIN items', j # running
          PROVE  j \in DOMAIN items /\ items'[j] = items[j] /\ trigger_state'[j] = trigger_state[j]
      BY <2>1, <2>6 DEF TypeInv, TypeOK
    <2>7. items'[running].skip > 0 => items'[running].skip + 2 <= trigger_state'[running].failures
      <3>1. CASE n >= 3
        BY <2>2, <2>3, <2>4, <3>1
      <3>2. CASE n < 3
        <4>1. items[running].skip > 0 => items[running].skip + 2 <= trigger_state[running].failures
          BY <2>1 DEF SkipsAreOwed
        <4> QED BY <1>a, <2>1, <2>2, <2>3, <2>5, <3>2, <4>1 DEF n
      <3> QED BY <2>2, <3>1, <3>2
    <2> QED BY <2>6, <2>7 DEF SkipsAreOwed
  <1>9. CASE Crash
    BY <1>9 DEF Crash, Die, SkipsAreOwed
  <1>10. CASE \/ Serve \/ Idle \/ Sleep \/ WakeUp \/ TimerFires \/ Take \/ Unplanned \/ Tick
              \/ UNCHANGED vars
    BY <1>10, <1>b DEF Serve, Idle, Sleep, WakeUp, TimerFires, Take, Unplanned, Tick, planVars, vars
  <1> QED BY <1>1, <1>2, <1>3, <1>4, <1>5, <1>6, <1>7, <1>8, <1>9, <1>10 DEF Next, Run

(* A trigger is skipped only for failures that it still has, whatever      *)
(* requests, restarts and fires come between a failure and a skip.         *)
THEOREM NoUnearnedSkip == Spec => []SkipsAreOwed
  <1>1. Init => TypeInv /\ SkipsAreOwed
    BY TypeInit, OwedInit
  <1>2. TypeInv /\ SkipsAreOwed /\ [Next]_vars => (TypeInv /\ SkipsAreOwed)'
    BY TypeStep, OwedStep
  <1> QED BY <1>1, <1>2, PTL DEF Spec

-----------------------------------------------------------------------------
(* The cap: an add that waits for the lock was admitted below it, and a    *)
(* client waits for one at a time                                          *)

Adders == {c \in Clients : \E k \in DOMAIN lock : lock[k].actor = c /\ lock[k].op = "add"}

OneEach ==
    \A k \in DOMAIN lock : lock[k].op = "add" =>
        /\ lock[k].actor \in Clients
        /\ \A l \in DOMAIN lock : lock[l].actor = lock[k].actor => k = l

CapInv ==
    /\ OneEach
    /\ IsFiniteSet(DOMAIN store)
    /\ Cardinality(DOMAIN store) + Cardinality(Adders) < MAX_DYNAMIC_TRIGGERS + Cardinality(Clients)

LEMMA AddersFacts ==
  /\ IsFiniteSet(Clients) /\ Cardinality(Clients) \in Nat
  /\ IsFiniteSet(Adders) /\ Cardinality(Adders) \in Nat /\ Cardinality(Adders) <= Cardinality(Clients)
  <1>1. IsFiniteSet(Clients)
    BY CronConstants
  <1>2. Adders \in SUBSET Clients
    BY DEF Adders
  <1>3. IsFiniteSet(Adders) /\ Cardinality(Adders) <= Cardinality(Clients)
    BY <1>1, <1>2, FS_Subset
  <1> QED BY <1>1, <1>3, FS_CardinalityType

LEMMA CapInit == Init => CapInv
  <1> SUFFICES ASSUME Init PROVE CapInv
    OBVIOUS
  <1>1. DOMAIN store = {} /\ DOMAIN lock = {}
    BY DEF Init
  <1>2. Adders = {} /\ OneEach
    BY <1>1 DEF Adders, OneEach
  <1>3. IsFiniteSet(DOMAIN store) /\ Cardinality(DOMAIN store) = 0 /\ Cardinality(Adders) = 0
    BY <1>1, <1>2, FS_EmptySet
  <1>4. MAX_DYNAMIC_TRIGGERS \in Nat \ {0} /\ Cardinality(Clients) \in Nat
    BY CronConstants, AddersFacts
  <1> QED BY <1>2, <1>3, <1>4 DEF CapInv

\* No record is added and nobody asks to add one.
LEMMA CapLess ==
  ASSUME CapInv, OneEach', DOMAIN store' \subseteq DOMAIN store, Adders' \subseteq Adders
  PROVE  CapInv'
  <1>1. IsFiniteSet(DOMAIN store') /\ Cardinality(DOMAIN store') <= Cardinality(DOMAIN store)
    BY FS_Subset DEF CapInv
  <1>2. Cardinality(DOMAIN store) \in Nat /\ Cardinality(DOMAIN store') \in Nat
    BY <1>1, FS_CardinalityType DEF CapInv
  <1>3. Cardinality(Adders) \in Nat /\ Cardinality(Adders') \in Nat
        /\ Cardinality(Adders') <= Cardinality(Adders)
    <2>1. IsFiniteSet(Adders)
      BY AddersFacts
    <2>2. IsFiniteSet(Adders') /\ Cardinality(Adders') <= Cardinality(Adders)
      BY <2>1, FS_Subset
    <2> QED BY <2>1, <2>2, FS_CardinalityType
  <1>4. MAX_DYNAMIC_TRIGGERS \in Nat /\ Cardinality(Clients) \in Nat
    BY CronConstants, AddersFacts
  <1> QED BY <1>1, <1>2, <1>3, <1>4 DEF CapInv

LEMMA CapShrinks ==
  ASSUME TypeInv, OneEach, NEW op, Unlock(op)
  PROVE  /\ OneEach' /\ Adders' \subseteq Adders
         /\ op = "add" => Asked.actor \in Adders /\ Asked.actor \notin Adders'
  <1>1. lock \in Seq(Request) /\ lock # <<>> /\ lock' = Tail(lock) /\ Asked.op = op
    BY DEF TypeInv, TypeOK, Unlock
  <1>2. \A k \in DOMAIN lock' : k \in Nat /\ k + 1 \in DOMAIN lock /\ lock'[k] = lock[k + 1] /\ k + 1 # 1
    BY <1>1, LockTail
  <1>3. 1 \in DOMAIN lock /\ Asked = lock[1]
    BY <1>1, LockTail DEF Asked
  <1>4. OneEach'
    <2> SUFFICES ASSUME NEW k \in DOMAIN lock', lock'[k].op = "add"
                 PROVE  /\ lock'[k].actor \in Clients
                        /\ \A l \in DOMAIN lock' : lock'[l].actor = lock'[k].actor => k = l
      BY DEF OneEach
    <2>1. k + 1 \in DOMAIN lock /\ lock[k + 1].op = "add" /\ lock'[k] = lock[k + 1]
      BY <1>2
    <2>2. ASSUME NEW l \in DOMAIN lock', lock'[l].actor = lock'[k].actor
          PROVE  k = l
      <3>1. k + 1 = l + 1
        BY <1>2, <2>1, <2>2 DEF OneEach
      <3> QED BY <1>2, <3>1
    <2> QED BY <2>1, <2>2 DEF OneEach
  <1>5. Adders' \subseteq Adders
    BY <1>2 DEF Adders
  <1>6. ASSUME op = "add"
        PROVE  Asked.actor \in Adders /\ Asked.actor \notin Adders'
    <2>1. Asked.actor \in Clients
      BY <1>1, <1>3, <1>6 DEF OneEach
    <2>2. \A k \in DOMAIN lock' : lock'[k].actor # Asked.actor
      BY <1>1, <1>2, <1>3, <1>6 DEF OneEach
    <2> QED BY <1>1, <1>3, <1>6, <2>1, <2>2 DEF Adders
  <1> QED BY <1>4, <1>5, <1>6

\* The actor of a new request waits for no other.
LEMMA CapGrows ==
  ASSUME TypeInv, OneEach, NEW r \in Request, lock' = Append(lock, r),
         r.op = "add" => r.actor \in Clients,
         \A k \in DOMAIN lock : lock[k].op = "add" => lock[k].actor # r.actor,
         r.op = "add" => \A k \in DOMAIN lock : lock[k].actor # r.actor
  PROVE  OneEach' /\ (r.op # "add" => Adders' \subseteq Adders)
  <1>1. lock \in Seq(Request)
    BY DEF TypeInv, TypeOK
  <1>2. \A k \in DOMAIN lock' : (k \in DOMAIN lock /\ lock'[k] = lock[k]) \/ lock'[k] = r
    BY <1>1, LockAppend
  <1>3. \A k \in DOMAIN lock' : k \notin DOMAIN lock => k = Len(lock) + 1
    BY <1>1, LockAppend
  <1>4. OneEach'
    BY <1>2, <1>3 DEF OneEach
  <1>5. r.op # "add" => Adders' \subseteq Adders
    BY <1>2 DEF Adders
  <1> QED BY <1>4, <1>5

LEMMA CapAsk ==
  ASSUME TypeInv, CapInv, NEW c \in Clients, NEW op, NEW i \in Ids \cup {None}, NEW at \in Nat,
         op \in {"add", "remove", "enable", "disable", "clear"}, Ask(c, op, i, at),
         op = "add" => Cardinality(DOMAIN store) < MAX_DYNAMIC_TRIGGERS
  PROVE  CapInv'
  <1> DEFINE r == [actor |-> c, op |-> op, id |-> i, at |-> at]
  <1>1. r \in Request /\ r.op = op /\ r.actor = c /\ lock' = Append(lock, r)
    BY DEF Ask, Request
  <1> HIDE DEF r
  <1>2. UNCHANGED store /\ \A k \in DOMAIN lock : lock[k].actor # c
    BY DEF Ask, Free
  <1>3. OneEach' /\ (op # "add" => Adders' \subseteq Adders)
    BY <1>1, <1>2, CapGrows DEF CapInv
  <1>4. CASE op # "add"
    BY <1>2, <1>3, <1>4, CapLess
  <1>5. CASE op = "add"
    <2>1. Cardinality(Adders') <= Cardinality(Clients) /\ Cardinality(Adders') \in Nat
          /\ Cardinality(Clients) \in Nat
      <3>1. IsFiniteSet(Clients) /\ Adders' \in SUBSET Clients
        BY CronConstants DEF Adders
      <3>2. IsFiniteSet(Adders') /\ Cardinality(Adders') <= Cardinality(Clients)
        BY <3>1, FS_Subset
      <3> QED BY <3>1, <3>2, FS_CardinalityType
    <2>2. Cardinality(DOMAIN store) \in Nat /\ MAX_DYNAMIC_TRIGGERS \in Nat
      BY CronConstants, FS_CardinalityType DEF CapInv
    <2>3. Cardinality(DOMAIN store) + Cardinality(Adders') < MAX_DYNAMIC_TRIGGERS + Cardinality(Clients)
      BY <1>5, <2>1, <2>2
    <2> QED BY <1>2, <1>3, <2>3 DEF CapInv
  <1> QED BY <1>4, <1>5

LEMMA CapAdd ==
  ASSUME TypeInv, CapInv, Add
  PROVE  CapInv'
  <1> DEFINE i == Asked.id
             c == Asked.actor
  <1>1. Unlock("add") /\ DOMAIN store' = DOMAIN store \cup {i}
    BY DEF Add, With
  <1>2. OneEach' /\ Adders' \subseteq Adders /\ c \in Adders /\ c \notin Adders'
    BY <1>1, CapShrinks DEF CapInv
  <1> HIDE DEF i, c
  <1>3. /\ IsFiniteSet(DOMAIN store') /\ Cardinality(DOMAIN store') <= Cardinality(DOMAIN store) + 1
        /\ Cardinality(DOMAIN store) \in Nat /\ Cardinality(DOMAIN store') \in Nat
    <2>1. IsFiniteSet(DOMAIN store) /\ Cardinality(DOMAIN store) \in Nat
      BY FS_CardinalityType DEF CapInv
    <2>2. /\ IsFiniteSet(DOMAIN store \cup {i})
          /\ Cardinality(DOMAIN store \cup {i}) =
               IF i \in DOMAIN store THEN Cardinality(DOMAIN store) ELSE Cardinality(DOMAIN store) + 1
      BY <2>1, FS_AddElement
    <2> QED BY <1>1, <2>1, <2>2
  <1>4. Cardinality(Adders') <= Cardinality(Adders) - 1 /\ Cardinality(Adders') \in Nat
        /\ Cardinality(Adders) \in Nat
    <2>1. IsFiniteSet(Adders) /\ Cardinality(Adders) \in Nat
      BY AddersFacts
    <2>2. IsFiniteSet(Adders \ {c}) /\ Cardinality(Adders \ {c}) = Cardinality(Adders) - 1
      BY <1>2, <2>1, FS_RemoveElement
    <2>3. Adders' \in SUBSET (Adders \ {c})
      BY <1>2
    <2>4. IsFiniteSet(Adders') /\ Cardinality(Adders') <= Cardinality(Adders) - 1
      BY <2>2, <2>3, FS_Subset
    <2> QED BY <2>1, <2>4, FS_CardinalityType
  <1>5. MAX_DYNAMIC_TRIGGERS \in Nat /\ Cardinality(Clients) \in Nat
    BY CronConstants, AddersFacts
  <1> QED BY <1>2, <1>3, <1>4, <1>5 DEF CapInv

LEMMA CapStartConsume ==
  ASSUME TypeInv, CapInv, NEW i \in Once, StartConsume(i), UNCHANGED store
  PROVE  CapInv'
  <1> DEFINE r == [actor |-> Loop, op |-> "consume", id |-> i, at |-> 0]
  <1>1. r \in Request /\ r.op = "consume" /\ r.actor = Loop /\ lock' = Append(lock, r)
    BY DEF StartConsume, Request, Ids
  <1> HIDE DEF r
  <1>2. \A k \in DOMAIN lock : lock[k].op = "add" => lock[k].actor # Loop
    BY CronConstants DEF CapInv, OneEach
  <1>3. OneEach' /\ Adders' \subseteq Adders
    BY <1>1, <1>2, CapGrows DEF CapInv
  <1> QED BY <1>3, CapLess

LEMMA CapStep == TypeInv /\ CapInv /\ [Next]_vars => CapInv'
  <1> SUFFICES ASSUME TypeInv, CapInv, [Next]_vars PROVE CapInv'
    OBVIOUS
  <1>a. CASE UNCHANGED <<lock, store>>
    BY <1>a, CapLess DEF OneEach, Adders, CapInv
  <1>b. CASE Die /\ UNCHANGED store
    <2>1. DOMAIN lock' = {}
      BY <1>b DEF Die
    <2>2. OneEach' /\ Adders' = {}
      BY <2>1 DEF OneEach, Adders
    <2> QED BY <1>b, <2>2, CapLess
  <1>c. ASSUME NEW i, NEW due, NEW skip, NEW stale, Handle(i, due, skip, stale), UNCHANGED store
        PROVE  CapInv'
    BY <1>a, <1>b, <1>c, CapStartConsume DEF Handle
  <1>1. CASE Boot \/ Serve \/ Idle \/ Sleep \/ WakeUp \/ TimerFires \/ Take \/ Unplanned
             \/ Succeeded \/ Failed \/ Tick \/ UNCHANGED vars
    BY <1>1, <1>a DEF Boot, Serve, Idle, Sleep, WakeUp, TimerFires, Take, Unplanned, Succeeded, Failed,
                      Tick, vars, fileVars
  <1>2. CASE Overdue \/ HandleTarget
    BY <1>2, <1>c DEF Overdue, HandleTarget
  <1>3. ASSUME NEW i \in Ids, CatchUp(i)
        PROVE  CapInv'
    BY <1>3, <1>a, CapStartConsume DEF CatchUp, CatchUpOnce, CatchUpCron
  <1>4. CASE Crash
    BY <1>4, <1>b DEF Crash
  <1>5. ASSUME NEW c \in Clients, ClientStep(c)
        PROVE  CapInv'
    <2>1. Dynamic \subseteq Ids
      BY DEF Dynamic, Ids, Cron
    <2>2. ASSUME NEW i \in Dynamic, AskAdd(c, i)
          PROVE  CapInv'
      <3>1. \E at \in Nat : Ask(c, "add", i, at)
        <4>1. CASE i \in Once
          <5>1. Time \subseteq Nat
            BY CronConstants DEF Time
          <5> QED BY <2>2, <4>1, <5>1 DEF AskAdd
        <4>2. CASE i \notin Once
          <5>1. NextFire(i, now) \in Nat
            BY <4>2, NowTyped, NextFireTyped DEF TypeInv, Dynamic, Cron
          <5> QED BY <2>2, <4>2, <5>1 DEF AskAdd
        <4> QED BY <4>1, <4>2
      <3> QED BY <2>1, <2>2, <3>1, CapAsk DEF AskAdd
    <2>3. ASSUME NEW i \in Dynamic, NEW on \in BOOLEAN, AskRemove(c, i) \/ AskEnable(c, i, on)
          PROVE  CapInv'
      BY <2>1, <2>3, CapAsk DEF AskRemove, AskEnable
    <2>4. CASE AskClear(c)
      BY <2>4, CapAsk DEF AskClear
    <2>5. ASSUME NEW i, NEW on, EnableStatic(c, i, on) \/ FireNow(c, i)
          PROVE  CapInv'
      BY <1>a, <2>5 DEF EnableStatic, FireNow, fileVars
    <2> QED BY <1>5, <2>2, <2>3, <2>4, <2>5 DEF ClientStep
  <1>6. CASE Locked
    <2>1. ASSUME NEW op, Unlock(op), DOMAIN store' \subseteq DOMAIN store
          PROVE  CapInv'
      <3>1. OneEach' /\ Adders' \subseteq Adders
        BY <2>1, CapShrinks DEF CapInv
      <3> QED BY <2>1, <3>1, CapLess
    <2>2. CASE Remove \/ Consume
      <3>1. \E op : Unlock(op) /\ store' = Without(store, {Asked.id})
        BY <2>2 DEF Remove, Consume
      <3>2. DOMAIN store' \subseteq DOMAIN store
        BY <3>1 DEF Without, Restrict
      <3> QED BY <2>1, <3>1, <3>2
    <2>3. CASE Enable \/ Disable
      BY <2>1, <2>3 DEF Enable, Disable
    <2>4. CASE Clear
      <3>1. DOMAIN store' = {}
        BY <2>4 DEF Clear
      <3> QED BY <2>1, <2>4, <3>1 DEF Clear
    <2>5. CASE NoSuchTrigger
      BY <2>1, <2>5 DEF NoSuchTrigger
    <2> QED BY <1>6, <2>2, <2>3, <2>4, <2>5, CapAdd DEF Locked
  <1> QED BY <1>1, <1>2, <1>3, <1>4, <1>5, <1>6 DEF Next, Run

(* The cap on dynamic triggers is checked before the lock is taken, so     *)
(* callers that race exceed it by less than one each: however many wait,   *)
(* and whatever is removed and restarted meanwhile.                        *)
THEOREM CapIsNearlyKept == Spec => []CapOvershoot
  <1>1. Init => TypeInv /\ CapInv
    BY TypeInit, CapInit
  <1>2. TypeInv /\ CapInv /\ [Next]_vars => (TypeInv /\ CapInv)'
    BY TypeStep, CapStep
  <1>3. CapInv => CapOvershoot
    <2> SUFFICES ASSUME CapInv PROVE CapOvershoot
      OBVIOUS
    <2>1. Cardinality(DOMAIN store) \in Nat /\ MAX_DYNAMIC_TRIGGERS \in Nat
      BY CronConstants, FS_CardinalityType DEF CapInv
    <2>2. Cardinality(Adders) \in Nat /\ Cardinality(Clients) \in Nat
      BY AddersFacts
    <2> QED BY <2>1, <2>2 DEF CapInv, CapOvershoot
  <1> QED BY <1>1, <1>2, <1>3, PTL DEF Spec

-----------------------------------------------------------------------------
(* Plan, file and clock: for any triggers, periods, clients, queue and      *)
(* number of crashes the plan in memory and the trigger file agree, the     *)
(* sleeping loop knows what is next in the plan, and no due instant is      *)
(* fired twice.                                                             *)

Adding   == {i \in Ids : \E k \in DOMAIN lock : lock[k].op = "add" /\ lock[k].id = i}
Removing == {i \in Ids : Consuming(i)}
Aimed    == IF target = None THEN {} ELSE {target.id}

\* A process that is down has nothing.
Down == pc = "down" => lock = <<>> /\ DOMAIN items = {} /\ target = None

\* Nobody knows an id whose first request still waits.
Known == DOMAIN store \cup DOMAIN items \cup todo \cup Removing \cup Aimed
Fresh == Known \cap Dynamic \subseteq minted \ Adding

\* One consumption at a time, which the loop waits for, and one add of an id.
LockTidy ==
    \A k, l \in DOMAIN lock :
        /\ lock[k].op = "consume" /\ lock[l].op = "consume" => k = l
        /\ lock[k].op = "add" /\ lock[l].op = "add" /\ lock[k].id = lock[l].id => k = l
LoopWaits == Removing # {} => pc \in {"drop", "consume"}

\* Nobody is served before catch-up is over, and it goes through the plan.
StartsAlone ==
    /\ todo \subseteq DOMAIN items
    /\ pc \in {"catchup", "drop"} => \A k \in DOMAIN lock : lock[k].op = "consume"
    /\ pc \notin {"catchup", "drop"} => todo = {}

\* What is consumed has left the plan, unless set_enabled brought it back.
Undone == \A i \in Removing \cap DOMAIN items : torn[i] > 0

\* File, plan and loop have the same instant for a one-shot; the loop consumes
\* it when that has come, and what then is in the plan alone is due.
SameInstant ==
    \A i \in Once \cap DOMAIN store :
        /\ i \in DOMAIN items => items[i].at = store[i].at
        /\ i \in Aimed => target.at = store[i].at
        /\ i \in Removing => store[i].at <= now
TimerIsPast == pc = "due" => target.at <= now
LeftoverIsDue ==
    \A i \in (Dynamic \cap DOMAIN items) \ DOMAIN store :
        i \in Once /\ items[i].at <= now /\ pc \notin {"idle", "sleep", "due"}

Agrees ==
    pc # "down" => \A i \in Dynamic :
        \/ i \in Removing
        \/ i \in Once /\ torn[i] > 0
        \/ i \in DOMAIN items <=> i \in DOMAIN store /\ store[i].enabled

IdleKnows  == ~ wake /\ pc = "idle" => DOMAIN items = {}
SleepKnows == ~ wake /\ pc = "sleep" => target.id \in Soonest /\ items[target.id].at = target.at

FileInv == Down /\ Fresh /\ LockTidy /\ LoopWaits /\ StartsAlone /\ Undone /\ Agrees
LoopInv == SameInstant /\ TimerIsPast /\ LeftoverIsDue /\ IdleKnows /\ SleepKnows
PlanInv == TypeInv /\ FileInv /\ LoopInv

-----------------------------------------------------------------------------
(* The lock *)

LEMMA DynamicFacts == Dynamic \subseteq Ids /\ Once \subseteq Dynamic /\ Cron \subseteq Ids
                     /\ Once \cap Cron = {}
  BY CronConstants DEF Dynamic, Ids, Cron

LEMMA LockSame ==
  ASSUME UNCHANGED lock
  PROVE  Adding' = Adding /\ Removing' = Removing /\ (LockTidy => LockTidy')
  BY DEF Adding, Removing, Consuming, LockTidy

LEMMA LockGrows ==
  ASSUME TypeInv, LockTidy, NEW r \in Request, lock' = Append(lock, r),
         r.op = "consume" => Removing = {},
         r.op = "add" => r.id \notin Adding /\ r.id \in Ids
  PROVE  /\ LockTidy'
         /\ Adding' = IF r.op = "add" THEN Adding \cup {r.id} ELSE Adding
         /\ Removing' \subseteq IF r.op = "consume" THEN Removing \cup {r.id} ELSE Removing
         /\ Removing \subseteq Removing'
         /\ r.op = "consume" /\ r.id \in Ids => r.id \in Removing'
  <1>1. lock \in Seq(Request)
    BY DEF TypeInv, TypeOK
  <1>2. \A k \in DOMAIN lock' : (k \in DOMAIN lock /\ lock'[k] = lock[k]) \/ lock'[k] = r
    BY <1>1, LockAppend
  <1>3. \A k \in DOMAIN lock : k \in DOMAIN lock' /\ lock'[k] = lock[k]
    BY <1>1, LockAppend
  <1>4. Len(lock) + 1 \in DOMAIN lock' /\ lock'[Len(lock) + 1] = r
    BY <1>1, LockAppend
  <1>5. \A k \in DOMAIN lock' : k \notin DOMAIN lock => k = Len(lock) + 1
    BY <1>1, LockAppend
  <1>6. \A k \in DOMAIN lock : lock[k].op = "consume" => lock[k].id \in Removing
    BY DynamicFacts DEF TypeInv, RequestsTyped, Removing, Consuming
  <1>7. \A k \in DOMAIN lock : lock[k].op = "add" => lock[k].id \in Adding
    BY DynamicFacts DEF TypeInv, TypeOK, RequestsTyped, Adding
  <1>8. LockTidy'
    BY <1>2, <1>5, <1>6, <1>7 DEF LockTidy
  <1>9. Adding' = IF r.op = "add" THEN Adding \cup {r.id} ELSE Adding
    BY <1>2, <1>3, <1>4 DEF Adding
  <1>10. Removing' \subseteq IF r.op = "consume" THEN Removing \cup {r.id} ELSE Removing
    BY <1>2 DEF Removing, Consuming
  <1>11. Removing \subseteq Removing'
    BY <1>3 DEF Removing, Consuming
  <1>12. r.op = "consume" /\ r.id \in Ids => r.id \in Removing'
    BY <1>4 DEF Removing, Consuming
  <1> QED BY <1>8, <1>9, <1>10, <1>11, <1>12

LEMMA LockShrinks ==
  ASSUME TypeInv, LockTidy, NEW op, Unlock(op)
  PROVE  /\ LockTidy'
         /\ Adding' = IF op = "add" THEN Adding \ {Asked.id} ELSE Adding
         /\ Removing' = IF op = "consume" THEN {} ELSE Removing
         /\ op = "consume" => Removing = {Asked.id} /\ Asked.id \in Once
         /\ op = "add" => Asked.id \in Adding
         /\ op \in {"add", "remove", "enable", "disable"} => Asked.id \in minted
  <1>1. lock \in Seq(Request) /\ lock # <<>> /\ lock' = Tail(lock) /\ Asked.op = op
    BY DEF TypeInv, TypeOK, Unlock
  <1>2. \A k \in DOMAIN lock' : k \in Nat /\ k + 1 \in DOMAIN lock /\ lock'[k] = lock[k + 1] /\ k + 1 # 1
    BY <1>1, LockTail
  <1>3. \A k \in DOMAIN lock : k # 1 => k - 1 \in DOMAIN lock' /\ lock'[k - 1] = lock[k]
    BY <1>1, LockTail
  <1>4. 1 \in DOMAIN lock /\ Asked = lock[1]
    BY <1>1, LockTail DEF Asked
  <1>5. LockTidy'
    <2> SUFFICES ASSUME NEW k \in DOMAIN lock', NEW l \in DOMAIN lock'
                 PROVE  /\ lock'[k].op = "consume" /\ lock'[l].op = "consume" => k = l
                        /\ lock'[k].op = "add" /\ lock'[l].op = "add" /\ lock'[k].id = lock'[l].id => k = l
      BY DEF LockTidy
    <2>1. /\ k \in Nat /\ l \in Nat /\ k + 1 \in DOMAIN lock /\ l + 1 \in DOMAIN lock
          /\ lock'[k] = lock[k + 1] /\ lock'[l] = lock[l + 1]
      BY <1>2
    <2>2. k + 1 = l + 1 => k = l
      BY <2>1
    <2> QED BY <2>1, <2>2 DEF LockTidy
  <1>6. \A k \in DOMAIN lock : lock[k].op = "add" => lock[k].id \in minted /\ lock[k].id \in Ids
    BY DynamicFacts DEF TypeInv, TypeOK, RequestsTyped
  <1>7. \A k \in DOMAIN lock : lock[k].op = "consume" => lock[k].id \in Once /\ lock[k].id \in Ids
    BY DynamicFacts DEF TypeInv, TypeOK, RequestsTyped
  <1>8. Adding' \subseteq Adding /\ Removing' \subseteq Removing
    BY <1>2 DEF Adding, Removing, Consuming
  <1>9. \A i \in Adding : i \in Adding' \/ (op = "add" /\ i = Asked.id)
    BY <1>1, <1>3, <1>4 DEF Adding
  <1>10. \A i \in Removing : i \in Removing' \/ (op = "consume" /\ i = Asked.id)
    BY <1>1, <1>3, <1>4 DEF Removing, Consuming
  <1>11. op = "add" => Asked.id \in Adding /\ Asked.id \notin Adding'
    <2> SUFFICES ASSUME op = "add" PROVE Asked.id \in Adding /\ Asked.id \notin Adding'
      OBVIOUS
    <2>1. Asked.id \in Adding
      BY <1>1, <1>4, <1>6 DEF Adding
    <2>2. \A k \in DOMAIN lock' : ~ (lock'[k].op = "add" /\ lock'[k].id = Asked.id)
      BY <1>1, <1>2, <1>4 DEF LockTidy
    <2> QED BY <2>1, <2>2 DEF Adding
  <1>12. op = "consume" => Removing' = {} /\ Removing = {Asked.id} /\ Asked.id \in Once
    <2> SUFFICES ASSUME op = "consume" PROVE Removing' = {} /\ Removing = {Asked.id} /\ Asked.id \in Once
      OBVIOUS
    <2>1. \A k \in DOMAIN lock' : lock'[k].op # "consume"
      BY <1>1, <1>2, <1>4 DEF LockTidy
    <2>2. Removing' = {}
      BY <2>1 DEF Removing, Consuming
    <2>3. Asked.id \in Removing /\ Asked.id \in Once
      BY <1>1, <1>4, <1>7 DEF Removing, Consuming
    <2> QED BY <1>10, <2>2, <2>3
  <1>13. op \in {"add", "remove", "enable", "disable"} => Asked.id \in minted
    BY <1>1, <1>4 DEF TypeInv, RequestsTyped
  <1> QED BY <1>5, <1>8, <1>9, <1>10, <1>11, <1>12, <1>13

-----------------------------------------------------------------------------
(* Steps that leave the file, the lock and the set of planned triggers alone *)

LEMMA PlanInit == Init => PlanInv
  <1> SUFFICES ASSUME Init PROVE PlanInv
    OBVIOUS
  <1>1. /\ DOMAIN store = {} /\ DOMAIN items = {} /\ todo = {} /\ lock = <<>> /\ DOMAIN lock = {}
        /\ target = None /\ pc = "down"
    BY DEF Init
  <1>2. Adding = {} /\ Removing = {} /\ Aimed = {}
    BY <1>1 DEF Adding, Removing, Consuming, Aimed
  <1>3. FileInv
    BY <1>1, <1>2 DEF FileInv, Down, Fresh, Known, LockTidy, LoopWaits, StartsAlone, Undone, Agrees
  <1>4. LoopInv
    BY <1>1, <1>2 DEF LoopInv, SameInstant, TimerIsPast, LeftoverIsDue, IdleKnows, SleepKnows
  <1> QED BY <1>3, <1>4, TypeInit DEF PlanInv

LEMMA Quiet ==
  ASSUME PlanInv, TypeInv', UNCHANGED <<store, minted, lock, target, pc, torn>>,
         todo' \subseteq todo, now <= now', wake => wake',
         DOMAIN items' = DOMAIN items, \A i \in DOMAIN items : items'[i].at = items[i].at
  PROVE  PlanInv'
  <1> USE DEF PlanInv, FileInv, LoopInv
  <1>1. Adding' = Adding /\ Removing' = Removing /\ LockTidy'
    BY LockSame
  <1>2. Aimed' = Aimed
    BY DEF Aimed
  <1>3. now \in Nat /\ now' \in Nat
    BY CronConstants DEF TypeInv, TypeOK, Time
  <1>4. Down' /\ LoopWaits' /\ StartsAlone' /\ Undone' /\ Agrees'
    BY <1>1 DEF Down, LoopWaits, StartsAlone, Undone, Agrees
  <1>5. Fresh'
    BY <1>1, <1>2 DEF Fresh, Known
  <1>6. \A i \in DOMAIN store : store[i].at \in Nat
    BY DEF TypeInv, TypeOK, Record
  <1>7. \A i \in DOMAIN items : items[i].at \in Nat
    BY DEF TypeInv, TypeOK, Item
  <1>8. SameInstant'
    BY <1>1, <1>2, <1>3, <1>6 DEF SameInstant
  <1>9. TimerIsPast'
    <2> SUFFICES ASSUME pc = "due" PROVE target.at <= now'
      BY DEF TimerIsPast
    <2>1. target.at <= now /\ target.at \in Nat
      BY DEF TimerIsPast, TypeInv, TypeOK, Target
    <2> QED BY <1>3, <2>1
  <1>10. LeftoverIsDue'
    BY <1>3, <1>7 DEF LeftoverIsDue
  <1>11. IdleKnows' /\ SleepKnows'
    BY DEF IdleKnows, SleepKnows, Soonest
  <1> QED BY <1>1, <1>4, <1>5, <1>8, <1>9, <1>10, <1>11

LEMMA LoopMoves ==
  ASSUME PlanInv, TypeInv', Serve \/ Idle \/ Sleep \/ WakeUp \/ TimerFires
  PROVE  PlanInv'
  <1> USE DEF PlanInv, FileInv, LoopInv
  <1>1. UNCHANGED <<now, store, minted, lock, items, todo, torn>>
    BY DEF Serve, Idle, Sleep, WakeUp, TimerFires, fileVars, history
  <1>2. Adding' = Adding /\ Removing' = Removing /\ LockTidy'
    BY <1>1, LockSame
  <1>3. pc # "down" /\ pc' # "down" /\ pc \notin {"drop", "consume"}
    BY DEF Serve, Idle, Sleep, WakeUp, TimerFires
  <1>4. Down' /\ LoopWaits' /\ Undone' /\ Agrees'
    BY <1>1, <1>2, <1>3 DEF Down, LoopWaits, Undone, Agrees
  <1>s. StartsAlone'
    BY <1>1 DEF Serve, Idle, Sleep, WakeUp, TimerFires, StartsAlone
  <1>5. \/ Aimed' \subseteq Aimed /\ target' = target
        \/ Aimed' = {}
        \/ Sleep /\ Aimed' \subseteq DOMAIN items /\ \A i \in Aimed' : target'.at = items[i].at
    <2>1. CASE Sleep
      <3>1. PICK i \in Soonest :
               target' = [id |-> i, at |-> items[i].at, skip |-> 0, stale |-> FALSE]
        BY <2>1 DEF Sleep
      <3> QED BY <2>1, <3>1 DEF Aimed, Soonest
    <2>2. CASE WakeUp
      BY <2>2 DEF WakeUp, Aimed
    <2>3. CASE Serve \/ Idle \/ TimerFires
      BY <2>3 DEF Serve, Idle, TimerFires, Aimed
    <2> QED BY <2>1, <2>2, <2>3
  <1>6. Fresh'
    BY <1>1, <1>2, <1>5 DEF Fresh, Known
  <1>7. SameInstant'
    BY <1>1, <1>2, <1>5 DEF SameInstant
  <1>8. TimerIsPast'
    BY DEF Serve, Idle, Sleep, WakeUp, TimerFires, TimerIsPast
  <1>9. LeftoverIsDue'
    <2>1. CASE pc' \in {"idle", "sleep"}
      <3>1. \A i \in DOMAIN items : items[i].at > now
        <4>1. CASE Idle
          BY <4>1 DEF Idle
        <4>2. CASE Sleep
          <5>1. PICK i \in Soonest : items[i].at > now
            BY <4>2 DEF Sleep
          <5>2. \A j \in DOMAIN items : items[j].at \in Nat /\ items[i].at <= items[j].at
            BY <5>1 DEF Soonest, TypeInv, TypeOK, Item
          <5>3. now \in Nat /\ items[i].at \in Nat
            BY <5>1, <5>2, CronConstants DEF TypeInv, TypeOK, Time, Soonest
          <5> QED BY <5>1, <5>2, <5>3
        <4> QED BY <2>1, <4>1, <4>2 DEF Serve, WakeUp, TimerFires
      <3>2. \A i \in DOMAIN items : ~ (items[i].at <= now)
        <4>1. now \in Nat /\ \A i \in DOMAIN items : items[i].at \in Nat
          BY CronConstants DEF TypeInv, TypeOK, Time, Item
        <4> QED BY <3>1, <4>1
      <3> QED BY <1>1, <3>2 DEF LeftoverIsDue
    <2>2. CASE pc' = "due"
      <3>1. pc = "sleep"
        BY <2>2 DEF Serve, Idle, Sleep, WakeUp, TimerFires
      <3> QED BY <1>1, <3>1 DEF LeftoverIsDue
    <2>3. CASE pc' \notin {"idle", "sleep", "due"}
      BY <1>1, <2>3 DEF LeftoverIsDue
    <2> QED BY <2>1, <2>2, <2>3
  <1>10. IdleKnows'
    BY DEF Serve, Idle, Sleep, WakeUp, TimerFires, IdleKnows
  <1>11. SleepKnows'
    <2>1. CASE Sleep
      BY <2>1 DEF Sleep, SleepKnows, Soonest
    <2>2. CASE ~ Sleep
      BY <2>2 DEF Serve, Idle, WakeUp, TimerFires, SleepKnows
    <2> QED BY <2>1, <2>2
  <1> QED BY <1>2, <1>4, <1>s, <1>6, <1>7, <1>8, <1>9, <1>10, <1>11

LEMMA PlanBoot ==
  ASSUME PlanInv, TypeInv', Boot
  PROVE  PlanInv'
  <1> USE DEF PlanInv, FileInv, LoopInv
  <1> DEFINE enabled == Static \cup {i \in DOMAIN store : store[i].enabled}
  <1>1. /\ UNCHANGED <<now, store, minted, lock, target, torn>>
        /\ pc' = "catchup" /\ lock = <<>> /\ target = None
    BY DEF Boot, fileVars, history, Down
  <1>2. /\ DOMAIN items' = enabled /\ todo' = enabled
        /\ \A i \in enabled \cap Once : items'[i].at = store[i].at
    BY DEF Boot, Planned
  <1>3. Adding = {} /\ Removing = {}
    BY <1>1 DEF Adding, Removing, Consuming
  <1>4. Adding' = Adding /\ Removing' = Removing /\ LockTidy'
    BY <1>1, LockSame
  <1>5. Aimed' = {}
    BY <1>1 DEF Aimed
  <1>6. Down' /\ LoopWaits' /\ StartsAlone' /\ Undone'
    BY <1>1, <1>2, <1>3, <1>4 DEF Down, LoopWaits, StartsAlone, Undone
  <1>7. enabled \cap Dynamic = {i \in DOMAIN store : store[i].enabled} \cap Dynamic
    BY CronConstants DEF Dynamic
  <1>8. Agrees'
    BY <1>1, <1>2, <1>7 DEF Agrees
  <1>9. Fresh'
    BY <1>1, <1>2, <1>3, <1>4, <1>5, <1>7 DEF Fresh, Known
  <1>10. SameInstant'
    BY <1>1, <1>2, <1>3, <1>4, <1>5 DEF SameInstant
  <1>11. LeftoverIsDue'
    BY <1>1, <1>2, <1>7 DEF LeftoverIsDue
  <1>12. TimerIsPast' /\ IdleKnows' /\ SleepKnows'
    BY <1>1 DEF TimerIsPast, IdleKnows, SleepKnows
  <1> QED BY <1>4, <1>6, <1>8, <1>9, <1>10, <1>11, <1>12

LEMMA PlanDie ==
  ASSUME PlanInv, TypeInv', Die, UNCHANGED <<now, store, minted>>
  PROVE  PlanInv'
  <1>1. /\ DOMAIN items' = {} /\ todo' = {} /\ lock' = <<>> /\ DOMAIN lock' = {}
        /\ target' = None /\ pc' = "down"
    BY DEF Die
  <1>2. Adding' = {} /\ Removing' = {} /\ Aimed' = {}
    BY <1>1 DEF Adding, Removing, Consuming, Aimed
  <1>3. FileInv'
    BY <1>1, <1>2 DEF PlanInv, FileInv, Down, Fresh, Known, LockTidy, LoopWaits, StartsAlone, Undone, Agrees
  <1>4. LoopInv'
    BY <1>1, <1>2 DEF LoopInv, SameInstant, TimerIsPast, LeftoverIsDue, IdleKnows, SleepKnows
  <1> QED BY <1>3, <1>4 DEF PlanInv

-----------------------------------------------------------------------------
(* A trigger whose time has come *)

LEMMA PlanConsume ==
  ASSUME PlanInv, TypeInv', NEW i \in Once, StartConsume(i), i \in Known,
         pc \in {"top", "due", "catchup"}, pc' = IF pc = "catchup" THEN "drop" ELSE "consume",
         UNCHANGED <<now, store, minted, torn>>, todo' = todo \ {i},
         target' = None \/ target' = target,
         i \in DOMAIN store => store[i].at <= now
  PROVE  PlanInv'
  <1> USE DEF PlanInv, FileInv, LoopInv
  <1> DEFINE r == [actor |-> Loop, op |-> "consume", id |-> i, at |-> 0]
  <1>1. r \in Request /\ r.op = "consume" /\ r.id = i /\ lock' = Append(lock, r)
    BY DynamicFacts DEF StartConsume, Request
  <1>2. Removing = {}
    BY DEF LoopWaits
  <1> HIDE DEF r
  <1>3. LockTidy' /\ Adding' = Adding /\ Removing' = {i}
    <2>1. LockTidy' /\ Adding' = Adding /\ Removing' \subseteq Removing \cup {r.id}
          /\ (r.id \in Ids => r.id \in Removing')
      BY <1>1, <1>2, LockGrows
    <2> QED BY <1>1, <1>2, <2>1, DynamicFacts
  <1>4. /\ DOMAIN items' = DOMAIN items \ {i}
        /\ \A j \in DOMAIN items' : j \in DOMAIN items /\ items'[j] = items[j]
    BY ItemsFewer DEF StartConsume, TypeInv
  <1>5. Aimed' \subseteq Aimed /\ (target' = target \/ Aimed' = {})
    BY DEF Aimed
  <1>6. Fresh'
    BY <1>3, <1>4, <1>5 DEF Fresh, Known
  <1>7. Down' /\ LoopWaits' /\ Undone'
    BY <1>3, <1>4 DEF Down, LoopWaits, Undone
  <1>s. StartsAlone'
    <2>1. \A k \in DOMAIN lock' : (k \in DOMAIN lock /\ lock'[k] = lock[k]) \/ lock'[k] = r
      BY <1>1, LockAppend DEF TypeInv, TypeOK
    <2> QED BY <1>1, <1>4, <2>1 DEF StartsAlone
  <1>8. Agrees'
    BY <1>2, <1>3, <1>4 DEF Agrees
  <1>9. SameInstant'
    <2> SUFFICES ASSUME NEW j \in Once \cap DOMAIN store
                 PROVE  /\ j \in DOMAIN items' => items'[j].at = store[j].at
                        /\ j \in Aimed' => target'.at = store[j].at
                        /\ j \in Removing' => store[j].at <= now
      BY DEF SameInstant
    <2>1. j \in DOMAIN items' => items'[j].at = store[j].at
      BY <1>4 DEF SameInstant
    <2>2. j \in Aimed' => target'.at = store[j].at
      BY <1>5 DEF SameInstant
    <2> QED BY <1>3, <2>1, <2>2
  <1>10. LeftoverIsDue'
    BY <1>4 DEF LeftoverIsDue
  <1>11. TimerIsPast' /\ IdleKnows' /\ SleepKnows'
    BY DEF TimerIsPast, IdleKnows, SleepKnows
  <1> QED BY <1>3, <1>6, <1>7, <1>s, <1>8, <1>9, <1>10, <1>11

LEMMA PlanAdvance ==
  ASSUME PlanInv, TypeInv', NEW i \in Cron, NEW skip, NEW stale \in BOOLEAN,
         ~ stale /\ i \in DOMAIN items => skip \in Nat,
         Advance(i, skip, stale), pc \in {"top", "due"}, pc' = "top", target' = None,
         UNCHANGED <<now, store, minted, lock, todo, torn>>
  PROVE  PlanInv'
  <1> USE DEF PlanInv, FileInv, LoopInv
  <1>1. Adding' = Adding /\ Removing' = Removing /\ LockTidy'
    BY LockSame
  <1>2. Aimed' = {}
    BY DEF Aimed
  <1>3. DOMAIN items' = DOMAIN items /\ \A j \in DOMAIN items : j # i => items'[j] = items[j]
    BY AdvanceFacts DEF TypeInv
  <1>4. Down' /\ LoopWaits' /\ StartsAlone' /\ Undone' /\ Agrees'
    BY <1>1, <1>3 DEF Down, LoopWaits, StartsAlone, Undone, Agrees
  <1>5. Fresh'
    BY <1>1, <1>2, <1>3 DEF Fresh, Known
  <1>6. \A j \in Once \cap DOMAIN items : items'[j] = items[j]
    BY <1>3, DynamicFacts
  <1>7. SameInstant'
    BY <1>1, <1>2, <1>3, <1>6 DEF SameInstant
  <1>8. LeftoverIsDue'
    BY <1>3, <1>6 DEF LeftoverIsDue
  <1>9. TimerIsPast' /\ IdleKnows' /\ SleepKnows'
    BY DEF TimerIsPast, IdleKnows, SleepKnows
  <1> QED BY <1>1, <1>4, <1>5, <1>7, <1>8, <1>9

LEMMA PlanHandle ==
  ASSUME PlanInv, TypeInv', NEW i \in Ids, NEW due, NEW skip, NEW stale \in BOOLEAN,
         ~ stale /\ i \in DOMAIN items => skip = items[i].skip,
         pc \in {"top", "due"}, i \in Known, i \in Once \cap DOMAIN store => store[i].at <= now,
         Handle(i, due, skip, stale), UNCHANGED <<now, crashes, store, minted, torn>>
  PROVE  PlanInv'
  <1>1. ~ stale /\ i \in DOMAIN items => skip \in Nat
    BY DEF PlanInv, TypeInv, TypeOK, Item
  <1>2. CASE Die
    BY <1>2, PlanDie
  <1>3. CASE /\ skip > 0 /\ i \in Cron /\ Advance(i, skip - 1, stale) /\ pc' = "top" /\ target' = None
             /\ UNCHANGED <<lock, todo>>
    <2>1. ~ stale /\ i \in DOMAIN items => skip - 1 \in Nat
      BY <1>1, <1>3
    <2> QED BY <1>3, <2>1, PlanAdvance
  <1>4. CASE /\ i \in Cron /\ Advance(i, 0, stale) /\ pc' = "top" /\ target' = None
             /\ UNCHANGED <<lock, todo>>
    BY <1>4, PlanAdvance
  <1>5. CASE i \in Once /\ StartConsume(i) /\ pc' = "consume" /\ target' = None /\ UNCHANGED todo
    <2>1. todo' = todo \ {i}
      BY <1>5 DEF PlanInv, FileInv, StartsAlone
    <2> QED BY <1>5, <2>1, PlanConsume
  <1> QED BY <1>2, <1>3, <1>4, <1>5 DEF Handle

LEMMA PlanRun ==
  ASSUME PlanInv, TypeInv', Overdue \/ HandleTarget
  PROVE  PlanInv'
  <1> USE DEF PlanInv, FileInv, LoopInv
  <1>1. CASE Overdue
    <2>1. PICK i \in Soonest : items[i].at <= now /\ Handle(i, items[i].at, items[i].skip, FALSE)
      BY <1>1 DEF Overdue
    <2>2. i \in Ids /\ i \in DOMAIN items /\ i \in Known
      BY DEF Soonest, TypeInv, TypeOK, Known
    <2>3. i \in Once \cap DOMAIN store => store[i].at <= now
      BY <2>1, <2>2 DEF SameInstant
    <2>4. pc = "top" /\ UNCHANGED <<now, crashes, store, minted, torn>>
      BY <1>1 DEF Overdue
    <2> QED BY <2>1, <2>2, <2>3, <2>4, PlanHandle
  <1>2. CASE HandleTarget
    <2> DEFINE skip == IF target.stale THEN target.skip ELSE items[target.id].skip
    <2>1. pc = "due" /\ UNCHANGED <<now, crashes, store, minted, torn>>
          /\ Handle(target.id, target.at, skip, target.stale)
      BY <1>2 DEF HandleTarget
    <2>2. target # None /\ target.id \in Ids /\ target.stale \in BOOLEAN
      BY <2>1 DEF TypeInv, TypeOK, Target
    <2>3. target.id \in Aimed /\ target.id \in Known
      BY <2>2 DEF Aimed, Known
    <2>4. target.id \in Once \cap DOMAIN store => store[target.id].at <= now
      BY <2>1, <2>3 DEF SameInstant, TimerIsPast
    <2> QED BY <2>1, <2>2, <2>3, <2>4, PlanHandle
  <1> QED BY <1>1, <1>2

LEMMA PlanCatchUp ==
  ASSUME PlanInv, TypeInv', NEW i \in Ids, CatchUp(i)
  PROVE  PlanInv'
  <1>1. /\ todo' \subseteq todo /\ pc = "catchup" /\ i \in todo
        /\ UNCHANGED <<now, wake, target, store, minted, torn>>
    BY DEF CatchUp
  <1>2. CASE UNCHANGED <<items, lock, pc>>
    <2>1. now <= now'
      BY <1>1, NowTyped DEF PlanInv, TypeInv
    <2> QED BY <1>1, <1>2, <2>1, Quiet
  <1>3. CASE i \in Once /\ items[i].at <= now /\ StartConsume(i) /\ pc' = "drop"
    <2>1. i \in Known /\ i \in DOMAIN items /\ todo' = todo \ {i}
      BY <1>1 DEF Known, PlanInv, FileInv, StartsAlone, CatchUp
    <2>2. i \in DOMAIN store => store[i].at <= now
      BY <1>3, <2>1 DEF PlanInv, LoopInv, SameInstant
    <2> QED BY <1>1, <1>3, <2>1, <2>2, PlanConsume
  <1> QED BY <1>2, <1>3 DEF CatchUp, CatchUpOnce, CatchUpCron

-----------------------------------------------------------------------------
(* Requests *)

LEMMA PlanAsk ==
  ASSUME PlanInv, TypeInv', NEW c \in Clients, NEW op, NEW i \in Ids \cup {None}, NEW at \in Nat,
         op \in {"add", "remove", "enable", "disable", "clear"}, Ask(c, op, i, at),
         op = "add" => i \in Dynamic /\ i \notin minted /\ minted' = minted \cup {i},
         op # "add" => UNCHANGED minted
  PROVE  PlanInv'
  <1> USE DEF PlanInv, FileInv, LoopInv
  <1> DEFINE r == [actor |-> c, op |-> op, id |-> i, at |-> at]
  <1>1. r \in Request /\ r.op = op /\ r.id = i /\ lock' = Append(lock, r)
    BY DEF Ask, Request
  <1>2. /\ UNCHANGED <<now, store, items, wake, pc, target, todo, torn>>
        /\ pc # "down" /\ pc \notin {"catchup", "drop"}
    BY DEF Ask, Free, Serving, planVars, history
  <1> HIDE DEF r
  <1>3. op = "add" => i \notin Adding /\ i \in Ids
    <2> SUFFICES ASSUME op = "add", i \in Adding PROVE FALSE
      BY DynamicFacts
    <2>1. PICK k \in DOMAIN lock : lock[k].op = "add" /\ lock[k].id = i
      BY DEF Adding
    <2> QED BY <2>1 DEF TypeInv, RequestsTyped
  <1>4. LockTidy' /\ Adding' = (IF op = "add" THEN Adding \cup {i} ELSE Adding) /\ Removing' = Removing
    BY <1>1, <1>3, LockGrows
  <1>5. Aimed' = Aimed
    BY <1>2 DEF Aimed
  <1>6. Fresh'
    <2>1. Known' = Known /\ minted \subseteq minted'
      BY <1>2, <1>4, <1>5 DEF Known
    <2>2. op = "add" => i \notin Known
      BY DEF Fresh
    <2> QED BY <1>4, <2>1, <2>2 DEF Fresh
  <1>7. Down' /\ LoopWaits' /\ StartsAlone' /\ Undone' /\ Agrees'
    BY <1>2, <1>4 DEF Down, LoopWaits, StartsAlone, Undone, Agrees
  <1>8. SameInstant' /\ LeftoverIsDue'
    BY <1>2, <1>4, <1>5 DEF SameInstant, LeftoverIsDue
  <1>9. TimerIsPast' /\ IdleKnows' /\ SleepKnows'
    BY <1>2 DEF TimerIsPast, IdleKnows, SleepKnows, Soonest
  <1> QED BY <1>4, <1>6, <1>7, <1>8, <1>9

LEMMA PlanClient ==
  ASSUME PlanInv, TypeInv', NEW c \in Clients, ClientStep(c)
  PROVE  PlanInv'
  <1>0. now \in Nat /\ now <= now
    BY NowTyped DEF PlanInv, TypeInv
  <1>1. ASSUME NEW i \in Dynamic, AskAdd(c, i)
        PROVE  PlanInv'
    <2>1. i \in Ids /\ i \notin minted /\ minted' = minted \cup {i}
      BY <1>1, DynamicFacts DEF AskAdd
    <2>2. CASE i \in Once
      <3>1. PICK at \in Time : Ask(c, "add", i, at)
        BY <1>1, <2>2 DEF AskAdd
      <3>2. at \in Nat
        BY CronConstants DEF Time
      <3> QED BY <2>1, <3>1, <3>2, PlanAsk
    <2>3. CASE i \notin Once
      <3>1. Ask(c, "add", i, NextFire(i, now))
        BY <1>1, <2>3 DEF AskAdd
      <3>2. NextFire(i, now) \in Nat
        BY <1>0, <2>3, NextFireTyped DEF Dynamic, Cron
      <3> QED BY <2>1, <3>1, <3>2, PlanAsk
    <2> QED BY <2>2, <2>3
  <1>2. ASSUME NEW i \in Dynamic, AskRemove(c, i)
        PROVE  PlanInv'
    BY <1>2, DynamicFacts, PlanAsk DEF AskRemove
  <1>3. ASSUME NEW i \in Dynamic, NEW on \in BOOLEAN, AskEnable(c, i, on)
        PROVE  PlanInv'
    BY <1>3, DynamicFacts, PlanAsk DEF AskEnable
  <1>4. CASE AskClear(c)
    BY <1>4, PlanAsk DEF AskClear
  <1>5. ASSUME NEW i \in Static, NEW on \in BOOLEAN, EnableStatic(c, i, on)
        PROVE  PlanInv'
    <2>1. items' = [items EXCEPT ![i] = [items[i] EXCEPT !.enabled = on]]
          /\ UNCHANGED <<now, store, minted, lock, target, pc, torn, todo>> /\ wake'
      BY <1>5 DEF EnableStatic, fileVars, history
    <2>2. \A m \in Item : [m EXCEPT !.enabled = on].at = m.at
      BY DEF Item
    <2>3. items \in [DOMAIN items -> Item]
      BY DEF PlanInv, TypeInv, TypeOK
    <2>4. DOMAIN items' = DOMAIN items /\ \A j \in DOMAIN items : items'[j].at = items[j].at
      BY <2>1, <2>2, <2>3
    <2> QED BY <1>0, <2>1, <2>4, Quiet
  <1>6. ASSUME NEW i \in Ids, FireNow(c, i)
        PROVE  PlanInv'
    BY <1>0, <1>6, Quiet DEF FireNow, planVars, fileVars, history
  <1> QED BY <1>1, <1>2, <1>3, <1>4, <1>5, <1>6 DEF ClientStep

\* What leaves the plan is enabled in the file no more, and the loop is kicked.
LEMMA PlanUninstall ==
  ASSUME PlanInv, TypeInv', NEW op \in {"remove", "disable", "clear"}, NEW G, Unlock(op), Uninstall(G),
         UNCHANGED <<now, pc, todo, minted, torn>>, wake => wake',
         ~ wake' /\ pc \in {"idle", "sleep"} => G \cap DOMAIN items = {},
         DOMAIN store' \subseteq DOMAIN store,
         \A j \in DOMAIN store' : store'[j].at = store[j].at,
         \A j \in G \cap Dynamic : ~ (j \in DOMAIN store' /\ store'[j].enabled),
         \A j \in DOMAIN store \ G : j \in DOMAIN store' /\ store'[j] = store[j]
  PROVE  PlanInv'
  <1> USE DEF PlanInv, FileInv, LoopInv
  <1>1. LockTidy' /\ Adding' = Adding /\ Removing' = Removing
    BY LockShrinks
  <1>2. /\ DOMAIN items' = DOMAIN items \ G
        /\ \A j \in DOMAIN items' : j \in DOMAIN items /\ items'[j] = items[j]
    BY UninstallFacts DEF TypeInv
  <1>3. /\ target # None <=> target' # None
        /\ target # None => target'.id = target.id /\ target'.at = target.at
    BY KeepFacts DEF Uninstall, TypeInv
  <1>4. Aimed' = Aimed
    BY <1>3 DEF Aimed
  <1>5. pc # "down" /\ pc \notin {"catchup", "drop"}
    <2>1. lock # <<>> /\ lock[1].op = op /\ 1 \in DOMAIN lock
      BY LockTail DEF Unlock, Asked, TypeInv, TypeOK
    <2> QED BY <2>1 DEF Down, StartsAlone
  <1>6. Fresh'
    BY <1>1, <1>2, <1>4 DEF Fresh, Known
  <1>7. Down' /\ LoopWaits' /\ Undone'
    BY <1>1, <1>2, <1>5 DEF Down, LoopWaits, Undone
  <1>8. StartsAlone'
    BY <1>5 DEF StartsAlone
  <1>9. Agrees'
    <2> SUFFICES ASSUME NEW j \in Dynamic, j \notin Removing, ~ (j \in Once /\ torn[j] > 0)
                 PROVE  j \in DOMAIN items' <=> j \in DOMAIN store' /\ store'[j].enabled
      BY <1>1 DEF Agrees
    <2>1. j \in DOMAIN items <=> j \in DOMAIN store /\ store[j].enabled
      BY <1>5 DEF Agrees
    <2> QED BY <1>2, <2>1
  <1>10. SameInstant'
    <2> SUFFICES ASSUME NEW j \in Once \cap DOMAIN store'
                 PROVE  /\ j \in DOMAIN items' => items'[j].at = store'[j].at
                        /\ j \in Aimed' => target'.at = store'[j].at
                        /\ j \in Removing' => store'[j].at <= now'
      BY DEF SameInstant
    <2>1. store'[j].at = store[j].at /\ j \in DOMAIN store
      OBVIOUS
    <2>2. j \in Aimed => target.at = store[j].at /\ target # None
      BY <2>1 DEF SameInstant, Aimed
    <2>3. j \in Aimed' => target'.at = store'[j].at
      BY <1>3, <1>4, <2>1, <2>2
    <2> QED BY <1>1, <1>2, <2>1, <2>3 DEF SameInstant
  <1>11. TimerIsPast'
    BY <1>3 DEF TimerIsPast, TypeInv, TypeOK
  <1>12. LeftoverIsDue'
    BY <1>2 DEF LeftoverIsDue
  <1>13. IdleKnows'
    BY <1>2 DEF IdleKnows
  <1>14. SleepKnows'
    <2> SUFFICES ASSUME ~ wake', pc = "sleep"
                 PROVE  target'.id \in Soonest' /\ items'[target'.id].at = target'.at
      BY DEF SleepKnows
    <2>1. DOMAIN items' = DOMAIN items /\ \A j \in DOMAIN items : items'[j] = items[j]
      BY <1>2
    <2>2. Soonest' = Soonest
      BY <2>1 DEF Soonest
    <2>3. target # None /\ target.id \in Soonest /\ items[target.id].at = target.at
      BY DEF SleepKnows, TypeInv, TypeOK
    <2> QED BY <1>3, <2>1, <2>2, <2>3 DEF Soonest
  <1> QED BY <1>1, <1>6, <1>7, <1>8, <1>9, <1>10, <1>11, <1>12, <1>13, <1>14

LEMMA AddFacts ==
  ASSUME PlanInv, Add, NEW i, i = Asked.id
  PROVE  /\ UNCHANGED <<now, pc, target, todo, minted, torn, trigger_state, fires>> /\ wake' = TRUE
         /\ LockTidy' /\ Adding' = Adding \ {i} /\ Removing' = Removing /\ i \in Adding /\ i \in minted
         /\ i \in Dynamic /\ i \notin Known
         /\ DOMAIN store' = DOMAIN store \cup {i} /\ store'[i].enabled = TRUE /\ store'[i].at = Asked.at
         /\ \A j \in DOMAIN store : store'[j] = store[j]
         /\ DOMAIN items' = DOMAIN items \cup {i} /\ items'[i].at = Asked.at
         /\ \A j \in DOMAIN items : items'[j] = items[j]
         /\ pc # "down" /\ pc \notin {"catchup", "drop"}
  <1> USE DEF PlanInv, FileInv
  <1>1. /\ Unlock("add") /\ UNCHANGED <<now, pc, target, todo, minted, torn, trigger_state, fires>>
        /\ wake' = TRUE
    BY DEF Add, history
  <1>2. LockTidy' /\ Adding' = Adding \ {i} /\ Removing' = Removing /\ i \in Adding /\ i \in minted
    BY <1>1, LockShrinks
  <1>3. i \in Dynamic /\ i \notin Known
    BY <1>2 DEF Fresh, TypeInv, TypeOK
  <1>4. /\ DOMAIN store' = DOMAIN store \cup {i} /\ store'[i].enabled = TRUE /\ store'[i].at = Asked.at
        /\ \A j \in DOMAIN store : store'[j] = store[j]
    BY <1>3 DEF Add, With, Known
  <1>5. /\ DOMAIN items' = DOMAIN items \cup {i} /\ items'[i].at = Asked.at
        /\ \A j \in DOMAIN items : items'[j] = items[j]
    BY <1>3 DEF Add, With, Planned, Known
  <1>6. pc # "down" /\ pc \notin {"catchup", "drop"}
    <2>1. lock # <<>> /\ lock[1].op = "add" /\ 1 \in DOMAIN lock
      BY <1>1, LockTail DEF Unlock, Asked, TypeInv, TypeOK
    <2> QED BY <2>1 DEF Down, StartsAlone
  <1> QED BY <1>1, <1>2, <1>3, <1>4, <1>5, <1>6

LEMMA PlanAdd ==
  ASSUME PlanInv, TypeInv', Add
  PROVE  PlanInv'
  <1> USE DEF PlanInv, FileInv, LoopInv
  <1> DEFINE i == Asked.id
  <1> HIDE DEF i
  <1>1. UNCHANGED <<now, pc, target, todo, minted, torn>> /\ wake' = TRUE
    BY AddFacts DEF i
  <1>2. LockTidy' /\ Adding' = Adding \ {i} /\ Removing' = Removing /\ i \in Adding /\ i \in minted
    BY AddFacts DEF i
  <1>3. i \in Dynamic /\ i \notin Known
    BY AddFacts DEF i
  <1>4. /\ DOMAIN store' = DOMAIN store \cup {i} /\ store'[i].enabled = TRUE /\ store'[i].at = Asked.at
        /\ \A j \in DOMAIN store : store'[j] = store[j]
    BY AddFacts DEF i
  <1>5. /\ DOMAIN items' = DOMAIN items \cup {i} /\ items'[i].at = Asked.at
        /\ \A j \in DOMAIN items : items'[j] = items[j]
    BY AddFacts DEF i
  <1>6. pc # "down" /\ pc \notin {"catchup", "drop"}
    BY AddFacts DEF i
  <1>7. Aimed' = Aimed
    BY <1>1 DEF Aimed
  <1>8. Fresh'
    BY <1>1, <1>2, <1>4, <1>5, <1>7 DEF Fresh, Known
  <1>9. Down' /\ LoopWaits' /\ StartsAlone' /\ Undone'
    BY <1>1, <1>2, <1>3, <1>5, <1>6 DEF Down, LoopWaits, StartsAlone, Undone, Known
  <1>10. Agrees'
    BY <1>1, <1>2, <1>4, <1>5, <1>6 DEF Agrees
  <1>11. SameInstant'
    <2> SUFFICES ASSUME NEW j \in Once \cap DOMAIN store'
                 PROVE  /\ j \in DOMAIN items' => items'[j].at = store'[j].at
                        /\ j \in Aimed' => target'.at = store'[j].at
                        /\ j \in Removing' => store'[j].at <= now'
      BY DEF SameInstant
    <2>1. CASE j = i
      BY <1>2, <1>3, <1>4, <1>5, <1>7, <2>1 DEF Known
    <2>2. CASE j # i
      BY <1>1, <1>2, <1>4, <1>5, <1>7, <2>2 DEF SameInstant
    <2> QED BY <2>1, <2>2
  <1>12. LeftoverIsDue'
    BY <1>1, <1>4, <1>5 DEF LeftoverIsDue
  <1>13. TimerIsPast' /\ IdleKnows' /\ SleepKnows'
    BY <1>1 DEF TimerIsPast, IdleKnows, SleepKnows
  <1> QED BY <1>2, <1>8, <1>9, <1>10, <1>11, <1>12, <1>13

LEMMA EnableFacts ==
  ASSUME PlanInv, TypeInv', Enable, NEW i, i = Asked.id
  PROVE  /\ UNCHANGED <<now, pc, target, todo, minted, trigger_state, fires>> /\ wake' = TRUE
         /\ Unlock("enable") /\ i \in DOMAIN store
         /\ LockTidy' /\ Adding' = Adding /\ Removing' = Removing /\ i \in Dynamic
         /\ DOMAIN store' = DOMAIN store /\ store'[i].enabled = TRUE
         /\ \A j \in DOMAIN store : store'[j].at = store[j].at /\ (j # i => store'[j] = store[j])
         /\ DOMAIN items' = DOMAIN items \cup {i}
         /\ \A j \in DOMAIN items : items'[j].at = items[j].at
         /\ i \in Once \ DOMAIN items => items'[i].at = store[i].at
         /\ i \in Cron \ DOMAIN items => items'[i].at = NextFire(i, now)
         /\ \A j \in Once : torn[j] \in Nat /\ torn'[j] \in Nat /\ torn'[j] >= torn[j]
         /\ i \in Removing => torn'[i] > torn[i] /\ i \in Once
         /\ pc # "down" /\ pc \notin {"catchup", "drop"}
  <1> USE DEF PlanInv, FileInv
  <1>1. /\ UNCHANGED <<now, pc, target, todo, minted, trigger_state, fires>> /\ wake' = TRUE
        /\ Unlock("enable")
        /\ i \in DOMAIN store
    BY DEF Enable
  <1>2. LockTidy' /\ Adding' = Adding /\ Removing' = Removing /\ i \in minted
    BY <1>1, LockShrinks
  <1>3. i \in Dynamic /\ i \in Ids
    BY <1>2, DynamicFacts DEF TypeInv, TypeOK
  <1>4. /\ DOMAIN store' = DOMAIN store /\ store'[i].enabled = TRUE
        /\ \A j \in DOMAIN store : store'[j].at = store[j].at /\ (j # i => store'[j] = store[j])
    <2>1. \A m \in Record : [m EXCEPT !.enabled = TRUE].at = m.at /\ [m EXCEPT !.enabled = TRUE].enabled = TRUE
      BY DEF Record
    <2>2. store \in [DOMAIN store -> Record]
      BY DEF TypeInv, TypeOK
    <2>3. store' = [store EXCEPT ![i] = [store[i] EXCEPT !.enabled = TRUE]]
      BY DEF Enable
    <2> QED BY <1>1, <2>1, <2>2, <2>3
  <1>5. /\ DOMAIN items' = DOMAIN items \cup {i}
        /\ \A j \in DOMAIN items : items'[j].at = items[j].at
        /\ i \in Once \ DOMAIN items => items'[i].at = store[i].at
        /\ i \in Cron \ DOMAIN items => items'[i].at = NextFire(i, now)
    <2>1. CASE i \in DOMAIN items
      <3>1. \A m \in Item : [m EXCEPT !.enabled = TRUE].at = m.at
        BY DEF Item
      <3>2. items \in [DOMAIN items -> Item]
        BY DEF TypeInv, TypeOK
      <3>3. items' = [items EXCEPT ![i] = [items[i] EXCEPT !.enabled = TRUE]]
        BY <2>1 DEF Enable
      <3> QED BY <2>1, <3>1, <3>2, <3>3
    <2>2. CASE i \notin DOMAIN items
      <3>1. items' = With(items, i, Planned(IF i \in Once THEN store[i].at ELSE NextFire(i, now)))
        BY <2>2 DEF Enable
      <3>2. i \in Cron => i \notin Once
        BY DynamicFacts
      <3> QED BY <2>2, <3>1, <3>2 DEF With, Planned
    <2> QED BY <2>1, <2>2
  <1>6. /\ \A j \in Once : torn[j] \in Nat /\ torn'[j] \in Nat /\ torn'[j] >= torn[j]
        /\ i \in Removing => torn'[i] > torn[i] /\ i \in Once
    <2>1. \A j \in Once : torn[j] \in Nat /\ torn'[j] \in Nat
      BY DEF TypeInv, TypeOK
    <2>2. torn' = IF Consuming(i) THEN [torn EXCEPT ![i] = torn[i] + 1] ELSE torn
      BY DEF Enable
    <2>3. i \in Removing => Consuming(i) /\ i \in Once
      BY DEF Removing, Consuming, TypeInv, RequestsTyped
    <2>4. DOMAIN torn = Once
      BY DEF TypeInv, TypeOK
    <2>5. ASSUME NEW j \in Once
          PROVE  torn'[j] = torn[j] \/ torn'[j] = torn[j] + 1
      BY <2>2, <2>4
    <2>6. i \in Removing => torn'[i] = torn[i] + 1
      BY <2>2, <2>3, <2>4
    <2>7. \A j \in Once : torn'[j] >= torn[j]
      BY <2>1, <2>5
    <2>8. i \in Removing => torn'[i] > torn[i] /\ i \in Once
      BY <2>1, <2>3, <2>6
    <2> QED BY <2>1, <2>7, <2>8
  <1>7. pc # "down" /\ pc \notin {"catchup", "drop"}
    <2>1. lock # <<>> /\ lock[1].op = "enable" /\ 1 \in DOMAIN lock
      BY <1>1, LockTail DEF Unlock, Asked, TypeInv, TypeOK
    <2> QED BY <2>1 DEF Down, StartsAlone
  <1> QED BY <1>1, <1>2, <1>3, <1>4, <1>5, <1>6, <1>7

LEMMA PlanEnable ==
  ASSUME PlanInv, TypeInv', Enable
  PROVE  PlanInv'
  <1> USE DEF PlanInv, FileInv, LoopInv
  <1> DEFINE i == Asked.id
  <1> HIDE DEF i
  <1>1. UNCHANGED <<now, pc, target, todo, minted>> /\ wake' = TRUE /\ i \in DOMAIN store
    BY EnableFacts DEF i
  <1>2. LockTidy' /\ Adding' = Adding /\ Removing' = Removing /\ i \in Dynamic
    BY EnableFacts DEF i
  <1>4. /\ DOMAIN store' = DOMAIN store /\ store'[i].enabled = TRUE
        /\ \A j \in DOMAIN store : store'[j].at = store[j].at /\ (j # i => store'[j] = store[j])
    BY EnableFacts DEF i
  <1>5. /\ DOMAIN items' = DOMAIN items \cup {i}
        /\ \A j \in DOMAIN items : items'[j].at = items[j].at
        /\ i \in Once \ DOMAIN items => items'[i].at = store[i].at
    BY EnableFacts DEF i
  <1>6. /\ \A j \in Once : torn[j] \in Nat /\ torn'[j] \in Nat /\ torn'[j] >= torn[j]
        /\ i \in Removing => torn'[i] > 0
    <2>1. /\ \A j \in Once : torn[j] \in Nat /\ torn'[j] \in Nat /\ torn'[j] >= torn[j]
          /\ i \in Removing => torn'[i] > torn[i] /\ i \in Once
      BY EnableFacts DEF i
    <2> QED BY <2>1
  <1>7. pc # "down" /\ pc \notin {"catchup", "drop"}
    BY EnableFacts DEF i
  <1>8. Aimed' = Aimed
    BY <1>1 DEF Aimed
  <1>9. Fresh'
    BY <1>1, <1>2, <1>4, <1>5, <1>8 DEF Fresh, Known
  <1>10. Removing \subseteq Once
    BY DEF Removing, Consuming, TypeInv, RequestsTyped
  <1>11. Undone'
    <2> SUFFICES ASSUME NEW j \in Removing \cap DOMAIN items' PROVE torn'[j] > 0
      BY <1>2 DEF Undone
    <2>1. CASE j = i
      BY <1>6, <2>1
    <2>2. CASE j # i
      <3>1. torn[j] > 0 /\ j \in Once
        BY <1>5, <1>10, <2>2 DEF Undone
      <3> QED BY <1>6, <3>1
    <2> QED BY <2>1, <2>2
  <1>12. Down' /\ LoopWaits' /\ StartsAlone'
    BY <1>1, <1>2, <1>5, <1>7 DEF Down, LoopWaits, StartsAlone
  <1>13. Agrees'
    <2> SUFFICES ASSUME NEW j \in Dynamic, j \notin Removing, ~ (j \in Once /\ torn'[j] > 0)
                 PROVE  j \in DOMAIN items' <=> j \in DOMAIN store' /\ store'[j].enabled
      BY <1>2 DEF Agrees
    <2>1. CASE j = i
      BY <1>1, <1>4, <1>5, <2>1
    <2>2. CASE j # i
      <3>1. ~ (j \in Once /\ torn[j] > 0)
        BY <1>6
      <3> QED BY <1>4, <1>5, <1>7, <2>2, <3>1 DEF Agrees
    <2> QED BY <2>1, <2>2
  <1>14. SameInstant'
    <2> SUFFICES ASSUME NEW j \in Once \cap DOMAIN store
                 PROVE  /\ j \in DOMAIN items' => items'[j].at = store[j].at
                        /\ j \in Aimed => target.at = store[j].at
                        /\ j \in Removing => store[j].at <= now
      BY <1>1, <1>2, <1>4, <1>8 DEF SameInstant
    <2> QED BY <1>5 DEF SameInstant
  <1>15. LeftoverIsDue'
    BY <1>1, <1>4, <1>5 DEF LeftoverIsDue
  <1>16. TimerIsPast' /\ IdleKnows' /\ SleepKnows'
    BY <1>1 DEF TimerIsPast, IdleKnows, SleepKnows
  <1> QED BY <1>2, <1>9, <1>11, <1>12, <1>13, <1>14, <1>15, <1>16

LEMMA PlanConsumed ==
  ASSUME PlanInv, TypeInv', Consume
  PROVE  PlanInv'
  <1> USE DEF PlanInv, FileInv, LoopInv
  <1> DEFINE i == Asked.id
  <1>1. /\ Unlock("consume") /\ UNCHANGED <<now, items, wake, target, todo, minted, torn>>
        /\ store' = Without(store, {i}) /\ pc' = IF pc = "drop" THEN "catchup" ELSE "top"
    BY DEF Consume, history
  <1>2. LockTidy' /\ Adding' = Adding /\ Removing' = {} /\ Removing = {i} /\ i \in Once
    BY <1>1, LockShrinks
  <1> HIDE DEF i
  <1>3. pc \in {"drop", "consume"}
    BY <1>2 DEF LoopWaits
  <1>4. DOMAIN store' = DOMAIN store \ {i} /\ \A j \in DOMAIN store' : store'[j] = store[j]
    BY <1>1 DEF Without, Restrict
  <1>5. Aimed' = Aimed
    BY <1>1 DEF Aimed
  <1>6. Fresh'
    BY <1>1, <1>2, <1>4, <1>5 DEF Fresh, Known
  <1>7. Down' /\ LoopWaits' /\ Undone'
    BY <1>1, <1>2 DEF Down, LoopWaits, Undone
  <1>8. StartsAlone'
    <2>1. \A k \in DOMAIN lock' : k + 1 \in DOMAIN lock /\ lock'[k] = lock[k + 1]
      BY <1>1, LockTail DEF Unlock, TypeInv, TypeOK
    <2> QED BY <1>1, <1>3, <2>1 DEF StartsAlone
  <1>9. i \in DOMAIN items => torn[i] > 0
    BY <1>2 DEF Undone
  <1>10. Agrees'
    <2> SUFFICES ASSUME NEW j \in Dynamic, ~ (j \in Once /\ torn[j] > 0)
                 PROVE  j \in DOMAIN items <=> j \in DOMAIN store' /\ store'[j].enabled
      BY <1>1 DEF Agrees
    <2>1. CASE j = i
      BY <1>2, <1>4, <1>9, <2>1
    <2>2. CASE j # i
      BY <1>2, <1>3, <1>4, <2>2 DEF Agrees
    <2> QED BY <2>1, <2>2
  <1>11. SameInstant'
    BY <1>1, <1>2, <1>4, <1>5 DEF SameInstant
  <1>12. LeftoverIsDue'
    <2> SUFFICES ASSUME NEW j \in (Dynamic \cap DOMAIN items) \ DOMAIN store'
                 PROVE  j \in Once /\ items[j].at <= now
      BY <1>1, <1>3 DEF LeftoverIsDue
    <2>1. CASE j \in DOMAIN store
      BY <1>2, <1>4, <2>1 DEF SameInstant
    <2>2. CASE j \notin DOMAIN store
      BY <2>2 DEF LeftoverIsDue
    <2> QED BY <2>1, <2>2
  <1>13. TimerIsPast' /\ IdleKnows' /\ SleepKnows'
    BY <1>1, <1>3 DEF TimerIsPast, IdleKnows, SleepKnows
  <1> QED BY <1>2, <1>6, <1>7, <1>8, <1>10, <1>11, <1>12, <1>13

LEMMA PlanLocked ==
  ASSUME PlanInv, TypeInv', Locked
  PROVE  PlanInv'
  <1> USE DEF PlanInv, FileInv, LoopInv
  <1>0. store \in [DOMAIN store -> Record]
    BY DEF TypeInv, TypeOK
  <1>1. CASE Remove
    <2>1. /\ Unlock("remove") /\ Uninstall({Asked.id}) /\ store' = Without(store, {Asked.id})
          /\ wake' = (wake \/ Asked.id \in DOMAIN store)
          /\ UNCHANGED <<now, pc, todo, minted, torn>>
      BY <1>1 DEF Remove, history
    <2>2. DOMAIN store' = DOMAIN store \ {Asked.id} /\ \A j \in DOMAIN store' : store'[j] = store[j]
      BY <2>1 DEF Without, Restrict
    <2>3. Asked.id \in Dynamic
      BY <2>1, LockShrinks DEF TypeInv, TypeOK
    <2>4. ~ wake' /\ pc \in {"idle", "sleep"} => {Asked.id} \cap DOMAIN items = {}
      BY <2>1, <2>3 DEF LeftoverIsDue
    <2>5. wake => wake'
      BY <2>1
    <2> QED BY <2>1, <2>2, <2>4, <2>5, PlanUninstall
  <1>2. CASE Disable
    <2>1. /\ Unlock("disable") /\ Uninstall({Asked.id}) /\ wake' = TRUE /\ Asked.id \in DOMAIN store
          /\ store' = [store EXCEPT ![Asked.id] = [store[Asked.id] EXCEPT !.enabled = FALSE]]
          /\ UNCHANGED <<now, pc, todo, minted, torn>>
      BY <1>2 DEF Disable, history
    <2>2. \A m \in Record : [m EXCEPT !.enabled = FALSE].at = m.at /\ [m EXCEPT !.enabled = FALSE].enabled = FALSE
      BY DEF Record
    <2>3. /\ DOMAIN store' = DOMAIN store /\ ~ store'[Asked.id].enabled
          /\ \A j \in DOMAIN store : store'[j].at = store[j].at /\ (j # Asked.id => store'[j] = store[j])
      BY <1>0, <2>1, <2>2
    <2> QED BY <2>1, <2>3, PlanUninstall
  <1>3. CASE Clear
    <2>1. /\ Unlock("clear") /\ Uninstall(Dynamic) /\ store' = <<>> /\ wake' = (wake \/ store # <<>>)
          /\ UNCHANGED <<now, pc, todo, minted, torn>>
      BY <1>3 DEF Clear, history
    <2>2. DOMAIN store' = {}
      BY <2>1
    <2>3. ~ wake' /\ pc \in {"idle", "sleep"} => Dynamic \cap DOMAIN items = {}
      <3> SUFFICES ASSUME ~ wake', pc \in {"idle", "sleep"} PROVE Dynamic \cap DOMAIN items = {}
        OBVIOUS
      <3>1. store = <<>>
        BY <2>1
      <3>2. DOMAIN store = {}
        BY <3>1
      <3> QED BY <3>2 DEF LeftoverIsDue
    <2>4. DOMAIN store \subseteq Dynamic
      BY DEF TypeInv, TypeOK
    <2>5. wake => wake'
      BY <2>1
    <2> QED BY <2>1, <2>2, <2>3, <2>4, <2>5, PlanUninstall
  <1>4. CASE NoSuchTrigger
    <2>1. /\ Unlock(Asked.op) /\ Asked.op \in {"enable", "disable"}
          /\ UNCHANGED <<now, store, items, wake, pc, target, todo, minted, torn>>
      BY <1>4 DEF NoSuchTrigger, planVars, history
    <2>2. LockTidy' /\ Adding' = Adding /\ Removing' = Removing
      BY <2>1, LockShrinks
    <2>3. Aimed' = Aimed
      BY <2>1 DEF Aimed
    <2>4. \A k \in DOMAIN lock' : k + 1 \in DOMAIN lock /\ lock'[k] = lock[k + 1]
      BY <2>1, LockTail DEF Unlock, TypeInv, TypeOK
    <2>5. lock # <<>>
      BY <2>1 DEF Unlock
    <2>6. FileInv'
      BY <2>1, <2>2, <2>3, <2>4, <2>5 DEF Down, Fresh, Known, LoopWaits, StartsAlone, Undone, Agrees
    <2>7. SameInstant' /\ LeftoverIsDue'
      BY <2>1, <2>2, <2>3 DEF SameInstant, LeftoverIsDue
    <2>8. TimerIsPast' /\ IdleKnows' /\ SleepKnows'
      BY <2>1 DEF TimerIsPast, IdleKnows, SleepKnows, Soonest
    <2> QED BY <2>6, <2>7, <2>8
  <1> QED BY <1>1, <1>2, <1>3, <1>4, PlanAdd, PlanEnable, PlanConsumed DEF Locked

-----------------------------------------------------------------------------
(* The invariant, and what it gives *)

LEMMA PlanStep == PlanInv /\ [Next]_vars => PlanInv'
  <1> SUFFICES ASSUME PlanInv, [Next]_vars PROVE PlanInv'
    OBVIOUS
  <1>0. TypeInv'
    BY TypeStep DEF PlanInv
  <1>a. now \in Nat /\ now <= now /\ now <= now + 1
    BY NowTyped DEF PlanInv, TypeInv
  <1>1. CASE Take \/ Unplanned \/ Tick \/ UNCHANGED vars
    BY <1>0, <1>1, <1>a, Quiet DEF Take, Unplanned, Tick, vars, planVars, fileVars, runVars, history
  <1>2. CASE Succeeded \/ Failed
    <2>1. UNCHANGED <<store, minted, lock, target, pc, torn, todo, now, wake>>
      BY <1>2 DEF Succeeded, Failed, fileVars, history
    <2>2. items' = items \/ \E n : items' = [items EXCEPT ![running] = [items[running] EXCEPT !.skip = n]]
      BY <1>2 DEF Succeeded, Failed
    <2>3. \A n : \A m \in Item : [m EXCEPT !.skip = n].at = m.at
      BY DEF Item
    <2>4. items \in [DOMAIN items -> Item]
      BY DEF PlanInv, TypeInv, TypeOK
    <2>5. DOMAIN items' = DOMAIN items /\ \A j \in DOMAIN items : items'[j].at = items[j].at
      <3>1. CASE items' = items
        BY <3>1
      <3>2. ASSUME NEW n, items' = [items EXCEPT ![running] = [items[running] EXCEPT !.skip = n]]
            PROVE  DOMAIN items' = DOMAIN items /\ \A j \in DOMAIN items : items'[j].at = items[j].at
        <4> DEFINE m == [items[running] EXCEPT !.skip = n]
        <4>1. running \in DOMAIN items => m.at = items[running].at
          BY <2>3, <2>4
        <4>2. items' = [items EXCEPT ![running] = m]
          BY <3>2
        <4> HIDE DEF m
        <4> QED BY <2>4, <4>1, <4>2
      <3> QED BY <2>2, <3>1, <3>2
    <2> QED BY <1>0, <1>a, <2>1, <2>5, Quiet
  <1>3. CASE Boot
    BY <1>0, <1>3, PlanBoot
  <1>4. CASE Serve \/ Idle \/ Sleep \/ WakeUp \/ TimerFires
    BY <1>0, <1>4, LoopMoves
  <1>5. CASE Overdue \/ HandleTarget
    BY <1>0, <1>5, PlanRun
  <1>6. CASE \E i \in Ids : CatchUp(i)
    BY <1>0, <1>6, PlanCatchUp
  <1>7. CASE Locked
    BY <1>0, <1>7, PlanLocked
  <1>8. CASE \E c \in Clients : ClientStep(c)
    BY <1>0, <1>8, PlanClient
  <1>9. CASE Crash
    BY <1>0, <1>9, PlanDie DEF Crash
  <1> QED BY <1>1, <1>2, <1>3, <1>4, <1>5, <1>6, <1>7, <1>8, <1>9 DEF Next, Run

LEMMA PlanAlways == Spec => []PlanInv
  BY PlanInit, PlanStep, PTL DEF Spec

(* The plan in memory and the trigger file agree on what is enabled, up to *)
(* a one-shot whose consumption awaits the lock or was undone: whatever    *)
(* requests wait for the lock while the loop fires and consumes.           *)
THEOREM PlanIsTheFile == Spec => []PlanMatchesFile
  <1>1. PlanInv => PlanMatchesFile
    BY DynamicFacts DEF PlanInv, FileInv, Agrees, PlanMatchesFile, Removing
  <1> QED BY <1>1, PlanAlways, PTL

(* A loop that sleeps unkicked sleeps for the soonest trigger of the plan, *)
(* and one that waits for a first trigger has none.                        *)
THEOREM NoMissedWakeup == Spec => []LoopKnowsSoonest
  <1>1. ASSUME TypeOK, DOMAIN items = {} PROVE items = <<>>
    BY <1>1 DEF TypeOK
  <1>2. PlanInv => LoopKnowsSoonest
    BY <1>1 DEF PlanInv, TypeInv, LoopInv, IdleKnows, SleepKnows, LoopKnowsSoonest
  <1> QED BY <1>2, PlanAlways, PTL

-----------------------------------------------------------------------------
(* No due instant is fired twice, when the clock stands still during catch-up *)

LEMMA NextFireLater ==
  ASSUME NEW i \in Cron, now \in Nat
  PROVE  NextFire(i, now) \in Nat /\ now < NextFire(i, now) /\ PrevFire(i, now) \in Nat /\ PrevFire(i, now) <= now
  <1>1. Period[i] \in Nat \ {0}
    BY CronConstants
  <1>2. \A p \in Nat \ {0}, n \in Nat : p * (n \div p) <= n /\ n < p * (n \div p + 1)
    BY SMT
  <1>3. \A p \in Nat \ {0}, n \in Nat : n \div p \in Nat
    BY SMT
  <1>4. \A p, q \in Nat : p * q \in Nat
    BY SMT
  <1>5. \A p \in Nat \ {0}, n \in Nat : p * (n \div p) \in Nat
    BY <1>3, <1>4
  <1> QED BY <1>1, <1>2, <1>5, NextFireTyped DEF NextFire, PrevFire

NeverFired == {i \in Ids : \A d \in Time : fires[i][d] = 0}

\* What may be fired yet; the rest of a one-shot's life is its removal.
Live == DOMAIN items \cup Aimed \cup (DOMAIN store \ Removing)

\* The plan and the loop look beyond what a recurring trigger has fired for.
CronFired ==
    \A i \in Cron, d \in Time :
        /\ fires[i][d] <= 1
        /\ fires[i][d] > 0 => /\ d <= trigger_state[i].last
                              /\ i \in DOMAIN items => d < items[i].at
                              /\ i \in Aimed => d < target.at

OneShotFired ==
    \A i \in Once, d \in Time :
        fires[i][d] <= torn[i] + 1 /\ (i \in Live => fires[i][d] <= torn[i])

NewIsUnfired == Dynamic \cap (Adding \cup (Ids \ minted)) \subseteq NeverFired
LastIsPast   == \A i \in Ids : trigger_state[i].last <= now

\* A target that left the plan wakes the loop, unless its timer has gone off.
StaleTarget ==
    /\ target # None => pc \in {"sleep", "due"}
    /\ pc = "sleep" /\ target.stale => wake
    /\ pc = "due" /\ target.stale /\ target.id \in Cron \cap DOMAIN items =>
          target.at < items[target.id].at

BootIsNow == pc \in {"catchup", "drop"} => \A i \in Cron \cap DOMAIN items : now < items[i].at

Fires  == CronFired /\ OneShotFired /\ NewIsUnfired /\ LastIsPast
DueInv == Fires /\ StaleTarget /\ BootIsNow

LEMMA DueTypes ==
  ASSUME TypeInv
  PROVE  /\ now \in Nat /\ now \in Time /\ Time \subseteq Nat
         /\ \A i \in Ids, d \in Time : fires[i][d] \in Nat
         /\ \A i \in Once : torn[i] \in Nat
         /\ \A i \in Ids : trigger_state[i].last \in Int
         /\ \A i \in DOMAIN items : items[i].at \in Nat
         /\ target # None => target.at \in Nat /\ target.stale \in BOOLEAN /\ target.id \in Ids
  <1>1. Time \subseteq Nat /\ now \in Time
    BY CronConstants DEF Time, TypeInv, TypeOK
  <1>2. \A i \in Ids : trigger_state[i].last \in Int
    <2>1. \A i \in Ids : trigger_state[i].last \in Time \cup {Never}
      BY DEF TypeInv, TypeOK
    <2>2. Time \subseteq Int /\ Never \in Int
      BY <1>1 DEF Never
    <2>3. Time \cup {Never} \subseteq Int
      BY <2>2
    <2> QED BY <2>1, <2>3
  <1>3. \A i \in Ids, d \in Time : fires[i][d] \in Nat
    BY DEF TypeInv, TypeOK
  <1>4. \A i \in Once : torn[i] \in Nat
    BY DEF TypeInv, TypeOK
  <1>5. \A i \in DOMAIN items : items[i].at \in Nat
    BY DEF TypeInv, TypeOK, Item
  <1>6. target # None => target.at \in Nat /\ target.stale \in BOOLEAN /\ target.id \in Ids
    BY DEF TypeInv, TypeOK, Target
  <1> QED BY <1>1, <1>2, <1>3, <1>4, <1>5, <1>6

LEMMA DueInit == Init => DueInv
  <1> SUFFICES ASSUME Init PROVE DueInv
    OBVIOUS
  <1>1. DOMAIN items = {} /\ DOMAIN store = {} /\ target = None /\ pc = "down" /\ Aimed = {}
    BY DEF Init, Aimed
  <1>2. \A i \in Ids, d \in Time : fires[i][d] = 0
    BY DEF Init
  <1>3. \A i \in Once : torn[i] = 0
    BY DEF Init
  <1>4. NewIsUnfired
    BY <1>2, DynamicFacts DEF NewIsUnfired, NeverFired
  <1>5. LastIsPast
    BY DEF Init, LastIsPast, Never
  <1>6. CronFired
    BY <1>2, DynamicFacts DEF CronFired
  <1>7. OneShotFired
    BY <1>2, <1>3, DynamicFacts DEF OneShotFired
  <1>8. StaleTarget /\ BootIsNow
    BY <1>1 DEF StaleTarget, BootIsNow
  <1> QED BY <1>4, <1>5, <1>6, <1>7, <1>8 DEF DueInv, Fires

\* Nothing fires: who is live was, or has had another consumption undone, or is
\* new; where a recurring trigger goes lies ahead.
LEMMA NothingFires ==
  ASSUME TypeInv, TypeInv', Fires, UNCHANGED fires, now <= now',
         \A i \in Ids : trigger_state'[i].last = trigger_state[i].last,
         \A i \in Once : torn[i] <= torn'[i],
         minted \subseteq minted', Adding' \subseteq Adding \cup (Ids \ minted),
         \A i \in Cron \cap DOMAIN items' :
            \/ i \in DOMAIN items /\ items'[i].at = items[i].at
            \/ now < items'[i].at
            \/ i \in NeverFired,
         \A i \in Aimed' :
            \/ i \in Aimed /\ target'.at = target.at
            \/ i \in DOMAIN items /\ target'.at = items[i].at,
         \A i \in Once \cap Live' : i \in Live \/ torn[i] < torn'[i] \/ i \in NeverFired
  PROVE  Fires'
  <1> USE DEF Fires
  <1>1. NewIsUnfired'
    BY DEF NewIsUnfired, NeverFired
  <1>2. now \in Nat /\ now' \in Nat /\ \A i \in Ids : trigger_state[i].last \in Int
    BY DueTypes, CronConstants DEF TypeInv, TypeOK, Time
  <1>3. LastIsPast'
    BY <1>2 DEF LastIsPast
  <1>4. CronFired'
    <2> SUFFICES ASSUME NEW i \in Cron, NEW d \in Time
                 PROVE  /\ fires[i][d] <= 1
                        /\ fires[i][d] > 0 => /\ d <= trigger_state'[i].last
                                              /\ i \in DOMAIN items' => d < items'[i].at
                                              /\ i \in Aimed' => d < target'.at
      BY DEF CronFired
    <2>1. i \in Ids /\ trigger_state'[i].last = trigger_state[i].last /\ fires[i][d] <= 1
      BY DynamicFacts DEF CronFired
    <2> SUFFICES ASSUME fires[i][d] > 0
                 PROVE  /\ d <= trigger_state'[i].last
                        /\ i \in DOMAIN items' => d < items'[i].at
                        /\ i \in Aimed' => d < target'.at
      BY <2>1
    <2>2. d \in Nat /\ trigger_state[i].last \in Int /\ d <= trigger_state[i].last /\ trigger_state[i].last <= now
      BY <2>1, DueTypes DEF CronFired, LastIsPast
    <2>3. i \notin NeverFired
      BY <2>1, DueTypes DEF NeverFired
    <2>4. ASSUME i \in DOMAIN items'
          PROVE  d < items'[i].at
      <3>1. CASE i \in DOMAIN items /\ items'[i].at = items[i].at
        BY <3>1 DEF CronFired
      <3>2. CASE now < items'[i].at
        <4>1. items'[i].at \in Nat
          BY <2>4, DueTypes DEF TypeInv, TypeOK, Item
        <4> QED BY <1>2, <2>2, <3>2, <4>1
      <3> QED BY <2>3, <2>4, <3>1, <3>2
    <2>5. ASSUME i \in Aimed'
          PROVE  d < target'.at
      BY <2>5 DEF CronFired
    <2> QED BY <2>1, <2>2, <2>4, <2>5
  <1>5. OneShotFired'
    <2> SUFFICES ASSUME NEW i \in Once, NEW d \in Time
                 PROVE  fires[i][d] <= torn'[i] + 1 /\ (i \in Live' => fires[i][d] <= torn'[i])
      BY DEF OneShotFired
    <2>1. /\ fires[i][d] \in Nat /\ torn[i] \in Nat /\ torn'[i] \in Nat /\ torn[i] <= torn'[i]
          /\ fires[i][d] <= torn[i] + 1 /\ (i \in Live => fires[i][d] <= torn[i])
      BY DueTypes, DynamicFacts DEF OneShotFired, TypeInv, TypeOK
    <2>2. i \in NeverFired => fires[i][d] = 0
      BY DEF NeverFired
    <2>3. i \in Live' => i \in Live \/ torn[i] < torn'[i] \/ i \in NeverFired
      OBVIOUS
    <2>4. CASE torn[i] < torn'[i]
      BY <2>1, <2>4
    <2>5. CASE ~ (torn[i] < torn'[i])
      BY <2>1, <2>2, <2>3, <2>5
    <2> QED BY <2>4, <2>5
  <1> QED BY <1>1, <1>3, <1>4, <1>5

LEMMA FireFacts ==
  ASSUME TypeInv, NEW i \in Ids, NEW due, Fire(i, due)
  PROVE  /\ \A j \in Ids, d \in Time :
               fires'[j][d] = IF j = i /\ d = due THEN fires[j][d] + 1 ELSE fires[j][d]
         /\ \A j \in Ids : trigger_state'[j].last = IF j = i THEN now ELSE trigger_state[j].last
  <1> DEFINE fs == [fires[i] EXCEPT ![due] = fires[i][due] + 1]
             S == [last : Time \cup {Never}, failures : 0..MaxFailures]
  <1>1. fires \in [Ids -> [Time -> Nat]] /\ trigger_state \in [Ids -> S]
    BY DEF TypeInv, TypeOK
  <1>2. \A d \in Time : fs[d] = IF d = due THEN fires[i][d] + 1 ELSE fires[i][d]
    BY <1>1
  <1>3. fires' = [fires EXCEPT ![i] = fs]
    BY DEF Fire
  <1>4. \A r \in S : [r EXCEPT !.last = now].last = now
    OBVIOUS
  <1>5. trigger_state' = [trigger_state EXCEPT ![i] = [trigger_state[i] EXCEPT !.last = now]]
    BY DEF Fire
  <1> HIDE DEF fs, S
  <1>6. \A j \in Ids, d \in Time :
           fires'[j][d] = IF j = i /\ d = due THEN fires[j][d] + 1 ELSE fires[j][d]
    BY <1>1, <1>2, <1>3
  <1>7. \A j \in Ids : trigger_state'[j].last = IF j = i THEN now ELSE trigger_state[j].last
    BY <1>1, <1>4, <1>5
  <1> QED BY <1>6, <1>7

\* A recurring trigger fires for an instant after all it has fired for.
LEMMA CronFires ==
  ASSUME PlanInv, TypeInv', Fires, NEW i \in Cron, i \in Known, NEW due \in Nat, Fire(i, due),
         due <= now, \A d \in Time : fires[i][d] > 0 => d < due,
         UNCHANGED <<now, store, minted, lock, torn>>, Aimed' = {}, Once \cap Live' \subseteq Live,
         \A j \in Cron \cap DOMAIN items' :
            \/ now < items'[j].at
            \/ j \in DOMAIN items /\ items'[j].at = items[j].at /\ (j = i => due < items'[j].at)
  PROVE  Fires'
  <1> USE DEF Fires
  <1>0. TypeInv /\ i \in Ids /\ i \notin Once
    BY DynamicFacts DEF PlanInv
  <1>1. \A j \in Ids, d \in Time :
           fires'[j][d] = IF j = i /\ d = due THEN fires[j][d] + 1 ELSE fires[j][d]
    BY <1>0, FireFacts
  <1>2. \A j \in Ids : trigger_state'[j].last = IF j = i THEN now ELSE trigger_state[j].last
    BY <1>0, FireFacts
  <1>3. Adding' = Adding
    BY LockSame
  <1>4. NewIsUnfired'
    <2>1. i \in Dynamic => i \in minted \ Adding
      BY DEF PlanInv, FileInv, Fresh
    <2>2. NeverFired \ {i} \subseteq NeverFired'
      BY <1>1 DEF NeverFired
    <2> QED BY <1>3, <2>1, <2>2 DEF NewIsUnfired
  <1>5. now \in Nat
    BY <1>0, DueTypes
  <1>6. LastIsPast'
    BY <1>2, <1>5 DEF LastIsPast
  <1>7. CronFired'
    <2> SUFFICES ASSUME NEW j \in Cron, NEW d \in Time
                 PROVE  /\ fires'[j][d] <= 1
                        /\ fires'[j][d] > 0 => /\ d <= trigger_state'[j].last
                                               /\ j \in DOMAIN items' => d < items'[j].at
                                               /\ j \in Aimed' => d < target'.at
      BY DEF CronFired
    <2>1. /\ j \in Ids /\ d \in Nat /\ fires[j][d] \in Nat /\ fires[j][d] <= 1
          /\ trigger_state[j].last \in Int /\ trigger_state[j].last <= now
          /\ fires[j][d] > 0 => d <= trigger_state[j].last
      BY <1>0, DueTypes, DynamicFacts DEF CronFired, LastIsPast
    <2>2. fires'[j][d] <= 1
      <3>1. CASE j = i /\ d = due
        <4>1. ~ (fires[j][d] > 0)
          BY <2>1, <3>1
        <4>2. fires'[j][d] = fires[j][d] + 1
          BY <1>1, <2>1, <3>1
        <4> QED BY <2>1, <4>1, <4>2
      <3>2. CASE ~ (j = i /\ d = due)
        BY <1>1, <2>1, <3>2
      <3> QED BY <3>1, <3>2
    <2> SUFFICES ASSUME fires'[j][d] > 0
                 PROVE  d <= trigger_state'[j].last /\ (j \in DOMAIN items' => d < items'[j].at)
      BY <2>2
    <2>3. (j = i /\ d = due) \/ fires[j][d] > 0
      BY <1>1, <2>1
    <2>4. d <= now
      <3>1. CASE j = i /\ d = due
        BY <3>1
      <3>2. CASE fires[j][d] > 0
        BY <1>5, <2>1, <3>2
      <3> QED BY <2>3, <3>1, <3>2
    <2>5. d <= trigger_state'[j].last
      <3>1. CASE j = i
        BY <1>2, <2>1, <2>4, <3>1
      <3>2. CASE j # i
        BY <1>2, <2>1, <2>3, <3>2
      <3> QED BY <3>1, <3>2
    <2>6. ASSUME j \in DOMAIN items'
          PROVE  d < items'[j].at
      <3>1. CASE now < items'[j].at
        <4>1. items'[j].at \in Nat
          BY <2>6 DEF TypeInv, TypeOK, Item
        <4> QED BY <1>5, <2>1, <2>4, <3>1, <4>1
      <3>2. CASE j \in DOMAIN items /\ items'[j].at = items[j].at /\ (j = i => due < items'[j].at)
        <4>1. CASE fires[j][d] > 0
          BY <3>2, <4>1 DEF CronFired
        <4> QED BY <2>3, <3>2, <4>1
      <3> QED BY <2>6, <3>1, <3>2
    <2> QED BY <2>5, <2>6
  <1>8. OneShotFired'
    <2>1. \A j \in Once, d \in Time : fires'[j][d] = fires[j][d]
      BY <1>0, <1>1, DynamicFacts
    <2> QED BY <2>1 DEF OneShotFired
  <1> QED BY <1>4, <1>6, <1>7, <1>8

\* A one-shot that fires is live no more.
LEMMA OneShotFires ==
  ASSUME PlanInv, TypeInv', Fires, NEW i \in Once, i \in Known, i \in Live, NEW due, Fire(i, due),
         UNCHANGED <<now, minted, torn>>, Adding' = Adding, Aimed' = {},
         Once \cap Live' \subseteq Live \ {i},
         \A j \in Cron \cap DOMAIN items' : j \in DOMAIN items /\ items'[j].at = items[j].at
  PROVE  Fires'
  <1> USE DEF Fires
  <1>0. TypeInv /\ i \in Ids /\ i \in Dynamic /\ i \notin Cron
    BY DynamicFacts DEF PlanInv
  <1>1. \A j \in Ids, d \in Time :
           fires'[j][d] = IF j = i /\ d = due THEN fires[j][d] + 1 ELSE fires[j][d]
    BY <1>0, FireFacts
  <1>2. \A j \in Ids : trigger_state'[j].last = IF j = i THEN now ELSE trigger_state[j].last
    BY <1>0, FireFacts
  <1>3. NewIsUnfired'
    <2>1. i \in minted \ Adding
      BY <1>0 DEF PlanInv, FileInv, Fresh
    <2>2. NeverFired \ {i} \subseteq NeverFired'
      BY <1>1 DEF NeverFired
    <2> QED BY <2>1, <2>2 DEF NewIsUnfired
  <1>4. now \in Nat
    BY <1>0, DueTypes
  <1>5. LastIsPast'
    BY <1>2, <1>4 DEF LastIsPast
  <1>6. CronFired'
    <2>1. \A j \in Cron, d \in Time : fires'[j][d] = fires[j][d] /\ trigger_state'[j].last = trigger_state[j].last
      BY <1>0, <1>1, <1>2, DynamicFacts
    <2> QED BY <2>1 DEF CronFired
  <1>7. OneShotFired'
    <2> SUFFICES ASSUME NEW j \in Once, NEW d \in Time
                 PROVE  fires'[j][d] <= torn[j] + 1 /\ (j \in Live' => fires'[j][d] <= torn[j])
      BY DEF OneShotFired
    <2>1. /\ fires[j][d] \in Nat /\ torn[j] \in Nat /\ fires[j][d] <= torn[j] + 1
          /\ j \in Live => fires[j][d] <= torn[j]
      BY <1>0, DueTypes, DynamicFacts DEF OneShotFired
    <2>2. CASE j = i
      <3>1. fires'[j][d] = fires[j][d] \/ fires'[j][d] = fires[j][d] + 1
        BY <1>0, <1>1, <2>2
      <3> QED BY <2>1, <2>2, <3>1
    <2>3. CASE j # i
      <3>1. fires'[j][d] = fires[j][d]
        BY <1>1, <2>3, DynamicFacts
      <3> QED BY <2>1, <3>1
    <2> QED BY <2>2, <2>3
  <1> QED BY <1>3, <1>5, <1>6, <1>7

LEMMA DueQuiet ==
  ASSUME PlanInv, TypeInv', DueInv, UNCHANGED <<store, minted, lock, target, pc, torn, fires>>,
         now <= now', pc \in {"catchup", "drop"} => now' = now, wake => wake',
         \A i \in Ids : trigger_state'[i].last = trigger_state[i].last,
         DOMAIN items' = DOMAIN items, \A i \in DOMAIN items : items'[i].at = items[i].at
  PROVE  DueInv'
  <1>1. Adding' = Adding /\ Removing' = Removing /\ Aimed' = Aimed
    BY LockSame DEF Aimed
  <1>2. Live' = Live
    BY <1>1 DEF Live
  <1>3. \A i \in Once : torn[i] <= torn'[i]
    BY DueTypes DEF PlanInv
  <1>4. Fires'
    BY <1>1, <1>2, <1>3, NothingFires DEF PlanInv, DueInv
  <1>5. StaleTarget' /\ BootIsNow'
    BY DEF DueInv, StaleTarget, BootIsNow
  <1> QED BY <1>4, <1>5 DEF DueInv

LEMMA DueLoopMoves ==
  ASSUME PlanInv, TypeInv', DueInv, Serve \/ Idle \/ Sleep \/ WakeUp \/ TimerFires
  PROVE  DueInv'
  <1>1. UNCHANGED <<now, store, minted, lock, items, torn, fires, trigger_state>>
    BY DEF Serve, Idle, Sleep, WakeUp, TimerFires, fileVars, history
  <1>2. Adding' = Adding /\ Removing' = Removing
    BY <1>1, LockSame
  <1>3. \/ target' = target /\ ~ Sleep
        \/ target' = None /\ ~ Sleep
        \/ Sleep /\ target'.id \in DOMAIN items /\ target'.at = items[target'.id].at /\ target'.stale = FALSE
    BY DEF Serve, Idle, Sleep, WakeUp, TimerFires, Soonest
  <1>4. \A i \in Aimed' : \/ i \in Aimed /\ target'.at = target.at
                          \/ i \in DOMAIN items /\ target'.at = items[i].at
    BY <1>3 DEF Aimed
  <1>5. Live' \subseteq Live
    BY <1>1, <1>2, <1>4 DEF Live
  <1>6. \A i \in Once : torn[i] <= torn'[i]
    BY <1>1, DueTypes DEF PlanInv
  <1>7. now <= now'
    BY <1>1, DueTypes DEF PlanInv
  <1>8. Fires'
    BY <1>1, <1>2, <1>4, <1>5, <1>6, <1>7, NothingFires DEF PlanInv, DueInv
  <1>9. StaleTarget'
    <2>1. CASE Serve \/ Idle
      BY <2>1 DEF Serve, Idle, DueInv, StaleTarget
    <2>2. CASE Sleep
      BY <1>3, <2>2 DEF Sleep, StaleTarget
    <2>3. CASE WakeUp
      BY <2>3 DEF WakeUp, StaleTarget
    <2>4. CASE TimerFires
      BY <2>4 DEF TimerFires, DueInv, StaleTarget
    <2> QED BY <2>1, <2>2, <2>3, <2>4
  <1>10. BootIsNow'
    BY DEF Serve, Idle, Sleep, WakeUp, TimerFires, BootIsNow
  <1> QED BY <1>8, <1>9, <1>10 DEF DueInv

LEMMA DueBoot ==
  ASSUME PlanInv, TypeInv', DueInv, Boot
  PROVE  DueInv'
  <1> DEFINE enabled == Static \cup {i \in DOMAIN store : store[i].enabled}
  <1>1. /\ UNCHANGED <<now, store, minted, lock, target, torn, fires, trigger_state>>
        /\ pc' = "catchup" /\ lock = <<>> /\ target = None
    BY DEF Boot, fileVars, history, PlanInv, FileInv, Down
  <1>2. DOMAIN items' = enabled /\ \A i \in enabled \ Once : items'[i].at = NextFire(i, now)
    BY DEF Boot, Planned
  <1>3. Adding' = Adding /\ Removing' = Removing /\ Removing = {} /\ Aimed' = {}
    BY <1>1, LockSame DEF Removing, Consuming, Aimed
  <1>4. \A i \in Cron \cap DOMAIN items' : now < items'[i].at
    BY <1>2, DueTypes, NextFireLater, DynamicFacts DEF PlanInv
  <1>5. Once \cap DOMAIN items' \subseteq DOMAIN store
    BY <1>2, CronConstants DEF Dynamic
  <1>6. Once \cap Live' \subseteq Live
    BY <1>1, <1>3, <1>5 DEF Live
  <1>7. \A i \in Once : torn[i] <= torn'[i]
    BY <1>1, DueTypes DEF PlanInv
  <1>8. now <= now'
    BY <1>1, DueTypes DEF PlanInv
  <1>9. Fires'
    BY <1>1, <1>3, <1>4, <1>6, <1>7, <1>8, NothingFires DEF PlanInv, DueInv
  <1>10. StaleTarget' /\ BootIsNow'
    BY <1>1, <1>4 DEF StaleTarget, BootIsNow
  <1> QED BY <1>9, <1>10 DEF DueInv

LEMMA DueDie ==
  ASSUME PlanInv, TypeInv', DueInv, Die, UNCHANGED <<now, store, minted, trigger_state, fires>>,
         \A i \in Once : torn[i] <= torn'[i], \A i \in Removing : torn[i] < torn'[i]
  PROVE  DueInv'
  <1>1. DOMAIN items' = {} /\ DOMAIN lock' = {} /\ target' = None /\ pc' = "down"
    BY DEF Die
  <1>2. Adding' = {} /\ Removing' = {} /\ Aimed' = {}
    BY <1>1 DEF Adding, Removing, Consuming, Aimed
  <1>3. Live' \subseteq Live \cup Removing
    BY <1>1, <1>2 DEF Live
  <1>4. now <= now'
    BY DueTypes DEF PlanInv
  <1>5. Fires'
    BY <1>1, <1>2, <1>3, <1>4, NothingFires DEF PlanInv, DueInv
  <1>6. StaleTarget' /\ BootIsNow'
    BY <1>1 DEF StaleTarget, BootIsNow
  <1> QED BY <1>5, <1>6 DEF DueInv

\* StartConsume, with or without the fire that comes before it.
LEMMA DueConsume ==
  ASSUME PlanInv, TypeInv', DueInv, NEW i \in Once, StartConsume(i), i \in DOMAIN items \cup Aimed,
         pc \in {"top", "due", "catchup"}, target' = None \/ (pc = "catchup" /\ target' = target),
         pc' \in {"drop", "consume"}, pc' = "drop" => pc = "catchup",
         NEW due, Fire(i, due) \/ (UNCHANGED fires /\ UNCHANGED trigger_state),
         UNCHANGED <<now, store, minted, torn>>
  PROVE  DueInv'
  <1> DEFINE r == [actor |-> Loop, op |-> "consume", id |-> i, at |-> 0]
  <1>1. r \in Request /\ r.op = "consume" /\ r.id = i /\ lock' = Append(lock, r) /\ i \in Ids
    BY DynamicFacts DEF StartConsume, Request
  <1> HIDE DEF r
  <1>2. Adding' = Adding /\ i \in Removing'
    <2>1. Removing = {} /\ TypeInv /\ LockTidy
      BY DEF PlanInv, FileInv, LoopWaits
    <2> QED BY <1>1, <2>1, LockGrows
  <1>3. /\ DOMAIN items' = DOMAIN items \ {i}
        /\ \A j \in DOMAIN items' : j \in DOMAIN items /\ items'[j] = items[j]
    BY ItemsFewer DEF StartConsume, PlanInv, TypeInv
  <1>4. target' = None
    BY DEF DueInv, StaleTarget
  <1>5. Aimed' = {}
    BY <1>4 DEF Aimed
  <1>6. Live' \subseteq Live \ {i}
    <2>1. Removing = {}
      BY DEF PlanInv, FileInv, LoopWaits
    <2> QED BY <1>2, <1>3, <1>5, <2>1 DEF Live
  <1>7. i \in Live /\ i \in Known
    BY DEF Live, Known
  <1>8. Fires'
    <2>1. CASE Fire(i, due)
      BY <1>2, <1>3, <1>5, <1>6, <1>7, <2>1, OneShotFires DEF DueInv
    <2>2. CASE UNCHANGED <<fires, trigger_state>>
      <3>1. now <= now' /\ \A j \in Once : torn[j] <= torn'[j]
        BY DueTypes DEF PlanInv
      <3> QED BY <1>2, <1>3, <1>5, <1>6, <2>2, <3>1, NothingFires DEF PlanInv, DueInv
    <2> QED BY <2>1, <2>2
  <1>9. StaleTarget'
    BY <1>4 DEF StaleTarget
  <1>10. BootIsNow'
    BY <1>3 DEF DueInv, BootIsNow
  <1> QED BY <1>8, <1>9, <1>10 DEF DueInv

\* A recurring trigger moves on, with or without a fire.
LEMMA DueAdvance ==
  ASSUME PlanInv, TypeInv', DueInv, NEW i \in Cron, i \in Known, NEW skip, NEW stale \in BOOLEAN,
         ~ stale /\ i \in DOMAIN items => skip \in Nat, Advance(i, skip, stale),
         pc \in {"top", "due"}, pc' = "top", target' = None,
         NEW due \in Nat, due <= now, \A d \in Time : fires[i][d] > 0 => d < due,
         stale /\ i \in DOMAIN items => due < items[i].at,
         Fire(i, due) \/ (UNCHANGED fires /\ UNCHANGED trigger_state),
         UNCHANGED <<now, store, minted, lock, torn>>
  PROVE  DueInv'
  <1>1. Adding' = Adding /\ Removing' = Removing /\ Aimed' = {}
    BY LockSame DEF Aimed
  <1>2. DOMAIN items' = DOMAIN items /\ \A j \in DOMAIN items : j # i => items'[j] = items[j]
    BY AdvanceFacts DEF PlanInv, TypeInv
  <1>3. i \in DOMAIN items => IF stale THEN items'[i] = items[i] ELSE now < items'[i].at
    <2>1. CASE stale
      BY <2>1 DEF Advance
    <2>2. CASE ~ stale /\ i \in DOMAIN items
      <3> DEFINE m == [items[i] EXCEPT !.at = NextFire(i, now), !.skip = skip]
      <3>1. items[i] \in Item /\ m.at = NextFire(i, now)
        BY <2>2 DEF PlanInv, TypeInv, TypeOK, Item
      <3>2. items' = [items EXCEPT ![i] = m]
        BY <2>2 DEF Advance
      <3>3. now < NextFire(i, now)
        BY DueTypes, NextFireLater DEF PlanInv
      <3> HIDE DEF m
      <3> QED BY <2>2, <3>1, <3>2, <3>3 DEF PlanInv, TypeInv, TypeOK
    <2> QED BY <2>1, <2>2
  <1>4. Live' \subseteq Live
    BY <1>1, <1>2 DEF Live
  <1>5. \A j \in Cron \cap DOMAIN items' :
           \/ now < items'[j].at
           \/ j \in DOMAIN items /\ items'[j].at = items[j].at /\ (j = i => due < items'[j].at)
    BY <1>2, <1>3
  <1>6. Fires'
    <2>1. CASE Fire(i, due)
      BY <1>1, <1>4, <1>5, <2>1, CronFires DEF DueInv
    <2>2. CASE UNCHANGED <<fires, trigger_state>>
      <3>1. now <= now' /\ \A j \in Once : torn[j] <= torn'[j]
        BY DueTypes DEF PlanInv
      <3> QED BY <1>1, <1>4, <1>5, <2>2, <3>1, NothingFires DEF PlanInv, DueInv
    <2> QED BY <2>1, <2>2
  <1>7. StaleTarget' /\ BootIsNow'
    BY DEF StaleTarget, BootIsNow
  <1> QED BY <1>6, <1>7 DEF DueInv

LEMMA DueHandle ==
  ASSUME PlanInv, TypeInv', DueInv, NEW i \in Ids, i \in DOMAIN items \cup Aimed,
         NEW due \in Nat, due <= now, NEW skip, NEW stale \in BOOLEAN,
         ~ stale /\ i \in DOMAIN items => skip = items[i].skip,
         i \in Cron => \A d \in Time : fires[i][d] > 0 => d < due,
         i \in Cron /\ stale /\ i \in DOMAIN items => due < items[i].at,
         pc \in {"top", "due"}, Handle(i, due, skip, stale), UNCHANGED <<now, crashes, store, minted, torn>>
  PROVE  DueInv'
  <1>1. ~ stale /\ i \in DOMAIN items => skip \in Nat
    BY DEF PlanInv, TypeInv, TypeOK, Item
  <1>2. i \in Known
    BY DEF Known
  <1>3. CASE Die /\ UNCHANGED <<trigger_state, fires>>
    <2>1. Removing = {} /\ \A j \in Once : torn[j] <= torn'[j]
      BY DueTypes DEF PlanInv, FileInv, LoopWaits
    <2> QED BY <1>3, <2>1, DueDie
  <1>4. CASE /\ skip > 0 /\ i \in Cron /\ Advance(i, skip - 1, stale) /\ pc' = "top" /\ target' = None
             /\ UNCHANGED <<lock, trigger_state, fires>>
    <2>1. ~ stale /\ i \in DOMAIN items => skip - 1 \in Nat
      BY <1>1, <1>4
    <2> QED BY <1>2, <1>4, <2>1, DueAdvance
  <1>5. CASE /\ i \in Cron /\ Fire(i, due) /\ Advance(i, 0, stale) /\ pc' = "top" /\ target' = None
             /\ UNCHANGED lock
    BY <1>2, <1>5, DueAdvance
  <1>6. CASE i \in Once /\ Fire(i, due) /\ StartConsume(i) /\ pc' = "consume" /\ target' = None
    BY <1>6, DueConsume
  <1> QED BY <1>3, <1>4, <1>5, <1>6 DEF Handle

LEMMA DueRun ==
  ASSUME PlanInv, TypeInv', DueInv, Overdue \/ HandleTarget
  PROVE  DueInv'
  <1>1. CASE Overdue
    <2>1. PICK i \in Soonest : items[i].at <= now /\ Handle(i, items[i].at, items[i].skip, FALSE)
      BY <1>1 DEF Overdue
    <2>2. i \in Ids /\ i \in DOMAIN items /\ items[i].at \in Nat
      BY DueTypes DEF Soonest, PlanInv, TypeInv, TypeOK
    <2>3. i \in Cron => \A d \in Time : fires[i][d] > 0 => d < items[i].at
      BY <2>2 DEF DueInv, Fires, CronFired
    <2>4. pc = "top" /\ UNCHANGED <<now, crashes, store, minted, torn>>
      BY <1>1 DEF Overdue
    <2> QED BY <2>1, <2>2, <2>3, <2>4, DueHandle
  <1>2. CASE HandleTarget
    <2> DEFINE skip == IF target.stale THEN target.skip ELSE items[target.id].skip
    <2>1. pc = "due" /\ UNCHANGED <<now, crashes, store, minted, torn>>
          /\ Handle(target.id, target.at, skip, target.stale)
      BY <1>2 DEF HandleTarget
    <2>2. target # None
      BY <2>1 DEF PlanInv, TypeInv, TypeOK
    <2>3. target.id \in Ids /\ target.stale \in BOOLEAN /\ target.at \in Nat /\ target.id \in Aimed
      BY <2>2, DueTypes DEF PlanInv, Aimed
    <2>4. target.at <= now
      BY <2>1 DEF PlanInv, LoopInv, TimerIsPast
    <2>5. target.id \in Cron => \A d \in Time : fires[target.id][d] > 0 => d < target.at
      BY <2>3 DEF DueInv, Fires, CronFired
    <2>6. target.id \in Cron /\ target.stale /\ target.id \in DOMAIN items => target.at < items[target.id].at
      BY <2>1 DEF DueInv, StaleTarget
    <2> QED BY <2>1, <2>3, <2>4, <2>5, <2>6, DueHandle
  <1> QED BY <1>1, <1>2

LEMMA DueCatchUp ==
  ASSUME PlanInv, TypeInv', DueInv, NEW i \in Ids, CatchUp(i)
  PROVE  DueInv'
  <1>1. /\ pc = "catchup" /\ i \in todo /\ i \in DOMAIN items
        /\ UNCHANGED <<now, wake, target, store, minted, torn>>
    BY DEF CatchUp, PlanInv, FileInv, StartsAlone
  <1>2. target = None /\ Aimed = {} /\ Aimed' = {}
    BY <1>1 DEF DueInv, StaleTarget, Aimed
  <1>3. now \in Nat /\ now <= now
    BY DueTypes DEF PlanInv
  <1>4. CASE Skip /\ UNCHANGED <<items, lock, pc>>
    BY <1>1, <1>3, <1>4, DueQuiet DEF Skip
  <1>5. CASE /\ i \in Once /\ items[i].at <= now /\ (Fire(i, items[i].at) \/ Skip)
             /\ StartConsume(i) /\ pc' = "drop"
    BY <1>1, <1>5, DueConsume DEF Skip
  <1>6. CASE /\ i \notin Once /\ trigger_state[i].last < PrevFire(i, now) /\ Fire(i, PrevFire(i, now))
             /\ UNCHANGED <<items, lock, pc>>
    <2> DEFINE prev == PrevFire(i, now)
    <2>1. i \in Cron /\ i \in Known
      BY <1>1, <1>6 DEF Ids, Known
    <2>2. prev \in Nat /\ prev <= now
      BY <1>3, <2>1, NextFireLater
    <2>3. \A d \in Time : fires[i][d] > 0 => d < prev
      <3>1. \A d \in Time : fires[i][d] > 0 => d <= trigger_state[i].last
        BY <2>1 DEF DueInv, Fires, CronFired
      <3>2. trigger_state[i].last \in Int /\ trigger_state[i].last < prev /\ Time \subseteq Nat
        BY <1>6, DueTypes DEF PlanInv
      <3> QED BY <2>2, <3>1, <3>2
    <2>4. \A j \in Cron \cap DOMAIN items' : now < items'[j].at
      BY <1>1, <1>6 DEF DueInv, BootIsNow
    <2>5. Removing' = Removing
      BY <1>6, LockSame
    <2>6. Live' \subseteq Live
      BY <1>1, <1>2, <1>6, <2>5 DEF Live
    <2>7. Fires'
      BY <1>1, <1>2, <1>6, <2>1, <2>2, <2>3, <2>4, <2>6, CronFires DEF DueInv
    <2>8. StaleTarget' /\ BootIsNow'
      BY <1>1, <1>6 DEF DueInv, StaleTarget, BootIsNow
    <2> QED BY <2>7, <2>8 DEF DueInv
  <1>7. CASE i \in Once
    BY <1>4, <1>5, <1>7 DEF CatchUp, CatchUpOnce
  <1>8. CASE i \notin Once
    BY <1>4, <1>6, <1>8 DEF CatchUp, CatchUpCron
  <1> QED BY <1>7, <1>8

LEMMA DueAsk ==
  ASSUME PlanInv, TypeInv', DueInv, NEW c \in Clients, NEW op, NEW i \in Ids \cup {None}, NEW at \in Nat,
         op \in {"add", "remove", "enable", "disable", "clear"}, Ask(c, op, i, at),
         op = "add" => i \in Dynamic /\ i \notin minted /\ minted' = minted \cup {i},
         op # "add" => UNCHANGED minted
  PROVE  DueInv'
  <1> DEFINE r == [actor |-> c, op |-> op, id |-> i, at |-> at]
  <1>1. r \in Request /\ r.op = op /\ r.id = i /\ lock' = Append(lock, r)
    BY DEF Ask, Request
  <1>2. UNCHANGED <<now, store, items, wake, pc, target, torn, fires, trigger_state>>
    BY DEF Ask, planVars, history
  <1> HIDE DEF r
  <1>3. op = "add" => i \notin Adding /\ i \in Ids
    BY DynamicFacts DEF Adding, PlanInv, TypeInv, RequestsTyped
  <1>4. Adding' = (IF op = "add" THEN Adding \cup {i} ELSE Adding) /\ Removing' = Removing
    BY <1>1, <1>3, LockGrows DEF PlanInv, FileInv
  <1>5. Aimed' = Aimed /\ Live' = Live
    BY <1>2, <1>4 DEF Aimed, Live
  <1>6. minted \subseteq minted' /\ Adding' \subseteq Adding \cup (Ids \ minted)
    BY <1>3, <1>4
  <1>7. now <= now' /\ \A j \in Once : torn[j] <= torn'[j]
    BY <1>2, DueTypes DEF PlanInv
  <1>8. Fires'
    BY <1>2, <1>5, <1>6, <1>7, NothingFires DEF PlanInv, DueInv
  <1>9. StaleTarget' /\ BootIsNow'
    BY <1>2 DEF DueInv, StaleTarget, BootIsNow
  <1> QED BY <1>8, <1>9 DEF DueInv

LEMMA DueClient ==
  ASSUME PlanInv, TypeInv', DueInv, NEW c \in Clients, ClientStep(c)
  PROVE  DueInv'
  <1>0. now \in Nat /\ now <= now
    BY DueTypes DEF PlanInv
  <1>1. ASSUME NEW i \in Dynamic, AskAdd(c, i)
        PROVE  DueInv'
    <2>1. i \in Ids /\ i \notin minted /\ minted' = minted \cup {i}
      BY <1>1, DynamicFacts DEF AskAdd
    <2>2. \E at \in Nat : Ask(c, "add", i, at)
      <3>1. CASE i \in Once
        <4>1. Time \subseteq Nat
          BY CronConstants DEF Time
        <4> QED BY <1>1, <3>1, <4>1 DEF AskAdd
      <3>2. CASE i \notin Once
        <4>1. NextFire(i, now) \in Nat
          BY <1>0, <3>2, NextFireTyped DEF Dynamic, Cron
        <4> QED BY <1>1, <3>2, <4>1 DEF AskAdd
      <3> QED BY <3>1, <3>2
    <2> QED BY <2>1, <2>2, DueAsk
  <1>2. ASSUME NEW i \in Dynamic, NEW on \in BOOLEAN, AskRemove(c, i) \/ AskEnable(c, i, on)
        PROVE  DueInv'
    BY <1>2, DynamicFacts, DueAsk DEF AskRemove, AskEnable
  <1>3. CASE AskClear(c)
    BY <1>3, DueAsk DEF AskClear
  <1>4. ASSUME NEW i \in Static, NEW on \in BOOLEAN, EnableStatic(c, i, on)
        PROVE  DueInv'
    <2>1. items' = [items EXCEPT ![i] = [items[i] EXCEPT !.enabled = on]]
          /\ UNCHANGED <<now, store, minted, lock, target, pc, torn, fires, trigger_state>> /\ wake'
      BY <1>4 DEF EnableStatic, fileVars, history
    <2>2. \A m \in Item : [m EXCEPT !.enabled = on].at = m.at
      BY DEF Item
    <2>3. items \in [DOMAIN items -> Item]
      BY DEF PlanInv, TypeInv, TypeOK
    <2>4. DOMAIN items' = DOMAIN items /\ \A j \in DOMAIN items : items'[j].at = items[j].at
      BY <2>1, <2>2, <2>3
    <2> QED BY <1>0, <2>1, <2>4, DueQuiet
  <1>5. ASSUME NEW i \in Ids, FireNow(c, i)
        PROVE  DueInv'
    BY <1>0, <1>5, DueQuiet DEF FireNow, planVars, fileVars, history
  <1> QED BY <1>1, <1>2, <1>3, <1>4, <1>5 DEF ClientStep

LEMMA DueUninstall ==
  ASSUME PlanInv, TypeInv', DueInv, NEW op \in {"remove", "disable", "clear"}, NEW G,
         Unlock(op), Uninstall(G),
         UNCHANGED <<now, pc, minted, torn, fires, trigger_state>>, wake => wake',
         ~ wake' /\ pc = "sleep" => G \cap DOMAIN items = {},
         DOMAIN store' \subseteq DOMAIN store
  PROVE  DueInv'
  <1>1. Adding' = Adding /\ Removing' = Removing
    BY LockShrinks DEF PlanInv, FileInv
  <1>2. /\ DOMAIN items' = DOMAIN items \ G
        /\ \A j \in DOMAIN items' : j \in DOMAIN items /\ items'[j] = items[j]
    BY UninstallFacts DEF PlanInv, TypeInv
  <1>3. /\ target # None <=> target' # None
        /\ target # None => target'.id = target.id /\ target'.at = target.at
        /\ target # None => (target'.stale <=> target.stale \/ target.id \in G \cap DOMAIN items)
    BY KeepFacts DEF Uninstall, PlanInv, TypeInv
  <1>4. Aimed' = Aimed /\ \A i \in Aimed : target'.at = target.at
    BY <1>3 DEF Aimed
  <1>5. Live' \subseteq Live
    BY <1>1, <1>2, <1>4 DEF Live
  <1>6. now <= now' /\ \A j \in Once : torn[j] <= torn'[j]
    BY DueTypes DEF PlanInv
  <1>7. Fires'
    BY <1>1, <1>2, <1>4, <1>5, <1>6, NothingFires DEF PlanInv, DueInv
  <1>8. StaleTarget'
    <2>1. target' # None => pc' \in {"sleep", "due"}
      BY <1>3 DEF DueInv, StaleTarget
    <2>2. pc' \in {"sleep", "due"} => target # None
      BY DEF PlanInv, TypeInv, TypeOK
    <2>3. pc' = "sleep" /\ target'.stale => wake'
      BY <1>3, <2>2 DEF DueInv, StaleTarget
    <2>4. pc' = "due" /\ target'.stale /\ target'.id \in Cron \cap DOMAIN items' =>
             target'.at < items'[target'.id].at
      BY <1>2, <1>3, <2>2 DEF DueInv, StaleTarget
    <2> QED BY <2>1, <2>3, <2>4 DEF StaleTarget
  <1>9. BootIsNow'
    BY <1>2 DEF DueInv, BootIsNow
  <1> QED BY <1>7, <1>8, <1>9 DEF DueInv

LEMMA DueAdd ==
  ASSUME PlanInv, TypeInv', DueInv, Add
  PROVE  DueInv'
  <1> DEFINE i == Asked.id
  <1> HIDE DEF i
  <1>1. UNCHANGED <<now, pc, target, minted, torn, trigger_state, fires>> /\ wake' = TRUE
    BY AddFacts DEF i
  <1>2. Adding' = Adding \ {i} /\ Removing' = Removing /\ i \in Adding
    BY AddFacts DEF i
  <1>3. i \in Dynamic /\ i \notin Known
    BY AddFacts DEF i
  <1>4. DOMAIN store' = DOMAIN store \cup {i}
    BY AddFacts DEF i
  <1>5. DOMAIN items' = DOMAIN items \cup {i} /\ \A j \in DOMAIN items : items'[j] = items[j]
    BY AddFacts DEF i
  <1>6. pc \notin {"catchup", "drop"}
    BY AddFacts DEF i
  <1>7. i \in NeverFired
    BY <1>2, <1>3 DEF DueInv, Fires, NewIsUnfired
  <1>8. Aimed' = Aimed
    BY <1>1 DEF Aimed
  <1>9. Live' \subseteq Live \cup {i}
    BY <1>2, <1>4, <1>5, <1>8 DEF Live
  <1>10. now <= now' /\ \A j \in Once : torn[j] <= torn'[j]
    BY <1>1, DueTypes DEF PlanInv
  <1>11. \A j \in Cron \cap DOMAIN items' : \/ j \in DOMAIN items /\ items'[j].at = items[j].at
                                            \/ j \in NeverFired
    BY <1>5, <1>7
  <1>12. \A j \in Once \cap Live' : j \in Live \/ j \in NeverFired
    BY <1>7, <1>9
  <1>13. Fires'
    BY <1>1, <1>2, <1>8, <1>10, <1>11, <1>12, NothingFires DEF PlanInv, DueInv
  <1>14. StaleTarget'
    <2>1. target # None => target.id # i
      BY <1>3 DEF Known, Aimed
    <2>2. pc = "due" => target # None
      BY DEF PlanInv, TypeInv, TypeOK
    <2> QED BY <1>1, <1>5, <2>1, <2>2 DEF DueInv, StaleTarget
  <1>15. BootIsNow'
    BY <1>1, <1>6 DEF BootIsNow
  <1> QED BY <1>13, <1>14, <1>15 DEF DueInv

LEMMA DueEnable ==
  ASSUME PlanInv, TypeInv', DueInv, Enable
  PROVE  DueInv'
  <1> DEFINE i == Asked.id
  <1> HIDE DEF i
  <1>1. UNCHANGED <<now, pc, target, minted, trigger_state, fires>> /\ wake' = TRUE
    BY EnableFacts DEF i
  <1>2. Adding' = Adding /\ Removing' = Removing /\ i \in Dynamic /\ i \in DOMAIN store
    BY EnableFacts DEF i
  <1>3. DOMAIN store' = DOMAIN store
    BY EnableFacts DEF i
  <1>4. /\ DOMAIN items' = DOMAIN items \cup {i}
        /\ \A j \in DOMAIN items : items'[j].at = items[j].at
        /\ i \in Cron \ DOMAIN items => items'[i].at = NextFire(i, now)
    BY EnableFacts DEF i
  <1>5. /\ \A j \in Once : torn[j] \in Nat /\ torn'[j] \in Nat /\ torn'[j] >= torn[j]
        /\ i \in Removing => torn'[i] > torn[i]
    BY EnableFacts DEF i
  <1>6. pc \notin {"catchup", "drop"}
    BY EnableFacts DEF i
  <1>7. Aimed' = Aimed
    BY <1>1 DEF Aimed
  <1>8. now \in Nat /\ now <= now' /\ \A j \in Once : torn[j] <= torn'[j]
    BY <1>1, <1>5, DueTypes DEF PlanInv
  <1>9. i \in Cron \ DOMAIN items => now < items'[i].at /\ items'[i].at \in Nat
    BY <1>4, <1>8, NextFireLater
  <1>10. \A j \in Cron \cap DOMAIN items' : \/ j \in DOMAIN items /\ items'[j].at = items[j].at
                                            \/ now < items'[j].at
    BY <1>4, <1>9
  <1>11. \A j \in Once \cap Live' : j \in Live \/ torn[j] < torn'[j]
    <2>1. i \in Live \/ i \in Removing
      BY <1>2 DEF Live
    <2>2. Live' \subseteq Live \cup {i}
      BY <1>2, <1>3, <1>4, <1>7 DEF Live
    <2>3. i \in Once \cap Removing => torn[i] < torn'[i]
      BY <1>5
    <2> QED BY <2>1, <2>2, <2>3
  <1>12. Fires'
    BY <1>1, <1>2, <1>7, <1>8, <1>10, <1>11, NothingFires DEF PlanInv, DueInv
  <1>13. StaleTarget'
    <2> SUFFICES ASSUME pc = "due", target.stale, target.id \in Cron \cap DOMAIN items'
                 PROVE  target.at < items'[target.id].at
      BY <1>1 DEF DueInv, StaleTarget
    <2>1. target # None /\ target.at \in Nat /\ target.at <= now
      BY DueTypes DEF PlanInv, TypeInv, TypeOK, LoopInv, TimerIsPast
    <2>2. CASE target.id \in DOMAIN items
      BY <1>4, <2>2 DEF DueInv, StaleTarget
    <2>3. CASE target.id \notin DOMAIN items
      BY <1>4, <1>8, <1>9, <2>1, <2>3
    <2> QED BY <2>2, <2>3
  <1>14. BootIsNow'
    BY <1>1, <1>6 DEF BootIsNow
  <1> QED BY <1>12, <1>13, <1>14 DEF DueInv

LEMMA DueConsumed ==
  ASSUME PlanInv, TypeInv', DueInv, Consume
  PROVE  DueInv'
  <1> DEFINE i == Asked.id
  <1>1. /\ Unlock("consume") /\ UNCHANGED <<now, items, target, minted, torn, trigger_state, fires>>
        /\ store' = Without(store, {i}) /\ pc' = IF pc = "drop" THEN "catchup" ELSE "top"
    BY DEF Consume, history
  <1>2. Adding' = Adding /\ Removing' = {} /\ Removing = {i}
    BY <1>1, LockShrinks DEF PlanInv, FileInv
  <1> HIDE DEF i
  <1>3. pc \in {"drop", "consume"} /\ target = None /\ target' = None
    BY <1>1, <1>2 DEF PlanInv, FileInv, LoopWaits, DueInv, StaleTarget
  <1>4. DOMAIN store' = DOMAIN store \ {i}
    BY <1>1 DEF Without, Restrict
  <1>5. Aimed' = {}
    BY <1>3 DEF Aimed
  <1>6. Live' \subseteq Live
    BY <1>1, <1>2, <1>4, <1>5 DEF Live
  <1>7. now <= now' /\ \A j \in Once : torn[j] <= torn'[j]
    BY <1>1, DueTypes DEF PlanInv
  <1>8. Fires'
    BY <1>1, <1>2, <1>5, <1>6, <1>7, NothingFires DEF PlanInv, DueInv
  <1>9. StaleTarget' /\ BootIsNow'
    BY <1>1, <1>3 DEF DueInv, StaleTarget, BootIsNow
  <1> QED BY <1>8, <1>9 DEF DueInv

LEMMA DueLocked ==
  ASSUME PlanInv, TypeInv', DueInv, Locked
  PROVE  DueInv'
  <1>1. CASE Remove
    <2>1. /\ Unlock("remove") /\ Uninstall({Asked.id}) /\ store' = Without(store, {Asked.id})
          /\ wake' = (wake \/ Asked.id \in DOMAIN store)
          /\ UNCHANGED <<now, pc, minted, torn, fires, trigger_state>>
      BY <1>1 DEF Remove, history
    <2>2. DOMAIN store' \subseteq DOMAIN store
      BY <2>1 DEF Without, Restrict
    <2>3. Asked.id \in Dynamic
      BY <2>1, LockShrinks DEF PlanInv, FileInv, TypeInv, TypeOK
    <2>4. ~ wake' /\ pc = "sleep" => {Asked.id} \cap DOMAIN items = {}
      BY <2>1, <2>3 DEF PlanInv, LoopInv, LeftoverIsDue
    <2>5. wake => wake'
      BY <2>1
    <2> QED BY <2>1, <2>2, <2>4, <2>5, DueUninstall
  <1>2. CASE Disable
    <2>1. DOMAIN store' = DOMAIN store
      BY <1>2 DEF Disable
    <2> QED BY <1>2, <2>1, DueUninstall DEF Disable, history
  <1>3. CASE Clear
    <2>1. /\ Unlock("clear") /\ Uninstall(Dynamic) /\ store' = <<>> /\ wake' = (wake \/ store # <<>>)
          /\ UNCHANGED <<now, pc, minted, torn, fires, trigger_state>>
      BY <1>3 DEF Clear, history
    <2>2. DOMAIN store' = {}
      BY <2>1
    <2>3. ~ wake' /\ pc = "sleep" => Dynamic \cap DOMAIN items = {}
      <3> SUFFICES ASSUME ~ wake', pc = "sleep" PROVE Dynamic \cap DOMAIN items = {}
        OBVIOUS
      <3>1. store = <<>>
        BY <2>1
      <3>2. DOMAIN store = {}
        BY <3>1
      <3> QED BY <3>2 DEF PlanInv, LoopInv, LeftoverIsDue
    <2>4. wake => wake'
      BY <2>1
    <2> QED BY <2>1, <2>2, <2>3, <2>4, DueUninstall
  <1>4. CASE NoSuchTrigger
    <2>1. /\ Unlock(Asked.op) /\ Asked.op \in {"enable", "disable"}
          /\ UNCHANGED <<now, store, items, wake, pc, target, minted, torn, trigger_state, fires>>
      BY <1>4 DEF NoSuchTrigger, planVars, history
    <2>2. Adding' = Adding /\ Removing' = Removing
      BY <2>1, LockShrinks DEF PlanInv, FileInv
    <2>3. Aimed' = Aimed /\ Live' = Live
      BY <2>1, <2>2 DEF Aimed, Live
    <2>4. now <= now' /\ \A j \in Once : torn[j] <= torn'[j]
      BY <2>1, DueTypes DEF PlanInv
    <2>5. Fires'
      BY <2>1, <2>2, <2>3, <2>4, NothingFires DEF PlanInv, DueInv
    <2>6. StaleTarget' /\ BootIsNow'
      BY <2>1 DEF DueInv, StaleTarget, BootIsNow
    <2> QED BY <2>5, <2>6 DEF DueInv
  <1> QED BY <1>1, <1>2, <1>3, <1>4, DueAdd, DueEnable, DueConsumed DEF Locked

LEMMA DueStep == ~ SlowBoot /\ PlanInv /\ DueInv /\ [Next]_vars => DueInv'
  <1> SUFFICES ASSUME ~ SlowBoot, PlanInv, DueInv, [Next]_vars PROVE DueInv'
    OBVIOUS
  <1>0. TypeInv'
    BY TypeStep DEF PlanInv
  <1>a. now \in Nat /\ now <= now /\ now <= now + 1
    BY DueTypes DEF PlanInv
  <1>1. CASE Take \/ Unplanned \/ Tick \/ UNCHANGED vars
    BY <1>0, <1>1, <1>a, DueQuiet DEF Take, Unplanned, Tick, vars, planVars, fileVars, runVars, history
  <1>2. CASE Succeeded \/ Failed
    <2>1. UNCHANGED <<store, minted, lock, target, pc, torn, fires, now, wake>>
      BY <1>2 DEF Succeeded, Failed, fileVars, history
    <2>2. items' = items \/ \E n : items' = [items EXCEPT ![running] = [items[running] EXCEPT !.skip = n]]
      BY <1>2 DEF Succeeded, Failed
    <2>3. \A n : \A m \in Item : [m EXCEPT !.skip = n].at = m.at
      BY DEF Item
    <2>4. items \in [DOMAIN items -> Item]
      BY DEF PlanInv, TypeInv, TypeOK
    <2>5. DOMAIN items' = DOMAIN items /\ \A j \in DOMAIN items : items'[j].at = items[j].at
      <3>1. ASSUME NEW n, items' = [items EXCEPT ![running] = [items[running] EXCEPT !.skip = n]]
            PROVE  DOMAIN items' = DOMAIN items /\ \A j \in DOMAIN items : items'[j].at = items[j].at
        <4> DEFINE m == [items[running] EXCEPT !.skip = n]
        <4>1. running \in DOMAIN items => m.at = items[running].at
          BY <2>3, <2>4
        <4>2. items' = [items EXCEPT ![running] = m]
          BY <3>1
        <4> HIDE DEF m
        <4> QED BY <2>4, <4>1, <4>2
      <3> QED BY <2>2, <3>1
    <2>6. \A j \in Ids : trigger_state'[j].last = trigger_state[j].last
      <3> DEFINE S == [last : Time \cup {Never}, failures : 0..MaxFailures]
      <3>1. PICK n : trigger_state' =
                       [trigger_state EXCEPT ![running] = [trigger_state[running] EXCEPT !.failures = n]]
        BY <1>2 DEF Succeeded, Failed
      <3>2. \A k : \A r \in S : [r EXCEPT !.failures = k].last = r.last
        OBVIOUS
      <3>3. trigger_state \in [Ids -> S]
        BY DEF PlanInv, TypeInv, TypeOK
      <3> HIDE DEF S
      <3> QED BY <3>1, <3>2, <3>3
    <2> QED BY <1>0, <1>a, <2>1, <2>5, <2>6, DueQuiet
  <1>3. CASE Boot
    BY <1>0, <1>3, DueBoot
  <1>4. CASE Serve \/ Idle \/ Sleep \/ WakeUp \/ TimerFires
    BY <1>0, <1>4, DueLoopMoves
  <1>5. CASE Overdue \/ HandleTarget
    BY <1>0, <1>5, DueRun
  <1>6. CASE \E i \in Ids : CatchUp(i)
    BY <1>0, <1>6, DueCatchUp
  <1>7. CASE Locked
    BY <1>0, <1>7, DueLocked
  <1>8. CASE \E c \in Clients : ClientStep(c)
    BY <1>0, <1>8, DueClient
  <1>9. CASE Crash
    <2>1. Die /\ UNCHANGED <<now, store, minted, trigger_state, fires>>
      BY <1>9 DEF Crash
    <2>2. torn' = [i \in Once |-> IF Consuming(i) THEN torn[i] + 1 ELSE torn[i]]
      BY <1>9 DEF Crash
    <2>3. \A i \in Removing : Consuming(i) /\ i \in Once
      BY DEF Removing, Consuming, PlanInv, TypeInv, RequestsTyped
    <2>4. \A i \in Once : torn[i] \in Nat
      BY DueTypes DEF PlanInv
    <2>5. \A i \in Once : torn'[i] = torn[i] \/ torn'[i] = torn[i] + 1
      BY <2>2
    <2>6. \A i \in Removing : torn'[i] = torn[i] + 1
      BY <2>2, <2>3
    <2>7. \A i \in Once : torn[i] <= torn'[i]
      BY <2>4, <2>5
    <2>8. \A i \in Removing : torn[i] < torn'[i]
      BY <2>3, <2>4, <2>6
    <2> QED BY <1>0, <2>1, <2>7, <2>8, DueDie
  <1> QED BY <1>1, <1>2, <1>3, <1>4, <1>5, <1>6, <1>7, <1>8, <1>9 DEF Next, Run

(* No due instant of a trigger is fired twice, across requests, crashes    *)
(* and catch-up, if the clock stands still while the worker starts; a      *)
(* one-shot is once more for each removal from the file that was undone.   *)
THEOREM FiredOncePerDue == ~ SlowBoot /\ Spec => []OncePerDue
  <1>1. SUFFICES ASSUME ~ SlowBoot PROVE Spec => []OncePerDue
    OBVIOUS
  <1>2. Init => PlanInv /\ DueInv
    BY PlanInit, DueInit
  <1>3. PlanInv /\ DueInv /\ [Next]_vars => (PlanInv /\ DueInv)'
    BY <1>1, PlanStep, DueStep
  <1>4. PlanInv /\ DueInv => OncePerDue
    <2> SUFFICES ASSUME PlanInv, DueInv, NEW i \in Ids, NEW d \in Time
                 PROVE  fires[i][d] <= 1 + (IF i \in Once THEN torn[i] ELSE 0)
      BY DEF OncePerDue
    <2>1. CASE i \in Once
      <3>1. fires[i][d] <= torn[i] + 1 /\ torn[i] \in Nat
        BY <2>1, DueTypes DEF DueInv, Fires, OneShotFired, PlanInv
      <3>2. torn[i] + 1 = 1 + torn[i]
        BY <3>1
      <3> QED BY <2>1, <3>1, <3>2
    <2>2. CASE i \notin Once
      <3>1. i \in Cron
        BY <2>2 DEF Ids
      <3>2. fires[i][d] <= 1
        BY <3>1 DEF DueInv, Fires, CronFired
      <3> QED BY <2>2, <3>2
    <2> QED BY <2>1, <2>2
  <1> QED BY <1>2, <1>3, <1>4, PTL DEF Spec

-----------------------------------------------------------------------------
(* The abstract schedule.  Every step answers a due instant, undoes a       *)
(* removal, lets time pass, or does nothing that TriggerSchedule sees.      *)

OnBeat(i, d) == d % Period[i] = 0

\* d is an instant that plan, loop, file or a waiting request have for i.
Meant(i, d) ==
    \/ i \in DOMAIN items /\ items[i].at = d
    \/ i \in Aimed /\ target.at = d
    \/ i \in DOMAIN store /\ store[i].at = d
    \/ \E k \in DOMAIN lock : lock[k].op = "add" /\ lock[k].id = i /\ lock[k].at = d

\* Recurring triggers are meant for their beats; a one-shot for one instant,
\* the one it fired for if it did.
MeantCron == \A i \in Cron, d \in Nat : Meant(i, d) => OnBeat(i, d)
MeantOnce == \A i \in Once, d, e \in Nat : Meant(i, d) /\ Meant(i, e) => d = e
MeantFired == \A i \in Once, d \in Time, e \in Nat : fires[i][d] > 0 /\ Meant(i, e) => d = e
MeantInv == MeantCron /\ MeantOnce /\ MeantFired

\* What a step may mean that was not meant before.
MeansOld == \A i \in Ids : \A d : Meant(i, d)' => Meant(i, d) \/ (i \in Cron /\ d = NextFire(i, now))
MeansNew(i, at) ==
    /\ \A j \in Ids : \A d : Meant(j, d)' => Meant(j, d) \/ (j = i /\ d = at)
    /\ i \in Once \ minted /\ i \in minted' /\ UNCHANGED fires

LEMMA BeatFacts ==
  ASSUME NEW i \in Cron, now \in Nat
  PROVE  OnBeat(i, NextFire(i, now)) /\ OnBeat(i, PrevFire(i, now))
  <1>1. Period[i] \in Nat \ {0}
    BY CronConstants
  <1>2. \A p \in Nat \ {0}, k \in Nat : (p * k) % p = 0
    BY SMT
  <1>3. \A p \in Nat \ {0}, n \in Nat : n \div p \in Nat
    BY SMT
  <1>4. now \div Period[i] \in Nat /\ (now \div Period[i]) + 1 \in Nat
    BY <1>1, <1>3
  <1> QED BY <1>1, <1>2, <1>4 DEF OnBeat, NextFire, PrevFire

\* Nothing is meant by parts that hold what was meant.
LEMMA MeansFrom ==
  ASSUME \A i \in DOMAIN items' :
            Meant(i, items'[i].at) \/ (i \in Cron /\ items'[i].at = NextFire(i, now)),
         \A i \in Aimed' : Meant(i, target'.at),
         \A i \in DOMAIN store' : Meant(i, store'[i].at),
         \A k \in DOMAIN lock' : lock'[k].op = "add" =>
            \/ Meant(lock'[k].id, lock'[k].at)
            \/ lock'[k].id \in Cron /\ lock'[k].at = NextFire(lock'[k].id, now)
  PROVE  MeansOld
  <1> SUFFICES ASSUME NEW i \in Ids, NEW d, Meant(i, d)'
               PROVE  Meant(i, d) \/ (i \in Cron /\ d = NextFire(i, now))
    BY DEF MeansOld
  <1>1. CASE i \in DOMAIN items' /\ items'[i].at = d
    BY <1>1
  <1>2. CASE i \in Aimed' /\ target'.at = d
    BY <1>2
  <1>3. CASE i \in DOMAIN store' /\ store'[i].at = d
    BY <1>3
  <1>4. CASE \E k \in DOMAIN lock' : lock'[k].op = "add" /\ lock'[k].id = i /\ lock'[k].at = d
    BY <1>4
  <1> QED BY <1>1, <1>2, <1>3, <1>4 DEF Meant

LEMMA MeantHere ==
  /\ \A i \in DOMAIN items : Meant(i, items[i].at)
  /\ \A i \in Aimed : Meant(i, target.at)
  /\ \A i \in DOMAIN store : Meant(i, store[i].at)
  /\ \A k \in DOMAIN lock : lock[k].op = "add" => Meant(lock[k].id, lock[k].at)
  BY DEF Meant

\* An unchanged or shorter lock, or a request that is no addition.
LEMMA LockMeans ==
  ASSUME TypeInv,
         \/ UNCHANGED lock
         \/ lock' = <<>>
         \/ \E op \in {"add", "remove", "enable", "disable", "clear", "consume"} : Unlock(op)
         \/ \E r \in Request : r.op # "add" /\ lock' = Append(lock, r)
  PROVE  \A k \in DOMAIN lock' : lock'[k].op = "add" => Meant(lock'[k].id, lock'[k].at)
  <1>0. lock \in Seq(Request)
    BY DEF TypeInv, TypeOK
  <1>1. CASE UNCHANGED lock
    BY <1>1, MeantHere
  <1>2. CASE lock' = <<>>
    BY <1>2
  <1>3. CASE \E op \in {"add", "remove", "enable", "disable", "clear", "consume"} : Unlock(op)
    <2>1. lock # <<>> /\ lock' = Tail(lock)
      BY <1>3 DEF Unlock
    <2>2. \A k \in DOMAIN lock' : k + 1 \in DOMAIN lock /\ lock'[k] = lock[k + 1]
      BY <1>0, <2>1, LockTail
    <2> QED BY <2>2, MeantHere
  <1>4. CASE \E r \in Request : r.op # "add" /\ lock' = Append(lock, r)
    <2>1. PICK r \in Request : r.op # "add" /\ lock' = Append(lock, r)
      BY <1>4
    <2>2. \A k \in DOMAIN lock' : (k \in DOMAIN lock /\ lock'[k] = lock[k]) \/ lock'[k] = r
      BY <1>0, <2>1, LockAppend
    <2> QED BY <2>1, <2>2, MeantHere
  <1> QED BY <1>1, <1>2, <1>3, <1>4

\* Only the counters of the plan change, or less.
LEMMA MeansQuiet ==
  ASSUME PlanInv, UNCHANGED <<store, lock, target>>,
         DOMAIN items' = DOMAIN items, \A i \in DOMAIN items : items'[i].at = items[i].at
  PROVE  MeansOld
  <1>1. Aimed' = Aimed
    BY DEF Aimed
  <1>2. \A k \in DOMAIN lock' : lock'[k].op = "add" => Meant(lock'[k].id, lock'[k].at)
    BY LockMeans DEF PlanInv
  <1> QED BY <1>1, <1>2, MeantHere, MeansFrom

LEMMA MeansLoopMoves ==
  ASSUME PlanInv, Serve \/ Idle \/ Sleep \/ WakeUp \/ TimerFires
  PROVE  MeansOld
  <1>1. UNCHANGED <<store, lock, items>>
    BY DEF Serve, Idle, Sleep, WakeUp, TimerFires, fileVars
  <1>2. \/ target' = target
        \/ target' = None
        \/ target'.id \in DOMAIN items /\ target'.at = items[target'.id].at
    BY DEF Serve, Idle, Sleep, WakeUp, TimerFires, Soonest
  <1>3. \A i \in Aimed' : Meant(i, target'.at)
    <2>1. CASE target' = target
      <3>1. Aimed' = Aimed
        BY <2>1 DEF Aimed
      <3> QED BY <2>1, <3>1, MeantHere
    <2>2. CASE target' = None
      BY <2>2 DEF Aimed
    <2>3. CASE target'.id \in DOMAIN items /\ target'.at = items[target'.id].at
      BY <2>3, MeantHere DEF Aimed
    <2> QED BY <1>2, <2>1, <2>2, <2>3
  <1>4. \A k \in DOMAIN lock' : lock'[k].op = "add" => Meant(lock'[k].id, lock'[k].at)
    BY <1>1, LockMeans DEF PlanInv
  <1> QED BY <1>1, <1>3, <1>4, MeantHere, MeansFrom

LEMMA MeansBoot ==
  ASSUME PlanInv, Boot
  PROVE  MeansOld
  <1> DEFINE enabled == Static \cup {i \in DOMAIN store : store[i].enabled}
  <1>1. UNCHANGED <<store, lock, target>> /\ target = None
    BY DEF Boot, fileVars, PlanInv, FileInv, Down
  <1>2. DOMAIN items' = enabled
        /\ \A i \in enabled : items'[i].at = IF i \in Once THEN store[i].at ELSE NextFire(i, now)
    BY DEF Boot, Planned
  <1>3. \A i \in enabled : i \in Once => i \in DOMAIN store
    BY CronConstants DEF Dynamic
  <1>4. \A i \in enabled : i \in Cron \/ i \in Once
    BY DEF PlanInv, TypeInv, TypeOK, Cron, Dynamic
  <1>5. Aimed' = {}
    BY <1>1 DEF Aimed
  <1>6. \A k \in DOMAIN lock' : lock'[k].op = "add" => Meant(lock'[k].id, lock'[k].at)
    BY <1>1, LockMeans DEF PlanInv
  <1>7. \A i \in DOMAIN items' :
            Meant(i, items'[i].at) \/ (i \in Cron /\ items'[i].at = NextFire(i, now))
    <2> HIDE DEF enabled
    <2> SUFFICES ASSUME NEW i \in enabled
                 PROVE  Meant(i, items'[i].at) \/ (i \in Cron /\ items'[i].at = NextFire(i, now))
      BY <1>2
    <2>1. CASE i \in Once
      BY <1>2, <1>3, <2>1, MeantHere
    <2>2. CASE i \notin Once
      BY <1>2, <1>4, <2>2
    <2> QED BY <2>1, <2>2
  <1> QED BY <1>1, <1>5, <1>6, <1>7, MeantHere, MeansFrom

LEMMA MeansDie ==
  ASSUME PlanInv, Die, UNCHANGED store
  PROVE  MeansOld
  <1>1. DOMAIN items' = {} /\ lock' = <<>> /\ Aimed' = {}
    BY DEF Die, Aimed
  <1>2. \A k \in DOMAIN lock' : lock'[k].op = "add" => Meant(lock'[k].id, lock'[k].at)
    BY <1>1, LockMeans DEF PlanInv
  <1> QED BY <1>1, <1>2, MeantHere, MeansFrom

LEMMA MeansConsume ==
  ASSUME PlanInv, NEW i \in Once, StartConsume(i), UNCHANGED store,
         target' = None \/ target' = target
  PROVE  MeansOld
  <1> DEFINE r == [actor |-> Loop, op |-> "consume", id |-> i, at |-> 0]
  <1>1. r \in Request /\ r.op # "add" /\ lock' = Append(lock, r)
    BY DynamicFacts DEF StartConsume, Request
  <1>2. \A k \in DOMAIN lock' : lock'[k].op = "add" => Meant(lock'[k].id, lock'[k].at)
    BY <1>1, LockMeans DEF PlanInv
  <1>3. \A j \in DOMAIN items' : j \in DOMAIN items /\ items'[j] = items[j]
    BY ItemsFewer DEF StartConsume, PlanInv, TypeInv
  <1>4. \A j \in Aimed' : j \in Aimed /\ target' = target
    BY DEF Aimed
  <1> QED BY <1>2, <1>3, <1>4, MeantHere, MeansFrom

LEMMA MeansAdvance ==
  ASSUME PlanInv, NEW i \in Cron, NEW skip, NEW stale \in BOOLEAN,
         ~ stale /\ i \in DOMAIN items => skip \in Nat, Advance(i, skip, stale),
         target' = None, UNCHANGED <<store, lock>>
  PROVE  MeansOld
  <1>1. DOMAIN items' = DOMAIN items /\ \A j \in DOMAIN items : j # i => items'[j] = items[j]
    BY AdvanceFacts DEF PlanInv, TypeInv
  <1>2. i \in DOMAIN items => items'[i].at = items[i].at \/ items'[i].at = NextFire(i, now)
    <2>1. CASE stale
      BY <2>1 DEF Advance
    <2>2. CASE ~ stale /\ i \in DOMAIN items
      <3> DEFINE m == [items[i] EXCEPT !.at = NextFire(i, now), !.skip = skip]
      <3>1. items[i] \in Item /\ m.at = NextFire(i, now)
        BY <2>2 DEF PlanInv, TypeInv, TypeOK, Item
      <3>2. items' = [items EXCEPT ![i] = m]
        BY <2>2 DEF Advance
      <3> HIDE DEF m
      <3> QED BY <2>2, <3>1, <3>2 DEF PlanInv, TypeInv, TypeOK
    <2> QED BY <2>1, <2>2
  <1>3. Aimed' = {}
    BY DEF Aimed
  <1>4. \A k \in DOMAIN lock' : lock'[k].op = "add" => Meant(lock'[k].id, lock'[k].at)
    BY LockMeans DEF PlanInv
  <1> QED BY <1>1, <1>2, <1>3, <1>4, MeantHere, MeansFrom

LEMMA MeansHandle ==
  ASSUME PlanInv, NEW i \in Ids, NEW due, NEW skip, NEW stale \in BOOLEAN,
         ~ stale /\ i \in DOMAIN items => skip \in Nat,
         Handle(i, due, skip, stale), UNCHANGED store
  PROVE  MeansOld
  <1>1. CASE Die
    BY <1>1, MeansDie
  <1>2. CASE skip > 0 /\ i \in Cron /\ Advance(i, skip - 1, stale) /\ target' = None /\ UNCHANGED lock
    <2>1. ~ stale /\ i \in DOMAIN items => skip - 1 \in Nat
      BY <1>2
    <2> QED BY <1>2, <2>1, MeansAdvance
  <1>3. CASE i \in Cron /\ Advance(i, 0, stale) /\ target' = None /\ UNCHANGED lock
    BY <1>3, MeansAdvance
  <1>4. CASE i \in Once /\ StartConsume(i) /\ target' = None
    BY <1>4, MeansConsume
  <1> QED BY <1>1, <1>2, <1>3, <1>4 DEF Handle

LEMMA MeansRun ==
  ASSUME PlanInv, Overdue \/ HandleTarget
  PROVE  MeansOld
  <1>1. CASE Overdue
    <2>1. PICK i \in Soonest : Handle(i, items[i].at, items[i].skip, FALSE)
      BY <1>1 DEF Overdue
    <2>2. i \in Ids /\ items[i].skip \in Nat
      BY DEF Soonest, PlanInv, TypeInv, TypeOK, Item
    <2> QED BY <1>1, <2>1, <2>2, MeansHandle DEF Overdue
  <1>2. CASE HandleTarget
    <2> DEFINE skip == IF target.stale THEN target.skip ELSE items[target.id].skip
    <2>1. Handle(target.id, target.at, skip, target.stale) /\ pc = "due" /\ UNCHANGED store
      BY <1>2 DEF HandleTarget
    <2>2. target.id \in Ids /\ target.stale \in BOOLEAN
      BY <2>1, DueTypes DEF PlanInv, TypeInv, TypeOK
    <2>3. ~ target.stale /\ target.id \in DOMAIN items => skip \in Nat
      BY DEF PlanInv, TypeInv, TypeOK, Item
    <2> QED BY <2>1, <2>2, <2>3, MeansHandle
  <1> QED BY <1>1, <1>2

LEMMA MeansCatchUp ==
  ASSUME PlanInv, NEW i \in Ids, CatchUp(i)
  PROVE  MeansOld
  <1>1. UNCHANGED <<store, target>>
    BY DEF CatchUp
  <1>2. CASE UNCHANGED <<items, lock>>
    BY <1>1, <1>2, MeansQuiet
  <1>3. CASE i \in Once /\ StartConsume(i)
    BY <1>1, <1>3, MeansConsume
  <1> QED BY <1>2, <1>3 DEF CatchUp, CatchUpOnce, CatchUpCron

LEMMA MeansAsk ==
  ASSUME PlanInv, NEW c \in Clients, NEW op, NEW i \in Ids \cup {None}, NEW at \in Nat,
         op \in {"add", "remove", "enable", "disable", "clear"}, Ask(c, op, i, at),
         op = "add" => i \in Dynamic /\ i \notin minted /\ minted' = minted \cup {i},
         op = "add" /\ i \notin Once => at = NextFire(i, now)
  PROVE  MeansOld \/ (i \in Once /\ MeansNew(i, at))
  <1> DEFINE r == [actor |-> c, op |-> op, id |-> i, at |-> at]
  <1>1. r \in Request /\ r.op = op /\ r.id = i /\ r.at = at /\ lock' = Append(lock, r)
    BY DEF Ask, Request
  <1>2. UNCHANGED <<store, items, target, fires>> /\ Aimed' = Aimed
    BY DEF Ask, planVars, history, Aimed
  <1> HIDE DEF r
  <1>3. \A k \in DOMAIN lock' : (k \in DOMAIN lock /\ lock'[k] = lock[k]) \/ lock'[k] = r
    BY <1>1, LockAppend DEF PlanInv, TypeInv, TypeOK
  <1>4. CASE op = "add" /\ i \in Once
    <2>1. \A j \in Ids : \A d : Meant(j, d)' => Meant(j, d) \/ (j = i /\ d = at)
      BY <1>1, <1>2, <1>3 DEF Meant
    <2> QED BY <1>2, <1>4, <2>1 DEF MeansNew
  <1>5. CASE op = "add" /\ i \notin Once
    <2>1. i \in Cron
      BY <1>5 DEF Dynamic, Cron
    <2>2. \A k \in DOMAIN lock' : lock'[k].op = "add" =>
            \/ Meant(lock'[k].id, lock'[k].at)
            \/ lock'[k].id \in Cron /\ lock'[k].at = NextFire(lock'[k].id, now)
      BY <1>1, <1>3, <1>5, <2>1, MeantHere
    <2> QED BY <1>2, <2>2, MeantHere, MeansFrom
  <1>6. CASE op # "add"
    <2>1. \A k \in DOMAIN lock' : lock'[k].op = "add" => Meant(lock'[k].id, lock'[k].at)
      BY <1>1, <1>3, <1>6, MeantHere
    <2> QED BY <1>2, <2>1, MeantHere, MeansFrom
  <1> QED BY <1>4, <1>5, <1>6

LEMMA MeansClient ==
  ASSUME PlanInv, NEW c \in Clients, ClientStep(c)
  PROVE  MeansOld \/ \E i \in Once, at \in Nat : MeansNew(i, at)
  <1>0. now \in Nat
    BY DueTypes DEF PlanInv
  <1>1. ASSUME NEW i \in Dynamic, AskAdd(c, i)
        PROVE  MeansOld \/ \E j \in Once, at \in Nat : MeansNew(j, at)
    <2>1. i \in Ids /\ i \notin minted /\ minted' = minted \cup {i}
      BY <1>1, DynamicFacts DEF AskAdd
    <2>2. \E at \in Nat : Ask(c, "add", i, at) /\ (i \notin Once => at = NextFire(i, now))
      <3>1. CASE i \in Once
        <4>1. Time \subseteq Nat
          BY CronConstants DEF Time
        <4> QED BY <1>1, <3>1, <4>1 DEF AskAdd
      <3>2. CASE i \notin Once
        <4>1. NextFire(i, now) \in Nat
          BY <1>0, <3>2, NextFireTyped DEF Dynamic, Cron
        <4> QED BY <1>1, <3>2, <4>1 DEF AskAdd
      <3> QED BY <3>1, <3>2
    <2> QED BY <2>1, <2>2, MeansAsk
  <1>2. ASSUME NEW i \in Dynamic, NEW on \in BOOLEAN, AskRemove(c, i) \/ AskEnable(c, i, on)
        PROVE  MeansOld \/ \E j \in Once, at \in Nat : MeansNew(j, at)
    BY <1>2, DynamicFacts, MeansAsk DEF AskRemove, AskEnable
  <1>3. CASE AskClear(c)
    BY <1>3, MeansAsk DEF AskClear
  <1>4. ASSUME NEW i \in Static, NEW on \in BOOLEAN, EnableStatic(c, i, on)
        PROVE  MeansOld
    <2>1. items' = [items EXCEPT ![i] = [items[i] EXCEPT !.enabled = on]]
          /\ UNCHANGED <<store, lock, target>>
      BY <1>4 DEF EnableStatic, fileVars
    <2>2. \A m \in Item : [m EXCEPT !.enabled = on].at = m.at
      BY DEF Item
    <2>3. items \in [DOMAIN items -> Item]
      BY DEF PlanInv, TypeInv, TypeOK
    <2>4. DOMAIN items' = DOMAIN items /\ \A j \in DOMAIN items : items'[j].at = items[j].at
      BY <2>1, <2>2, <2>3
    <2> QED BY <2>1, <2>4, MeansQuiet
  <1>5. ASSUME NEW i \in Ids, FireNow(c, i)
        PROVE  MeansOld
    BY <1>5, MeansQuiet DEF FireNow, planVars, fileVars
  <1> QED BY <1>1, <1>2, <1>3, <1>4, <1>5 DEF ClientStep

LEMMA MeansUninstall ==
  ASSUME PlanInv, NEW op \in {"remove", "disable", "clear"}, NEW G, Unlock(op), Uninstall(G),
         \A i \in DOMAIN store' : i \in DOMAIN store /\ store'[i].at = store[i].at
  PROVE  MeansOld
  <1>1. \A k \in DOMAIN lock' : lock'[k].op = "add" => Meant(lock'[k].id, lock'[k].at)
    BY LockMeans DEF PlanInv
  <1>2. \A j \in DOMAIN items' : j \in DOMAIN items /\ items'[j] = items[j]
    BY ItemsFewer DEF Uninstall, PlanInv, TypeInv
  <1>3. /\ target # None <=> target' # None
        /\ target # None => target'.id = target.id /\ target'.at = target.at
    BY KeepFacts DEF Uninstall, PlanInv, TypeInv
  <1>4. \A i \in Aimed' : i \in Aimed /\ target'.at = target.at
    BY <1>3 DEF Aimed
  <1> QED BY <1>1, <1>2, <1>4, MeantHere, MeansFrom

LEMMA MeansAdd ==
  ASSUME PlanInv, Add
  PROVE  MeansOld
  <1> DEFINE i == Asked.id
             at == Asked.at
  <1> HIDE DEF i, at
  <1>1. UNCHANGED target /\ Unlock("add")
    BY DEF Add
  <1>2. /\ DOMAIN store' = DOMAIN store \cup {i} /\ store'[i].at = at
        /\ \A j \in DOMAIN store : store'[j] = store[j]
        /\ DOMAIN items' = DOMAIN items \cup {i} /\ items'[i].at = at
        /\ \A j \in DOMAIN items : items'[j] = items[j]
    BY AddFacts DEF i, at
  <1>3. Meant(i, at)
    <2>1. 1 \in DOMAIN lock /\ Asked = lock[1] /\ Asked.op = "add"
      BY <1>1, LockTail DEF Unlock, Asked, PlanInv, TypeInv, TypeOK
    <2> QED BY <2>1 DEF Meant, i, at
  <1>4. \A k \in DOMAIN lock' : lock'[k].op = "add" => Meant(lock'[k].id, lock'[k].at)
    BY <1>1, LockMeans DEF PlanInv
  <1>5. Aimed' = Aimed
    BY <1>1 DEF Aimed
  <1>6. \A j \in DOMAIN items' : Meant(j, items'[j].at)
    BY <1>2, <1>3, MeantHere
  <1>7. \A j \in DOMAIN store' : Meant(j, store'[j].at)
    BY <1>2, <1>3, MeantHere
  <1> QED BY <1>1, <1>4, <1>5, <1>6, <1>7, MeantHere, MeansFrom

LEMMA MeansEnable ==
  ASSUME PlanInv, TypeInv', Enable
  PROVE  MeansOld
  <1> DEFINE i == Asked.id
  <1> HIDE DEF i
  <1>1. UNCHANGED target /\ Unlock("enable") /\ i \in DOMAIN store /\ i \in Dynamic
    BY EnableFacts DEF i
  <1>2. /\ DOMAIN store' = DOMAIN store
        /\ \A j \in DOMAIN store : store'[j].at = store[j].at
        /\ DOMAIN items' = DOMAIN items \cup {i}
        /\ \A j \in DOMAIN items : items'[j].at = items[j].at
        /\ i \in Once \ DOMAIN items => items'[i].at = store[i].at
        /\ i \in Cron \ DOMAIN items => items'[i].at = NextFire(i, now)
    BY EnableFacts DEF i
  <1>3. i \in Once \/ i \in Cron
    BY <1>1 DEF Dynamic, Cron
  <1>4. \A k \in DOMAIN lock' : lock'[k].op = "add" => Meant(lock'[k].id, lock'[k].at)
    BY <1>1, LockMeans DEF PlanInv
  <1>5. Aimed' = Aimed
    BY <1>1 DEF Aimed
  <1>6. \A j \in DOMAIN items' :
            Meant(j, items'[j].at) \/ (j \in Cron /\ items'[j].at = NextFire(j, now))
    <2>1. \A j \in DOMAIN items : Meant(j, items'[j].at)
      BY <1>2, MeantHere
    <2>2. i \notin DOMAIN items =>
            Meant(i, items'[i].at) \/ (i \in Cron /\ items'[i].at = NextFire(i, now))
      BY <1>1, <1>2, <1>3, MeantHere
    <2> QED BY <1>2, <2>1, <2>2
  <1>7. \A j \in DOMAIN store' : Meant(j, store'[j].at)
    BY <1>2, MeantHere
  <1> QED BY <1>1, <1>4, <1>5, <1>6, <1>7, MeantHere, MeansFrom

LEMMA MeansLocked ==
  ASSUME PlanInv, TypeInv', Locked
  PROVE  MeansOld
  <1>0. store \in [DOMAIN store -> Record]
    BY DEF PlanInv, TypeInv, TypeOK
  <1>1. \A G : /\ DOMAIN Without(store, G) = DOMAIN store \ G
               /\ \A i \in DOMAIN store \ G : Without(store, G)[i] = store[i]
    BY DEF Without, Restrict
  <1>2. CASE Remove
    <2>1. \A i \in DOMAIN store' : i \in DOMAIN store /\ store'[i].at = store[i].at
      BY <1>1, <1>2 DEF Remove
    <2> QED BY <1>2, <2>1, MeansUninstall DEF Remove
  <1>3. CASE Disable
    <2> DEFINE i == Asked.id
               r == [store[i] EXCEPT !.enabled = FALSE]
    <2>1. store' = [store EXCEPT ![i] = r] /\ i \in DOMAIN store
      BY <1>3 DEF Disable
    <2>2. r.at = store[i].at
      BY <1>0, <2>1 DEF Record
    <2> HIDE DEF r, i
    <2>3. \A j \in DOMAIN store' : j \in DOMAIN store /\ store'[j].at = store[j].at
      BY <1>0, <2>1, <2>2
    <2> QED BY <1>3, <2>3, MeansUninstall DEF Disable
  <1>4. CASE Clear
    <2>1. DOMAIN store' = {}
      BY <1>4 DEF Clear
    <2> QED BY <1>4, <2>1, MeansUninstall DEF Clear
  <1>5. CASE NoSuchTrigger
    <2>1. UNCHANGED <<store, items, target>> /\ Aimed' = Aimed
          /\ \E op \in {"enable", "disable"} : Unlock(op)
      BY <1>5 DEF NoSuchTrigger, planVars, Aimed
    <2>2. \A k \in DOMAIN lock' : lock'[k].op = "add" => Meant(lock'[k].id, lock'[k].at)
      BY <2>1, LockMeans DEF PlanInv
    <2> QED BY <2>1, <2>2, MeantHere, MeansFrom
  <1>6. CASE Consume
    <2>1. UNCHANGED <<items, target>> /\ Aimed' = Aimed /\ Unlock("consume")
      BY <1>6 DEF Consume, Aimed
    <2>2. \A i \in DOMAIN store' : i \in DOMAIN store /\ store'[i] = store[i]
      BY <1>1, <1>6 DEF Consume
    <2>3. \A k \in DOMAIN lock' : lock'[k].op = "add" => Meant(lock'[k].id, lock'[k].at)
      BY <2>1, LockMeans DEF PlanInv
    <2> QED BY <2>1, <2>2, <2>3, MeantHere, MeansFrom
  <1> QED BY <1>2, <1>3, <1>4, <1>5, <1>6, MeansAdd, MeansEnable DEF Locked

LEMMA MeansStep ==
  ASSUME PlanInv, TypeInv', [Next]_vars
  PROVE  MeansOld \/ \E i \in Once, at \in Nat : MeansNew(i, at)
  <1>1. CASE Take \/ Unplanned \/ Tick \/ UNCHANGED vars
    BY <1>1, MeansQuiet DEF Take, Unplanned, Tick, vars, planVars, fileVars
  <1>2. CASE Succeeded \/ Failed
    <2>1. UNCHANGED <<store, lock, target>>
      BY <1>2 DEF Succeeded, Failed, fileVars
    <2>2. items' = items \/ \E n : items' = [items EXCEPT ![running] = [items[running] EXCEPT !.skip = n]]
      BY <1>2 DEF Succeeded, Failed
    <2>3. \A n : \A m \in Item : [m EXCEPT !.skip = n].at = m.at
      BY DEF Item
    <2>4. items \in [DOMAIN items -> Item]
      BY DEF PlanInv, TypeInv, TypeOK
    <2>5. DOMAIN items' = DOMAIN items /\ \A j \in DOMAIN items : items'[j].at = items[j].at
      <3>1. ASSUME NEW n, items' = [items EXCEPT ![running] = [items[running] EXCEPT !.skip = n]]
            PROVE  DOMAIN items' = DOMAIN items /\ \A j \in DOMAIN items : items'[j].at = items[j].at
        <4> DEFINE m == [items[running] EXCEPT !.skip = n]
        <4>1. running \in DOMAIN items => m.at = items[running].at
          BY <2>3, <2>4
        <4>2. items' = [items EXCEPT ![running] = m]
          BY <3>1
        <4> HIDE DEF m
        <4> QED BY <2>4, <4>1, <4>2
      <3> QED BY <2>2, <3>1
    <2> QED BY <2>1, <2>5, MeansQuiet
  <1>3. CASE Crash
    BY <1>3, MeansDie DEF Crash
  <1> QED BY <1>1, <1>2, <1>3, MeansBoot, MeansLoopMoves, MeansRun, MeansCatchUp, MeansLocked,
             MeansClient DEF Next, Run

\* What a step is to the abstract schedule.
Answers(i, due) ==
    /\ due <= now /\ Fire(i, due) /\ UNCHANGED <<now, torn>>
    /\ i \in Cron => OnBeat(i, due) /\ \A d \in Time : fires[i][d] > 0 => d < due
    /\ i \in Once => i \in Live /\ Meant(i, due)
Undoes(S) ==
    /\ torn' = [j \in Once |-> IF j \in S THEN torn[j] + 1 ELSE torn[j]]
    /\ UNCHANGED <<now, fires>>
Passes  == now < now' /\ UNCHANGED <<fires, torn>>
Nothing == UNCHANGED <<now, fires, torn>>
Effect ==
    \/ \E i \in Ids, due \in Nat : Answers(i, due)
    \/ \E S \in SUBSET Once : Undoes(S)
    \/ Passes \/ Nothing

LEMMA EffectHandle ==
  ASSUME PlanInv, DueInv, MeantInv, NEW i \in Ids, i \in DOMAIN items \cup Aimed,
         NEW due \in Nat, due <= now, NEW skip, NEW stale, Meant(i, due),
         i \in Cron => \A d \in Time : fires[i][d] > 0 => d < due,
         Handle(i, due, skip, stale), UNCHANGED <<now, torn>>
  PROVE  Effect
  <1>1. CASE UNCHANGED fires
    BY <1>1 DEF Effect, Nothing
  <1>2. CASE Fire(i, due)
    <2>1. i \in Cron => OnBeat(i, due)
      BY DEF MeantInv, MeantCron
    <2>2. i \in Live
      BY DEF Live
    <2>3. Answers(i, due)
      BY <1>2, <2>1, <2>2 DEF Answers
    <2> QED BY <2>3 DEF Effect
  <1> QED BY <1>1, <1>2 DEF Handle

LEMMA EffectRun ==
  ASSUME PlanInv, DueInv, MeantInv, Overdue \/ HandleTarget
  PROVE  Effect
  <1>1. CASE Overdue
    <2>1. PICK i \in Soonest : items[i].at <= now /\ Handle(i, items[i].at, items[i].skip, FALSE)
      BY <1>1 DEF Overdue
    <2>2. i \in Ids /\ i \in DOMAIN items /\ items[i].at \in Nat
      BY DueTypes DEF Soonest, PlanInv, TypeInv, TypeOK
    <2>3. i \in Cron => \A d \in Time : fires[i][d] > 0 => d < items[i].at
      BY <2>2 DEF DueInv, Fires, CronFired
    <2>4. UNCHANGED <<now, torn>>
      BY <1>1 DEF Overdue
    <2> QED BY <2>1, <2>2, <2>3, <2>4, MeantHere, EffectHandle
  <1>2. CASE HandleTarget
    <2> DEFINE skip == IF target.stale THEN target.skip ELSE items[target.id].skip
    <2>1. pc = "due" /\ UNCHANGED <<now, torn>> /\ Handle(target.id, target.at, skip, target.stale)
      BY <1>2 DEF HandleTarget
    <2>2. target # None
      BY <2>1 DEF PlanInv, TypeInv, TypeOK
    <2>3. target.id \in Ids /\ target.at \in Nat /\ target.id \in Aimed
      BY <2>2, DueTypes DEF PlanInv, Aimed
    <2>4. target.at <= now
      BY <2>1 DEF PlanInv, LoopInv, TimerIsPast
    <2>5. target.id \in Cron => \A d \in Time : fires[target.id][d] > 0 => d < target.at
      BY <2>3 DEF DueInv, Fires, CronFired
    <2> QED BY <2>1, <2>3, <2>4, <2>5, MeantHere, EffectHandle
  <1> QED BY <1>1, <1>2

LEMMA EffectCatchUp ==
  ASSUME PlanInv, DueInv, MeantInv, NEW i \in Ids, CatchUp(i)
  PROVE  Effect
  <1>1. i \in DOMAIN items /\ items[i].at \in Nat /\ UNCHANGED <<now, torn>>
    BY DueTypes DEF CatchUp, PlanInv, FileInv, StartsAlone
  <1>2. CASE Skip
    BY <1>1, <1>2 DEF Skip, Effect, Nothing
  <1>3. CASE i \in Once /\ items[i].at <= now /\ Fire(i, items[i].at)
    <2>1. Answers(i, items[i].at)
      BY <1>1, <1>3, MeantHere, DynamicFacts, CronConstants DEF Answers, Live, Cron, Dynamic
    <2> QED BY <1>1, <2>1 DEF Effect
  <1>4. CASE i \notin Once /\ trigger_state[i].last < PrevFire(i, now) /\ Fire(i, PrevFire(i, now))
    <2> DEFINE prev == PrevFire(i, now)
    <2>1. i \in Cron /\ now \in Nat
      BY <1>4, DueTypes DEF Ids, PlanInv
    <2>2. prev \in Nat /\ prev <= now /\ OnBeat(i, prev)
      BY <2>1, NextFireLater, BeatFacts
    <2>3. \A d \in Time : fires[i][d] > 0 => d < prev
      <3>1. \A d \in Time : fires[i][d] > 0 => d <= trigger_state[i].last
        BY <2>1 DEF DueInv, Fires, CronFired
      <3>2. trigger_state[i].last \in Int /\ trigger_state[i].last < prev /\ Time \subseteq Nat
        BY <1>4, DueTypes DEF PlanInv
      <3> QED BY <2>2, <3>1, <3>2
    <2>4. Answers(i, prev)
      BY <1>1, <1>4, <2>2, <2>3 DEF Answers
    <2> QED BY <2>2, <2>4 DEF Effect
  <1>5. CASE i \in Once
    BY <1>2, <1>3, <1>5 DEF CatchUp, CatchUpOnce
  <1>6. CASE i \notin Once
    BY <1>2, <1>4, <1>6 DEF CatchUp, CatchUpCron
  <1> QED BY <1>5, <1>6

LEMMA EffectStep ==
  ASSUME PlanInv, DueInv, MeantInv, [Next]_vars
  PROVE  Effect
  <1>1. CASE Take \/ Unplanned \/ Succeeded \/ Failed \/ UNCHANGED vars
    BY <1>1 DEF Take, Unplanned, Succeeded, Failed, vars, history, Effect, Nothing
  <1>2. CASE Boot \/ Serve \/ Idle \/ Sleep \/ WakeUp \/ TimerFires
    BY <1>2 DEF Boot, Serve, Idle, Sleep, WakeUp, TimerFires, history, Effect, Nothing
  <1>3. CASE Add \/ Remove \/ NoSuchTrigger \/ Disable \/ Clear \/ Consume
    BY <1>3 DEF Add, Remove, NoSuchTrigger, Disable, Clear, Consume, history, Effect, Nothing
  <1>4. CASE \E c \in Clients : ClientStep(c)
    BY <1>4 DEF ClientStep, AskAdd, AskRemove, AskEnable, AskClear, Ask, EnableStatic, FireNow,
                history, Effect, Nothing
  <1>5. CASE Tick
    BY <1>5, DueTypes DEF Tick, history, Effect, Passes, PlanInv
  <1>6. CASE Enable
    <2>1. UNCHANGED <<now, fires>>
      BY <1>6 DEF Enable
    <2>2. torn \in [Once -> Nat]
      BY DEF PlanInv, TypeInv, TypeOK
    <2>3. torn' = torn \/ torn' = [torn EXCEPT ![Asked.id] = @ + 1]
      BY <1>6 DEF Enable
    <2>4. CASE torn' = torn
      BY <2>1, <2>4 DEF Effect, Nothing
    <2>5. CASE torn' = [torn EXCEPT ![Asked.id] = @ + 1]
      <3>1. torn' = [j \in Once |-> IF j \in {Asked.id} \cap Once THEN torn[j] + 1 ELSE torn[j]]
        BY <2>2, <2>5
      <3>2. Undoes({Asked.id} \cap Once)
        BY <2>1, <3>1 DEF Undoes
      <3> QED BY <3>2 DEF Effect
    <2> QED BY <2>3, <2>4, <2>5
  <1>7. CASE Crash
    <2> DEFINE S == {j \in Once : Consuming(j)}
    <2>1. torn' = [j \in Once |-> IF Consuming(j) THEN torn[j] + 1 ELSE torn[j]]
          /\ UNCHANGED <<now, fires>>
      BY <1>7 DEF Crash
    <2>2. \A j \in Once : j \in S <=> Consuming(j)
      OBVIOUS
    <2> HIDE DEF S
    <2>3. torn' = [j \in Once |-> IF j \in S THEN torn[j] + 1 ELSE torn[j]]
      BY <2>1, <2>2
    <2>4. Undoes(S)
      BY <2>1, <2>3 DEF Undoes
    <2>5. S \in SUBSET Once
      BY DEF S
    <2> QED BY <2>4, <2>5 DEF Effect
  <1> QED BY <1>1, <1>2, <1>3, <1>4, <1>5, <1>6, <1>7, EffectRun, EffectCatchUp DEF Next, Run, Locked

LEMMA MeantInit == Init => MeantInv
  <1> SUFFICES ASSUME Init PROVE MeantInv
    OBVIOUS
  <1>1. DOMAIN items = {} /\ DOMAIN store = {} /\ DOMAIN lock = {} /\ Aimed = {}
    BY DEF Init, Aimed
  <1>2. \A i \in Ids : \A d : ~ Meant(i, d)
    BY <1>1 DEF Meant
  <1>3. Once \subseteq Ids /\ Cron \subseteq Ids
    BY DynamicFacts
  <1> QED BY <1>2, <1>3 DEF MeantInv, MeantCron, MeantOnce, MeantFired

\* What has not been minted is meant for nothing, and has not fired.
LEMMA UnmintedFacts ==
  ASSUME PlanInv, DueInv, NEW i \in Dynamic \ minted
  PROVE  (\A d : ~ Meant(i, d)) /\ \A d \in Time : fires[i][d] = 0
  <1>1. i \notin DOMAIN store /\ i \notin DOMAIN items /\ i \notin Aimed
    BY DEF PlanInv, FileInv, Fresh, Known
  <1>2. \A k \in DOMAIN lock : lock[k].op = "add" => lock[k].id \in minted
    BY DEF PlanInv, TypeInv, RequestsTyped
  <1>3. \A d \in Time : fires[i][d] = 0
    BY DynamicFacts DEF DueInv, Fires, NewIsUnfired, NeverFired
  <1> QED BY <1>1, <1>2, <1>3 DEF Meant

LEMMA FiredBefore ==
  ASSUME PlanInv, Effect, NEW i \in Once, NEW d \in Time, fires'[i][d] > 0
  PROVE  fires[i][d] > 0 \/ (d \in Nat /\ Meant(i, d))
  <1>1. CASE Nothing \/ Passes \/ \E S \in SUBSET Once : Undoes(S)
    BY <1>1 DEF Nothing, Passes, Undoes
  <1>2. ASSUME NEW j \in Ids, NEW due \in Nat, Answers(j, due)
        PROVE  fires[i][d] > 0 \/ (d \in Nat /\ Meant(i, d))
    <2>1. fires'[i][d] = IF i = j /\ d = due THEN fires[i][d] + 1 ELSE fires[i][d]
      BY <1>2, FireFacts, DynamicFacts DEF Answers, PlanInv
    <2>2. i = j /\ d = due => Meant(i, d)
      BY <1>2 DEF Answers
    <2> QED BY <2>1, <2>2
  <1> QED BY <1>1, <1>2 DEF Effect

LEMMA MeantStep ==
  ASSUME PlanInv, TypeInv', DueInv, MeantInv, [Next]_vars
  PROVE  MeantInv'
  <1>0. now \in Nat /\ Effect
    BY DueTypes, EffectStep DEF PlanInv
  <1>1. CASE MeansOld
    <2>1. \A i \in Once : \A d : Meant(i, d)' => Meant(i, d)
      <3>1. Once \cap Cron = {}
        BY CronConstants DEF Cron, Dynamic
      <3> QED BY <1>1, <3>1, DynamicFacts DEF MeansOld
    <2>2. MeantCron'
      <3> SUFFICES ASSUME NEW i \in Cron, NEW d \in Nat, Meant(i, d)' PROVE OnBeat(i, d)
        BY DEF MeantCron, OnBeat
      <3>1. Meant(i, d) \/ d = NextFire(i, now)
        BY <1>1, DynamicFacts DEF MeansOld
      <3> QED BY <1>0, <3>1, BeatFacts DEF MeantInv, MeantCron
    <2>3. MeantOnce'
      BY <2>1 DEF MeantInv, MeantOnce
    <2>4. MeantFired'
      <3> SUFFICES ASSUME NEW i \in Once, NEW d \in Time, NEW e \in Nat, fires'[i][d] > 0, Meant(i, e)'
                   PROVE  d = e
        BY DEF MeantFired
      <3>1. Meant(i, e)
        BY <2>1
      <3>2. fires[i][d] > 0 \/ (d \in Nat /\ Meant(i, d))
        BY <1>0, FiredBefore
      <3> QED BY <3>1, <3>2 DEF MeantInv, MeantOnce, MeantFired
    <2> QED BY <2>2, <2>3, <2>4 DEF MeantInv
  <1>2. ASSUME NEW n \in Once, NEW at \in Nat, MeansNew(n, at)
        PROVE  MeantInv'
    <2>1. /\ \A i \in Ids \ {n} : \A d : Meant(i, d)' => Meant(i, d)
          /\ \A d : Meant(n, d)' => Meant(n, d) \/ d = at
          /\ UNCHANGED fires
      BY <1>2, DynamicFacts DEF MeansNew
    <2>2. (\A d : ~ Meant(n, d)) /\ \A d \in Time : fires[n][d] = 0
      BY <1>2, UnmintedFacts, DynamicFacts DEF MeansNew
    <2>3. n \notin Cron
      BY CronConstants DEF Cron, Dynamic
    <2>4. MeantCron'
      <3> SUFFICES ASSUME NEW i \in Cron, NEW d \in Nat, Meant(i, d)' PROVE OnBeat(i, d)
        BY DEF MeantCron, OnBeat
      <3>1. Meant(i, d)
        BY <2>1, <2>3, DynamicFacts
      <3> QED BY <3>1 DEF MeantInv, MeantCron
    <2>5. MeantOnce'
      <3> SUFFICES ASSUME NEW i \in Once, NEW d \in Nat, NEW e \in Nat, Meant(i, d)', Meant(i, e)'
                   PROVE  d = e
        BY DEF MeantOnce
      <3>1. CASE i = n
        BY <2>1, <2>2, <3>1
      <3>2. CASE i # n
        <4>1. Meant(i, d) /\ Meant(i, e)
          BY <2>1, <3>2, DynamicFacts
        <4> QED BY <4>1 DEF MeantInv, MeantOnce
      <3> QED BY <3>1, <3>2
    <2>6. MeantFired'
      <3> SUFFICES ASSUME NEW i \in Once, NEW d \in Time, NEW e \in Nat, fires'[i][d] > 0, Meant(i, e)'
                   PROVE  d = e
        BY DEF MeantFired
      <3>1. i # n /\ fires[i][d] > 0
        BY <2>1, <2>2
      <3>2. Meant(i, e)
        BY <2>1, <3>1, DynamicFacts
      <3> QED BY <3>1, <3>2 DEF MeantInv, MeantFired
    <2> QED BY <2>4, <2>5, <2>6 DEF MeantInv
  <1> QED BY <1>1, <1>2, MeansStep

\* Every effect is a step of the abstract schedule.
LEMMA EffectIsOnSchedule ==
  ASSUME PlanInv, TypeInv', DueInv, MeantInv, Effect
  PROVE  [Schedule!Next]_(Schedule!vars)
  <1>1. CASE Nothing
    BY <1>1 DEF Nothing, Schedule!vars
  <1>2. CASE Passes
    <2>1. now' \in Time
      BY DEF TypeInv, TypeOK
    <2> QED BY <1>2, <2>1 DEF Passes, Schedule!Pass, Schedule!Next
  <1>3. CASE \E S \in SUBSET Once : Undoes(S)
    BY <1>3 DEF Undoes, Schedule!Undo, Schedule!Next
  <1>4. ASSUME NEW i \in Ids, NEW due \in Nat, Answers(i, due)
        PROVE  Schedule!Next
    <2>1. now \in Time /\ due \in Time
      BY <1>4, DueTypes, CronConstants DEF Answers, Time, PlanInv
    <2>2. Schedule!FireFor(i, due)
      BY <1>4 DEF Answers, Fire, Schedule!FireFor
    <2>3. CASE i \in Cron
      <3>1. Schedule!FireCron(i, due)
        BY <1>4, <2>2, <2>3 DEF Answers, OnBeat, Schedule!FireCron, Schedule!OnSchedule, Schedule!Fired
      <3> QED BY <2>1, <2>3, <3>1 DEF Schedule!Next
    <2>4. CASE i \in Once
      <3>1. \A d \in Time : fires[i][d] > 0 => d = due
        BY <1>4, <2>4 DEF Answers, MeantInv, MeantFired
      <3>2. fires[i][due] <= torn[i]
        BY <1>4, <2>1, <2>4 DEF Answers, DueInv, Fires, OneShotFired
      <3>3. Schedule!FireOnce(i, due)
        BY <2>2, <3>1, <3>2 DEF Schedule!FireOnce, Schedule!Fired
      <3> QED BY <2>1, <2>4, <3>3 DEF Schedule!Next
    <2> QED BY <2>3, <2>4 DEF Ids
  <1> QED BY <1>1, <1>2, <1>3, <1>4 DEF Effect

(* The scheduler keeps the schedule, if the clock stands still while the   *)
(* worker starts: whatever requests, crashes and catch-up do, no trigger   *)
(* fires early, off its schedule, out of order or for an instant it has    *)
(* fired for, unless its removal was undone.                               *)
THEOREM ScheduleKept == ~ SlowBoot /\ Spec => KeepsSchedule
  <1>1. SUFFICES ASSUME ~ SlowBoot PROVE Spec => KeepsSchedule
    OBVIOUS
  <1>2. Init => PlanInv /\ DueInv /\ MeantInv
    BY PlanInit, DueInit, MeantInit
  <1>3. PlanInv /\ DueInv /\ MeantInv /\ [Next]_vars => (PlanInv /\ DueInv /\ MeantInv)'
    <2>1. PlanInv /\ [Next]_vars => TypeInv'
      BY TypeStep DEF PlanInv
    <2> QED BY <1>1, <2>1, PlanStep, DueStep, MeantStep
  <1>4. PlanInv /\ DueInv /\ MeantInv /\ [Next]_vars => [Schedule!Next]_(Schedule!vars)
    <2>1. PlanInv /\ [Next]_vars => TypeInv'
      BY TypeStep DEF PlanInv
    <2> QED BY <2>1, EffectStep, EffectIsOnSchedule
  <1>5. Init => Schedule!Init
    <2>1. 0 \in Time
      BY CronConstants DEF Time
    <2> QED BY <2>1 DEF Init, Schedule!Init, Ids
  <1> QED BY <1>2, <1>3, <1>4, <1>5, PTL DEF Spec, KeepsSchedule, Schedule!Spec

=============================================================================
