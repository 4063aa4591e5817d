------------------------ MODULE TaskExecutor_proofs ------------------------
(* Proofs about TaskExecutor for every capacity, any number of tasks and   *)
(* of stores: a thread that ends has drained the ring unless there was a   *)
(* hard stop, answers come in the order of the submissions, and, when no   *)
(* task calls it, a hard stop is final.                                    *)
EXTENDS TaskExecutor, SequenceTheorems, TLAPS

StoreRecords == [state : {"Running", "Stopping", "HardStop"}, tasks : 0 .. MaxTasks]

(* What a store leaves in the order of stores. *)
LEMMA Stored ==
  ASSUME stores \in Seq(StoreRecords),
         NEW state \in {"Stopping", "HardStop"}, NEW tasks \in 0 .. MaxTasks,
         Store(state, tasks)
  PROVE  /\ stores' \in Seq(StoreRecords) /\ Latest \in Nat /\ Latest' = Latest + 1
         /\ \A k \in 1 .. Latest : stores'[k] = stores[k]
         /\ stores'[Latest'] = [state |-> state, tasks |-> tasks]
<1> DEFINE new == [state |-> state, tasks |-> tasks]
<1>1. new \in StoreRecords
  BY DEF StoreRecords
<1>2. stores' = Append(stores, new)
  BY DEF Store
<1> HIDE DEF new
<1> QED
  BY <1>1, <1>2, AppendProperties, LenProperties DEF Latest, new

(* The first conjunct of the invariant in the terms of the lemma above.    *)
LEMMA Typed ==
  ASSUME IInv
  PROVE  /\ stores \in Seq(StoreRecords) /\ Latest \in Nat
         /\ ownerSeen \in 1 .. Latest /\ workerSeen \in 1 .. Latest
         /\ \A k \in 1 .. Latest : stores[k] \in StoreRecords
<1>1. stores \in Seq(StoreRecords) /\ {ownerSeen, workerSeen} \subseteq 1 .. Latest
  BY DEF IInv, TypeOK, WorkTypeOK, StoreRecords
<1> QED
  BY <1>1, LenProperties, ElementOfSeq DEF Latest

-----------------------------------------------------------------------------
(* The owner.                                                              *)

(* A push takes place only while nothing but Running was stored by the     *)
(* owner, so no Stopping claims to publish all pushes, and the worker has  *)
(* not ended but by a hard stop.                                           *)
LEMMA EnqueueKeeps ==
  ASSUME IInv, Enqueue, submitted' = submitted + 1, UNCHANGED <<ready, waiting>>,
         opc' \in {"idle", "submitting"}, waiting = 0
  PROVE  IInv'
<1>1. PICK k \in ownerSeen .. Latest : State(k) = "Running" /\ ownerSeen' = k
  BY DEF Enqueue, Loadable
<1>2. k = 1 /\ ownerSeen = 1 /\ ownerSeen' = 1
  BY <1>1, Typed DEF IInv, StoresInOrder
<1>3. TypeOK' /\ Counted'
  BY <1>2, Typed, WorkerAssumption
     DEF Enqueue, workerVars, IInv, TypeOK, WorkTypeOK, Counted, Running, Latest
<1>4. \A j \in 2 .. Latest : State(j) # "Stopping"
  BY <1>2, Typed DEF IInv, StoresInOrder
<1>5. StoresInOrder'
  <2>1. \A j \in 1 .. Latest : stores[j].tasks \in Nat /\ pushed \in Nat
    BY Typed DEF IInv, TypeOK, WorkTypeOK, StoreRecords
  <2> QED
    BY <1>4, <2>1 DEF Enqueue, IInv, StoresInOrder, Latest, State
<1>6. WorkerInformed' /\ Answered'
  BY DEF Enqueue, workerVars, IInv, WorkerInformed, Answered, Running, State
<1>7. wpc = "done" => HardStopped
  <2> SUFFICES ASSUME wpc = "done"
               PROVE  HardStopped
    OBVIOUS
  <2>1. workerSeen \in 2 .. Latest
    BY Typed DEF IInv, WorkerInformed
  <2>2. State(workerSeen) = "HardStop"
    BY <1>4, <2>1, Typed DEF IInv, StoresInOrder, State, StoreRecords
  <2> QED
    BY <2>1, <2>2, Typed DEF HardStopped
<1>8. StopDrains'
  BY <1>7 DEF Enqueue, workerVars, StopDrains, HardStopped, Latest, State
<1> QED
  BY <1>3, <1>5, <1>6, <1>8 DEF IInv

(* A store by the owner publishes all pushes, and the owner knows of it.   *)
LEMMA OwnerStoreKeeps ==
  ASSUME IInv, NEW state \in {"Stopping", "HardStop"}, OwnerStores(state),
         UNCHANGED clientVars, opc' \in {"idle", "joining"}, waiting = 0
  PROVE  IInv'
<1>1. pushed \in 0 .. MaxTasks
  BY DEF IInv, TypeOK, WorkTypeOK
<1>2. /\ stores' \in Seq(StoreRecords) /\ Latest' = Latest + 1
      /\ \A k \in 1 .. Latest : stores'[k] = stores[k]
      /\ stores'[Latest'] = [state |-> state, tasks |-> pushed]
  BY <1>1, Typed, Stored DEF OwnerStores
<1>3. TypeOK' /\ Counted'
  <2>1. UNCHANGED <<pushed, popped, workerSeen, tailSeen, wpc, submitted, ready, waiting>>
        /\ ownerSeen' = Latest + 1
    BY DEF OwnerStores, workerVars, clientVars
  <2>2. {ownerSeen', workerSeen'} \subseteq 1 .. Latest'
    BY <1>2, <2>1, Typed
  <2>3. WorkTypeOK'
    BY <1>2, <2>1, <2>2 DEF IInv, TypeOK, WorkTypeOK, StoreRecords
  <2> QED
    BY <2>1, <2>3 DEF IInv, TypeOK, Counted, Running
<1>4. StoresInOrder'
  <2>1. \A k \in 1 .. Latest' : \/ k \in 1 .. Latest /\ stores'[k] = stores[k]
                                \/ k = Latest'
    BY <1>2, Typed
  <2>2. /\ stores'[Latest'].state # "Running" /\ stores'[Latest'].tasks = pushed
        /\ pushed' = pushed /\ pushed <= pushed /\ ownerSeen' = Latest'
    BY <1>1, <1>2, Typed DEF OwnerStores
  <2>3. \A k \in 1 .. Latest : k <= ownerSeen => k <= ownerSeen'
    BY <1>2, <2>2, Typed
  <2>4. stores'[1] = stores[1] /\ Latest' <= ownerSeen' /\ Latest' \in Nat
    BY <1>2, <2>2, Typed
  <2>5. \A k \in 1 .. Latest' : stores'[k].tasks <= pushed'
    BY <2>1, <2>2 DEF IInv, StoresInOrder
  <2>6. ASSUME NEW k \in 2 .. Latest'
        PROVE  /\ stores'[k].state # "Running"
               /\ stores'[k].state = "Stopping" => k <= ownerSeen' /\ stores'[k].tasks = pushed'
    <3>1. CASE k = Latest'
      BY <2>2, <2>4, <3>1
    <3>2. CASE k # Latest'
      <4>1. k \in 2 .. Latest /\ stores'[k] = stores[k]
        BY <2>1, <3>2
      <4> QED
        BY <2>2, <2>3, <4>1 DEF IInv, StoresInOrder, State
    <3> QED
      BY <3>1, <3>2
  <2> QED
    BY <2>4, <2>5, <2>6 DEF IInv, StoresInOrder, State
<1>5. WorkerInformed' /\ Answered'
  BY <1>2, Typed DEF OwnerStores, workerVars, clientVars, IInv, WorkerInformed, Answered,
                     Running, State
<1>6. HardStopped => HardStopped'
  BY <1>2, Typed DEF HardStopped, State
<1>7. StopDrains'
  BY <1>6 DEF OwnerStores, workerVars, IInv, StopDrains
<1> QED
  BY <1>3, <1>4, <1>5, <1>7 DEF IInv

(* The owner only reads the state, or joins, or the client waits.          *)
LEMMA OwnerReadsKeeps ==
  ASSUME IInv, UNCHANGED <<stores, pushed, workerVars, submitted, ready>>,
         ownerSeen' \in ownerSeen .. Latest,
         opc' \in {"idle", "submitting", "storing", "joining", "gone"},
         waiting' \in 0 .. submitted, waiting' # 0 => opc' \in {"idle", "gone"}
  PROVE  IInv'
<1>1. TypeOK' /\ Counted'
  BY Typed DEF workerVars, IInv, TypeOK, WorkTypeOK, Counted, Running, Latest
<1>2. StoresInOrder'
  BY Typed DEF IInv, StoresInOrder, Latest, State
<1>3. WorkerInformed' /\ Answered' /\ StopDrains'
  BY DEF workerVars, IInv, WorkerInformed, Answered, StopDrains, HardStopped, Running, Latest, State
<1> QED
  BY <1>1, <1>2, <1>3 DEF IInv

LEMMA ClientKeeps ==
  ASSUME IInv, Client
  PROVE  IInv'
<1> USE Typed
<1>1. ASSUME waiting = 0, TrySubmit
      PROVE  IInv'
  BY <1>1, EnqueueKeeps DEF TrySubmit, Push
<1>2. ASSUME waiting = 0, BeginSubmit
      PROVE  IInv'
  BY <1>2, OwnerReadsKeeps DEF BeginSubmit, clientVars, Loadable, IInv, TypeOK
<1>3. ASSUME waiting = 0, Submit
      PROVE  IInv'
  BY <1>3, EnqueueKeeps DEF Submit
<1>4. ASSUME waiting = 0, Stop \/ HardStop \/ StoreStopping, UNCHANGED clientVars
      PROVE  IInv'
  BY <1>4, OwnerStoreKeeps DEF Stop, HardStop, StoreStopping
<1>5. ASSUME waiting = 0, CheckState, UNCHANGED clientVars
      PROVE  IInv'
  BY <1>5, OwnerReadsKeeps DEF CheckState, Loadable, clientVars, IInv, TypeOK
<1>6. ASSUME waiting = 0, Join, UNCHANGED clientVars
      PROVE  IInv'
  BY <1>6, OwnerReadsKeeps DEF Join, clientVars, IInv, TypeOK
<1>7. ASSUME NEW n \in 1 .. submitted, BeginGet(n)
      PROVE  IInv'
  BY <1>7, OwnerReadsKeeps DEF BeginGet, workVars, ownerVars, workerVars, IInv, TypeOK, WorkTypeOK
<1>8. CASE Get
  BY <1>8, OwnerReadsKeeps DEF Get, workVars, ownerVars, workerVars, IInv, TypeOK, WorkTypeOK
<1> QED
  BY <1>1, <1>2, <1>3, <1>4, <1>5, <1>6, <1>7, <1>8 DEF Client

-----------------------------------------------------------------------------
(* The worker.                                                             *)

(* What a step of the worker must keep to for the types.                   *)
LEMMA WorkerTyped ==
  ASSUME IInv, UNCHANGED <<stores, pushed, ownerSeen, opc, submitted, waiting>>,
         workerSeen' \in 1 .. Latest, ready' \subseteq 1 .. MaxTasks,
         popped' \in popped .. tailSeen', tailSeen' \in Nat, tailSeen' <= pushed,
         wpc' \in {"poll", "pop", "run", "drain", "drainPop", "drainRun", "done"},
         Running' => popped' > 0
  PROVE  TypeOK' /\ Counted'
<1>1. popped \in Nat /\ pushed \in Nat /\ pushed - popped <= Capacity
  BY DEF IInv, TypeOK, WorkTypeOK, Counted
<1>2. popped' \in Nat /\ popped' <= tailSeen' /\ popped <= popped'
  BY <1>1
<1>3. pushed - popped' <= Capacity
  <2>1. \A x, y, z, c \in Int : x - y <= c /\ y <= z => x - z <= c
    OBVIOUS
  <2>2. popped \in Int /\ pushed \in Int /\ popped' \in Int /\ Capacity \in Int
    BY <1>1, <1>2, WorkerAssumption
  <2>3. pushed - popped <= Capacity /\ popped <= popped'
    BY <1>1, <1>2
  <2> QED
    BY <2>1, <2>2, <2>3
<1>4. Latest' = Latest
  BY DEF Latest
<1>5. WorkTypeOK'
  <2>1. {ownerSeen', workerSeen'} \subseteq 1 .. Latest'
    BY <1>4 DEF IInv, TypeOK, WorkTypeOK
  <2> QED
    BY <1>2, <1>3, <2>1 DEF IInv, TypeOK, WorkTypeOK
<1>6. TypeOK'
  BY <1>5 DEF IInv, TypeOK
<1> QED
  BY <1>2, <1>6 DEF IInv, Counted

(* A load brings the pushes that were made before the store it reads.      *)
LEMMA LoadKeeps ==
  ASSUME IInv, NEW k \in workerSeen .. Latest, PollFrom(k) \/ DrainFrom(k), UNCHANGED clientVars
  PROVE  IInv'
<1>1. /\ workerSeen' = k /\ UNCHANGED <<stores, ownerVars, popped>>
      /\ tailSeen' = IF stores[k].tasks > tailSeen THEN stores[k].tasks ELSE tailSeen
  BY DEF PollFrom, DrainFrom, Load
<1>2. k \in 1 .. Latest /\ stores[k] \in StoreRecords
  BY Typed
<1>3. stores[k].tasks \in 0 .. pushed
  BY <1>2, Typed DEF IInv, TypeOK, WorkTypeOK, StoresInOrder, StoreRecords
<1>4. /\ tailSeen' \in tailSeen .. pushed /\ stores[k].tasks <= tailSeen'
      /\ wpc' \in {"pop", "drain", "drainPop", "done"}
      /\ wpc \in {"poll", "drain"}
  BY <1>1, <1>3 DEF PollFrom, DrainFrom, IInv, TypeOK, WorkTypeOK, Counted
<1>5. TypeOK' /\ Counted'
  <2>1. popped \in Nat /\ tailSeen \in Nat /\ pushed \in Nat /\ popped <= tailSeen
        /\ ready \subseteq 1 .. MaxTasks
    BY DEF IInv, TypeOK, WorkTypeOK, Counted
  <2>2. popped' \in popped .. tailSeen' /\ tailSeen' \in Nat /\ tailSeen' <= pushed
    BY <1>1, <1>4, <2>1
  <2>3. ~ Running'
    BY <1>4 DEF Running
  <2> QED
    BY <1>1, <1>2, <1>4, <2>1, <2>2, <2>3, WorkerTyped DEF ownerVars, clientVars
<1>6. StoresInOrder' /\ Answered'
  BY <1>1, <1>4 DEF ownerVars, clientVars, IInv, StoresInOrder, Answered, Running, Latest, State
<1>7. /\ wpc' = "pop" => State(k) = "Running"
      /\ wpc' = "drain" => State(k) # "Running"
      /\ wpc' = "drainPop" => State(k) = "Stopping" /\ wpc = "drain"
      /\ wpc' = "done" => State(k) # "Stopping" /\ wpc = "drain"
  BY DEF PollFrom, DrainFrom
<1>8. /\ State(k) = "Running" => k = 1
      /\ k > 1 => State(k) \in {"Stopping", "HardStop"}
      /\ wpc = "drain" => k > 1
      /\ State(k) # "Running" => k > 1
  BY <1>2, Typed DEF IInv, StoresInOrder, WorkerInformed, State, StoreRecords
<1>9. WorkerInformed'
  BY <1>1, <1>2, <1>4, <1>7, <1>8 DEF WorkerInformed, State
<1>10. StopDrains'
  <2>1. wpc' = "done" => HardStopped
    BY <1>2, <1>7, <1>8 DEF HardStopped
  <2> QED
    BY <1>1, <2>1 DEF StopDrains, HardStopped, Latest, State
<1> QED
  BY <1>5, <1>6, <1>9, <1>10 DEF IInv

(* A pop may miss pushes that no load has brought; but in the second loop  *)
(* the load brought all there are.                                         *)
LEMMA PopKeeps ==
  ASSUME IInv, NEW t \in tailSeen .. pushed, PopUpTo(t), UNCHANGED clientVars
  PROVE  IInv'
<1>1. /\ tailSeen' = t /\ t \in Nat /\ popped \in Nat /\ popped <= t
      /\ UNCHANGED <<stores, ownerVars, workerSeen>>
  BY DEF PopUpTo, IInv, TypeOK, WorkTypeOK, Counted
<1>2. \/ /\ wpc = "pop" /\ t # popped
         /\ popped' = popped + 1 /\ wpc' = "run"
      \/ /\ wpc = "drainPop" /\ t # popped
         /\ popped' = popped + 1 /\ wpc' = "drainRun"
      \/ /\ wpc = "pop" /\ t = popped
         /\ popped' = popped /\ wpc' = "poll"
      \/ /\ wpc = "drainPop" /\ t = popped
         /\ popped' = popped /\ wpc' = "done"
  BY DEF PopUpTo
<1>3. TypeOK' /\ Counted'
  <2>1. pushed \in Nat /\ ready \subseteq 1 .. MaxTasks /\ workerSeen \in 1 .. Latest
    BY Typed DEF IInv, TypeOK, WorkTypeOK
  <2>2. popped' \in popped .. tailSeen' /\ (Running' => popped' > 0)
    BY <1>1, <1>2 DEF Running
  <2>3. tailSeen' \in Nat /\ tailSeen' <= pushed
    BY <1>1, <2>1
  <2> QED
    BY <1>1, <1>2, <2>1, <2>2, <2>3, WorkerTyped DEF ownerVars, clientVars
<1>4. StoresInOrder' /\ Answered'
  BY <1>1, <1>2 DEF ownerVars, clientVars, IInv, StoresInOrder, Answered, Running, Latest, State
<1>5. WorkerInformed'
  BY <1>1, <1>2, Typed DEF ownerVars, IInv, TypeOK, WorkTypeOK, WorkerInformed, State, StoreRecords,
                           Counted
<1>6. wpc = "drainPop" => tailSeen = pushed
  <2>1. ASSUME wpc = "drainPop"
        PROVE  workerSeen \in 2 .. Latest /\ State(workerSeen) = "Stopping"
    BY <2>1, Typed DEF IInv, WorkerInformed
  <2>2. ASSUME wpc = "drainPop"
        PROVE  stores[workerSeen].tasks = pushed /\ pushed <= tailSeen
    BY <2>1, <2>2 DEF IInv, StoresInOrder, WorkerInformed
  <2> QED
    BY <2>2 DEF IInv, TypeOK, WorkTypeOK, Counted
<1>7. StopDrains'
  <2>1. wpc' = "done" => popped' = popped /\ popped = t /\ t \in pushed .. pushed
    BY <1>1, <1>2, <1>6
  <2> QED
    BY <1>1, <2>1 DEF ownerVars, StopDrains
<1> QED
  BY <1>3, <1>4, <1>5, <1>7 DEF IInv

(* A task that runs sets its channel, and may ask for a hard stop.         *)
LEMMA ExecuteKeeps ==
  ASSUME IInv, Execute
  PROVE  IInv'
<1>1. /\ UNCHANGED <<ownerVars, popped, tailSeen, submitted, waiting>>
      /\ \/ wpc = "run" /\ wpc' = "poll"
         \/ wpc = "drainRun" /\ wpc' = "drain"
      /\ ready' = ready \cup {popped}
  BY DEF Execute, RunTask
<1>2. /\ popped \in 1 .. pushed /\ ready = 1 .. popped - 1 /\ pushed \in 0 .. MaxTasks
      /\ wpc = "drainRun" => workerSeen > 1
  BY <1>1 DEF IInv, TypeOK, WorkTypeOK, Counted, Answered, Running, WorkerInformed
<1>3. ready' = 1 .. popped /\ ready' \subseteq 1 .. MaxTasks /\ 0 \in 0 .. MaxTasks
  <2>1. (1 .. popped - 1) \cup {popped} = 1 .. popped
    BY <1>2
  <2>2. ready' = 1 .. popped
    BY <1>1, <1>2, <2>1
  <2>3. 1 .. popped \subseteq 1 .. MaxTasks /\ 0 \in 0 .. MaxTasks
    BY <1>2, WorkerAssumption
  <2> QED
    BY <2>2, <2>3
<1>4. Answered'
  BY <1>1, <1>3 DEF Answered, Running
<1>5. StopDrains'
  BY <1>1 DEF StopDrains
<1>6. CASE UNCHANGED <<stores, workerSeen>>
  <2>1. TypeOK' /\ Counted'
    <3>1. popped \in Nat /\ tailSeen \in Nat /\ popped <= tailSeen /\ tailSeen <= pushed
          /\ workerSeen \in 1 .. Latest
      BY Typed DEF IInv, TypeOK, WorkTypeOK, Counted
    <3>2. popped' \in popped .. tailSeen' /\ tailSeen' \in Nat /\ tailSeen' <= pushed /\ ~ Running'
      BY <1>1, <3>1 DEF Running
    <3> QED
      BY <1>1, <1>3, <1>6, <3>1, <3>2, WorkerTyped DEF ownerVars
  <2>2. StoresInOrder' /\ WorkerInformed'
    BY <1>1, <1>2, <1>6 DEF ownerVars, IInv, StoresInOrder, WorkerInformed, Latest, State
  <2> QED
    BY <1>4, <1>5, <2>1, <2>2 DEF IInv
<1>7. CASE Store("HardStop", 0) /\ workerSeen' = Latest + 1
  <2>1. /\ stores' \in Seq(StoreRecords) /\ Latest' = Latest + 1
        /\ \A k \in 1 .. Latest : stores'[k] = stores[k]
        /\ stores'[Latest'] = [state |-> "HardStop", tasks |-> 0]
    BY <1>3, <1>7, Typed, Stored
  <2>2. TypeOK' /\ Counted'
    <3>1. {ownerSeen', workerSeen'} \subseteq 1 .. Latest'
      BY <1>1, <1>7, <2>1, Typed DEF ownerVars
    <3>2. WorkTypeOK'
      BY <1>1, <2>1, <3>1 DEF ownerVars, IInv, TypeOK, WorkTypeOK, StoreRecords
    <3>3. TypeOK'
      BY <1>1, <1>3, <3>2 DEF ownerVars, IInv, TypeOK
    <3> QED
      BY <1>1, <3>3 DEF ownerVars, IInv, Counted, Running
  <2>3. StoresInOrder'
    <3>1. \A k \in 1 .. Latest' : k \in 1 .. Latest \/ k = Latest'
      BY <2>1, Typed
    <3>2. pushed' = pushed /\ ownerSeen' = ownerSeen /\ 0 <= pushed
      BY <1>1, <1>2 DEF ownerVars
    <3>3. \A k \in 1 .. Latest' : stores'[k].tasks <= pushed'
      BY <2>1, <3>1, <3>2 DEF IInv, StoresInOrder
    <3>4. \A k \in 2 .. Latest' :
            /\ stores'[k].state # "Running"
            /\ stores'[k].state = "Stopping" => k <= ownerSeen' /\ stores'[k].tasks = pushed'
      BY <2>1, <3>1, <3>2 DEF IInv, StoresInOrder, State
    <3>5. stores'[1].state = "Running"
      BY <2>1, Typed DEF IInv, StoresInOrder, State
    <3> QED
      BY <3>3, <3>4, <3>5 DEF StoresInOrder, State
  <2>4. WorkerInformed'
    BY <1>1, <1>2, <1>7, <2>1, Typed DEF IInv, WorkerInformed, Counted
  <2> QED
    BY <1>4, <1>5, <2>2, <2>3, <2>4 DEF IInv
<1> QED
  BY <1>6, <1>7 DEF Execute, RunTask

-----------------------------------------------------------------------------
LEMMA InitInv == Init => IInv
<1> SUFFICES ASSUME Init
             PROVE  IInv
  OBVIOUS
<1>1. /\ stores \in Seq(StoreRecords) /\ Latest = 1
      /\ stores[1] = [state |-> "Running", tasks |-> 0]
  BY WorkerAssumption DEF Init, WorkInit, Latest, StoreRecords
<1>2. TypeOK /\ Counted /\ Answered
  BY <1>1, WorkerAssumption
     DEF Init, WorkInit, TypeOK, WorkTypeOK, Counted, Answered, Running, StoreRecords
<1>3. StoresInOrder /\ WorkerInformed /\ StopDrains
  BY <1>1 DEF Init, WorkInit, StoresInOrder, WorkerInformed, StopDrains, State
<1> QED
  BY <1>2, <1>3 DEF IInv

LEMMA NextInv == IInv /\ [Next]_vars => IInv'
<1> SUFFICES ASSUME IInv, [Next]_vars
             PROVE  IInv'
  OBVIOUS
<1>1. CASE Client
  BY <1>1, ClientKeeps
<1>2. CASE Execute
  BY <1>2, ExecuteKeeps
<1>3. ASSUME Poll \/ Drain, UNCHANGED clientVars
      PROVE  IInv'
  BY <1>3, LoadKeeps DEF Poll, Drain, Loadable
<1>4. ASSUME Pop, UNCHANGED clientVars
      PROVE  IInv'
  BY <1>4, PopKeeps DEF Pop
<1>5. CASE UNCHANGED vars
  <2>1. UNCHANGED <<stores, pushed, ownerSeen, opc, popped, workerSeen, tailSeen, wpc,
                    submitted, ready, waiting>>
    BY <1>5 DEF vars, workVars, ownerVars, workerVars, clientVars
  <2> QED
    BY <2>1 DEF IInv, TypeOK, WorkTypeOK, Counted, StoresInOrder, WorkerInformed, Answered,
                StopDrains, HardStopped, Running, Latest, State
<1> QED
  BY <1>1, <1>2, <1>3, <1>4, <1>5 DEF Next, Thread

(* The invariant holds whatever the client and the tasks do.               *)
THEOREM Invariance == Spec => []IInv
BY InitInv, NextInv, PTL DEF Spec

(* A thread that ends without a hard stop has run every task pushed.       *)
THEOREM StopIsDrained == Spec => []StopDrains
<1>1. IInv => StopDrains
  BY DEF IInv
<1> QED
  BY <1>1, Invariance, PTL

(* The answers come one by one in the order of the submissions.            *)
THEOREM AnswersComeInOrder == Spec => []AnswersInOrder
<1>1. IInv => AnswersInOrder
  BY DEF IInv, AnswersInOrder, Answered, Running, Counted, TypeOK
<1> QED
  BY <1>1, Invariance, PTL

-----------------------------------------------------------------------------
(* Without a task that calls hard_stop the owner makes all stores and so   *)
(* has always seen the newest; none follows a hard stop but another one.   *)
Final ==
  /\ ownerSeen = Latest
  /\ opc = "storing" => State(ownerSeen) = "Running"
  /\ \A j, k \in 1 .. Latest : j <= k /\ State(j) = "HardStop" => State(k) = "HardStop"

LEMMA StoreIsFinal ==
  ASSUME IInv, Final, NEW state \in {"Stopping", "HardStop"}, OwnerStores(state),
         state = "HardStop" \/ State(Latest) # "HardStop", opc' # "storing"
  PROVE  Final'
<1>1. pushed \in 0 .. MaxTasks
  BY DEF IInv, TypeOK, WorkTypeOK
<1>2. /\ stores' \in Seq(StoreRecords) /\ Latest' = Latest + 1
      /\ \A k \in 1 .. Latest : stores'[k] = stores[k]
      /\ stores'[Latest'] = [state |-> state, tasks |-> pushed]
  BY <1>1, Typed, Stored DEF OwnerStores
<1>3. Latest \in 1 .. Latest /\ ownerSeen' = Latest'
  BY <1>2, Typed DEF OwnerStores
<1>4. ASSUME NEW j \in 1 .. Latest', NEW k \in 1 .. Latest', j <= k, stores'[j].state = "HardStop"
      PROVE  stores'[k].state = "HardStop"
  <2>1. CASE k = Latest'
    <3>1. j = Latest' \/ (j \in 1 .. Latest /\ j <= Latest /\ State(j) = "HardStop")
      BY <1>2, <1>4, Typed DEF State
    <3>2. State(Latest) = "HardStop" \/ state = "HardStop"
      BY <1>2, <1>3, <1>4, <3>1 DEF Final
    <3> QED
      BY <1>2, <2>1, <3>2
  <2>2. CASE k # Latest'
    <3>1. j \in 1 .. Latest /\ k \in 1 .. Latest
      BY <1>2, <1>4, <2>2, Typed
    <3> QED
      BY <1>2, <1>4, <3>1 DEF Final, State
  <2> QED
    BY <2>1, <2>2
<1> QED
  BY <1>3, <1>4 DEF Final, State

LEMMA NextFinal == Killers = {} /\ IInv /\ Final /\ [Next]_vars => Final'
<1> SUFFICES ASSUME Killers = {}, IInv, Final, [Next]_vars
             PROVE  Final'
  OBVIOUS
<1>1. ASSUME UNCHANGED <<stores, opc>>, ownerSeen' \in ownerSeen .. Latest
      PROVE  Final'
  BY <1>1, Typed DEF Final, Latest, State
<1>2. ASSUME UNCHANGED stores, ownerSeen' \in ownerSeen .. Latest, opc' # "storing"
      PROVE  Final'
  BY <1>2, Typed DEF Final, Latest, State
<1>3. CASE TrySubmit \/ BeginSubmit \/ Submit
  <2>1. UNCHANGED stores /\ opc' # "storing"
    BY <1>3 DEF TrySubmit, Push, BeginSubmit, Submit, Enqueue
  <2>2. ownerSeen' \in ownerSeen .. Latest
    BY <1>3 DEF TrySubmit, Push, BeginSubmit, Submit, Enqueue, Loadable
  <2> QED
    BY <1>2, <2>1, <2>2
<1>4. CASE Stop
  <2>1. State(Latest) # "HardStop"
    BY <1>4, Typed DEF Stop, Loadable, Final
  <2> QED
    BY <1>4, <2>1, StoreIsFinal DEF Stop
<1>5. CASE HardStop
  BY <1>5, StoreIsFinal DEF HardStop
<1>6. CASE CheckState
  <2>1. PICK k \in Loadable(ownerSeen) :
               ownerSeen' = k /\ opc' = IF State(k) = "Running" THEN "storing" ELSE "joining"
    BY <1>6 DEF CheckState
  <2>2. k = ownerSeen /\ UNCHANGED stores
    BY <1>6, <2>1, Typed DEF CheckState, Loadable, Final
  <2> QED
    BY <2>1, <2>2, Typed DEF Final, Latest, State
<1>7. CASE StoreStopping
  <2>1. State(Latest) # "HardStop"
    BY <1>7 DEF StoreStopping, Final
  <2> QED
    BY <1>7, <2>1, StoreIsFinal DEF StoreStopping
<1>8. CASE Join
  BY <1>2, <1>8, Typed DEF Join
<1>9. CASE Get \/ \E n \in 1 .. submitted : BeginGet(n)
  BY <1>1, <1>9, Typed DEF Get, BeginGet, workVars, ownerVars
<1>10. CASE Execute
  <2>1. UNCHANGED <<stores, ownerVars>>
    BY <1>10 DEF Execute, RunTask
  <2> QED
    BY <1>1, <2>1, Typed DEF ownerVars
<1>11. CASE Poll \/ Drain \/ Pop
  BY <1>1, <1>11, Typed DEF Poll, PollFrom, Drain, DrainFrom, Load, Pop, PopUpTo, ownerVars
<1>12. CASE UNCHANGED vars
  BY <1>1, <1>12, Typed DEF vars, workVars, ownerVars
<1> QED
  BY <1>3, <1>4, <1>5, <1>6, <1>7, <1>8, <1>9, <1>10, <1>11, <1>12 DEF Next, Client, Thread

(* Once the worker has read a hard stop it starts no task any more.        *)
THEOREM HardStopIsHeeded ==
  ASSUME Killers = {}
  PROVE  Spec => HardStopHeeded
<1> DEFINE Heeded == (\E k \in 1 .. workerSeen : State(k) = "HardStop") => popped' = popped
<1>1. Init => Final
  <2> SUFFICES ASSUME Init
               PROVE  Final
    OBVIOUS
  <2>1. Latest = 1 /\ ownerSeen = 1 /\ State(1) = "Running" /\ opc = "idle"
    BY DEF Init, WorkInit, Latest, State
  <2> QED
    BY <2>1 DEF Final
<1>2. IInv /\ Final /\ [Next]_vars => [Heeded]_workVars
  <2> SUFFICES ASSUME IInv, Final, [Next]_vars, NEW k \in 1 .. workerSeen, State(k) = "HardStop",
                      popped' # popped
               PROVE  FALSE
    OBVIOUS
  <2>1. Pop
    BY DEF Next, Client, Thread, TrySubmit, Push, BeginSubmit, Submit, Enqueue, Stop, HardStop,
           OwnerStores, CheckState, StoreStopping, Join, Get, BeginGet, Execute, RunTask, Poll,
           PollFrom, Drain, DrainFrom, Load, vars, workVars, workerVars
  <2>2. wpc \in {"pop", "drainPop"}
    BY <2>1 DEF Pop, PopUpTo
  <2>3. State(workerSeen) # "HardStop"
    BY <2>2 DEF IInv, WorkerInformed, StoresInOrder
  <2> QED
    BY <2>3, Typed DEF Final
<1>3. Spec => []Final
  BY <1>1, NextFinal, Invariance, PTL DEF Spec
<1>4. Spec => [][Heeded]_workVars
  BY <1>2, <1>3, Invariance, PTL DEF Spec
<1> QED
  BY <1>4 DEF HardStopHeeded
=============================================================================
