----------------------------- MODULE FlowProofs -----------------------------
(***************************************************************************)
(* Proofs about run_task_flow, module TaskFlow, for every number of        *)
(* messages and ticks, every ring depth and every size of the tables: at   *)
(* no moment are two messages in the ring, and run_task_flow finds its     *)
(* conditions satisfied, whenever the interrupts arrive.  The module rests *)
(* on the definitions of Task and Ipc only.                                *)
(***************************************************************************)
EXTENDS TaskFlow, TLAPS

(* The slots the three tasks get, and the two loop counters. *)
Producer == 0
Consumer == 1
Observer == 2
FlowTasks == {Producer, Consumer, Observer}
SentCount == sequence["producer"]
ReceivedCount == sequence["consumer"]

Positions == {"none", "send", "receive", "sent", "finish", "exited", "read_ticks",
              "read_irqs", "check_ticks", "check_irqs", "hlt", "halted", "woken"}

(* Where producer and consumer go on after n messages. *)
After(n, again) == IF n < TASK_FLOW_MESSAGES THEN again ELSE "finish"

(* The ring is empty, or holds the message with number k. *)
Ring == endpoints[task_flow_endpoint]
RingOpen == Ring.allocated /\ Ring.rejected_messages = 0
RingEmpty == RingOpen /\ Ring.write_sequence = Ring.read_sequence
RingHolds(k) ==
  /\ RingOpen /\ Ring.write_sequence = (Ring.read_sequence + 1) % SeqMod
  /\ LET m == Ring.queue[Ring.read_sequence % IPC_QUEUE_DEPTH]
     IN  /\ m.sender = Producer /\ m.length = 1 /\ m.payload[0] = k
         /\ \A i \in Indices : i >= 1 => m.payload[i] = 0

Counts(sent, received, produced, consumed) ==
  /\ SentCount = sent /\ ReceivedCount = received
  /\ produced_messages = produced /\ consumed_messages = consumed

Balanced(k) == Counts(k, k, k, k) /\ RingEmpty
Suspended(t, place) == state[t] = "READY" /\ at[t] = place
Exited(t) == state[t] = "FINISHED" /\ at[t] = "exited"

(* The turns of producer and consumer alternate, and each passes on one    *)
(* message.  The producer runs: the consumer waits for its message.        *)
ProducerRuns ==
  \E k \in 0 .. TASK_FLOW_MESSAGES :
    /\ Suspended(Consumer, After(k, "receive"))
    /\ \/ at[Producer] = After(k, "send") /\ Balanced(k)
       \/ /\ at[Producer] = "sent" /\ k < TASK_FLOW_MESSAGES
          /\ Counts(k, k, k + 1, k) /\ RingHolds(k)

(* The consumer runs: the producer is ahead by the message it left, or has *)
(* exited.                                                                 *)
ConsumerRuns ==
  \/ \E k \in 0 .. TASK_FLOW_MESSAGES - 1 :
       /\ Suspended(Producer, After(k + 1, "send"))
       /\ \/ at[Consumer] = "receive" /\ Counts(k + 1, k, k + 1, k) /\ RingHolds(k)
          \/ at[Consumer] = "sent" /\ Counts(k + 1, k, k + 1, k + 1) /\ RingEmpty
  \/ /\ Exited(Producer) /\ at[Consumer] = "finish"
     /\ Balanced(TASK_FLOW_MESSAGES)

(* Neither runs: both have had the same number of turns, or both exited. *)
BothWait ==
  \E k \in 0 .. TASK_FLOW_MESSAGES :
    /\ Suspended(Producer, After(k, "send")) /\ Suspended(Consumer, After(k, "receive"))
    /\ Balanced(k)
BothExited ==
  Exited(Producer) /\ Exited(Consumer) /\ Balanced(TASK_FLOW_MESSAGES)

ObserverWaits ==
  \/ state[Observer] = "READY" /\ at[Observer] \in {"read_ticks", "check_ticks"}
  \/ Exited(Observer)

TurnInv ==
  \/ cpu = Producer /\ ProducerRuns /\ ObserverWaits
  \/ cpu = Consumer /\ ConsumerRuns /\ ObserverWaits
  \/ /\ cpu = Observer /\ (BothWait \/ BothExited)
     /\ at[Observer] \in {"read_ticks", "read_irqs", "check_ticks",
                          "check_irqs", "hlt", "halted", "woken", "finish"}
     /\ at[Observer] = "halted" => pc = "body"
  \/ cpu = Boot /\ BothExited /\ Exited(Observer)

FinishedInv ==
  /\ finished \subseteq Bodies
  /\ \A t \in FlowTasks : entry[t] \in finished <=> at[t] = "exited"

(* The observer's loop: the counters advance together, and its two start   *)
(* values were read in this order.                                         *)
Elapsed == irq0_count - task_flow_irq_start
TimerInv ==
  /\ tick_count \in Nat /\ irq0_count = tick_count /\ keys \in 0 .. MaxKeys
  /\ task_flow_tick_start \in Nat /\ task_flow_irq_start \in Nat
  /\ at[Observer] # "read_ticks" => task_flow_tick_start <= tick_count
  /\ at[Observer] \notin {"read_ticks", "read_irqs"} =>
       task_flow_tick_start <= task_flow_irq_start /\ task_flow_irq_start <= irq0_count
  /\ at[Observer] \in {"finish", "exited"} => Elapsed >= PIT_TEST_TICKS

(* The dispatches so far: a turn of producer or consumer for each message  *)
(* and the turn that runs or in which it exited, and of the observer no    *)
(* more than one and the interrupts that ended its hlt.  From the test in  *)
(* front of a hlt on, the turn after it and the tick that may end it are   *)
(* counted: a tick between the two finds PIT_TEST_TICKS not yet reached.   *)
Turns(n, t) == n + (IF state[t] = "READY" THEN 0 ELSE 1)
ToCome == IF state[Observer] = "READY" \/ at[Observer] \in {"hlt", "halted", "woken"}
          THEN 1 ELSE 0
Counted == IF at[Observer] \in {"hlt", "halted"} THEN Elapsed + 1 ELSE Elapsed
Woken == IF at[Observer] \in {"read_ticks", "read_irqs"} THEN 0
         ELSE IF Counted < PIT_TEST_TICKS THEN Counted ELSE PIT_TEST_TICKS
DispatchInv ==
  /\ base = 0 /\ budget = TASK_FLOW_BUDGET /\ switch_count = slices
  /\ slices + ToCome <= Turns(SentCount, Producer) + Turns(ReceivedCount, Consumer)
                          + 1 + Woken + keys

TablesInv ==
  /\ entry[Producer] = "producer" /\ entry[Consumer] = "consumer"
  /\ entry[Observer] = "observer"
  /\ \A t \in Tasks \ FlowTasks : state[t] = "UNUSED"
  /\ producer_task_id = Producer
RunInv == TablesInv /\ TurnInv /\ FinishedInv /\ TimerInv /\ DispatchInv

(* Before task_run: what has been created, and that nothing has run. *)
IsCreated(t) ==
  \/ t = Producer /\ boot_at \in {"create_consumer", "create_observer", "run"}
  \/ t = Consumer /\ boot_at \in {"create_observer", "run"}
  \/ t = Observer /\ boot_at = "run"
StartsAs(t, body, place) == state[t] = "READY" /\ entry[t] = body /\ at[t] = place
BootInv ==
  /\ cpu = Boot /\ pc = "body"
  /\ tick_count \in Nat /\ irq0_count = tick_count /\ keys \in 0 .. MaxKeys
  /\ task_flow_tick_start = 0 /\ task_flow_irq_start = 0
  /\ finished = {} /\ Counts(0, 0, 0, 0)
  /\ IF boot_at = "sti" THEN \A e \in Endpoints : endpoints[e] = Fresh ELSE RingEmpty
  /\ boot_at \in {"create_producer", "create_consumer", "create_observer", "run"} =>
       /\ scheduler_initialized /\ switch_count = 0
       /\ round_robin_cursor = TASK_INVALID_ID
       /\ \A t \in Tasks : ~ IsCreated(t) => state[t] = "UNUSED"
       /\ IsCreated(Producer) =>
            StartsAs(Producer, "producer", "send") /\ producer_task_id = Producer
       /\ IsCreated(Consumer) => StartsAs(Consumer, "consumer", "receive")
       /\ IsCreated(Observer) => StartsAs(Observer, "observer", "read_ticks")

FlowInv ==
  /\ task_flow_failed = FALSE
  /\ entry \in [Tasks -> Bodies \cup {"none"}] /\ at \in [Tasks -> Positions]
  /\ sequence \in [{"producer", "consumer"} -> 0 .. TASK_FLOW_MESSAGES]
  /\ \/ /\ boot_at \in {"sti", "wait_ticks", "wait_irqs", "hlt", "halted", "reset", "create_producer",
                        "create_consumer", "create_observer", "run"}
        /\ BootInv
     \/ boot_at = "running" /\ RunInv /\ (cpu = Boot => pc = "run")
     \/ boot_at = "check" /\ RunInv /\ cpu = Boot /\ pc = "body" /\ ret = "true"

(* What the flow needs of the scheduler: whoever owns the CPU is known to  *)
(* it, the bootstrap waits in task_run meanwhile, every dispatch is taken  *)
(* from the budget, and the exits are counted.                             *)
Gone(t) == IF state[t] = "FINISHED" THEN 1 ELSE 0
SchedInv ==
  /\ state \in [Tasks -> States] /\ DOMAIN stack = Contexts
  /\ slices \in Nat /\ remaining_dispatches \in Nat
  /\ round_robin_cursor \in Tasks \cup {TASK_INVALID_ID}
  /\ finished_count = Gone(Producer) + Gone(Consumer) + Gone(Observer)
  /\ cpu \in Contexts
  /\ cpu = Boot => ~ scheduler_running /\ current_task_id = TASK_INVALID_ID
  /\ cpu # Boot => /\ scheduler_initialized /\ scheduler_running
                   /\ current_task_id = cpu /\ state[cpu] = "RUNNING"
                   /\ stack[Boot].at = "run"
                   /\ slices + remaining_dispatches = budget

(* The inductive invariant of the flow. *)
WholeInv == SchedInv /\ IpcTypeOK /\ FlowInv

-----------------------------------------------------------------------------
(* The three slots exist and differ. *)
LEMMA FlowSlots ==
  /\ Producer \in Tasks /\ Consumer \in Tasks /\ Observer \in Tasks
  /\ Producer # Consumer /\ Producer # Observer /\ Consumer # Observer
  /\ Producer # Boot /\ Consumer # Boot /\ Observer # Boot
  /\ Tasks \subseteq Contexts /\ Boot \in Contexts /\ Boot \notin Tasks
  /\ TASK_INVALID_ID \notin Tasks
  BY FlowAssumption, TaskAssumption
  DEF Producer, Consumer, Observer, Tasks, N, Boot, Contexts, TASK_INVALID_ID

(* The remainders the search of find_next_ready can meet. *)
LEMMA ModCases == /\ \A i \in Nat : i < N => i % N = i
                  /\ \A i \in Nat : N <= i /\ i < 2 * N => i % N = i - N
                  /\ \A i \in Nat : i % N \in Tasks
  BY TaskAssumption DEF N, Tasks

(* The search of find_next_ready stops at the least offset that hits. *)
LEMMA FoundAt ==
  ASSUME NEW st, NEW after, NEW d \in Tasks, NEW start,
         start = IF after # TASK_INVALID_ID THEN (after + 1) % N ELSE 0,
         st[(start + d) % N] = "READY",
         \A o \in Tasks : o < d => st[(start + o) % N] # "READY"
  PROVE  find_next_ready(st, after) = (start + d) % N
  <1> DEFINE hit(offset) == st[(start + offset) % N] = "READY"
             least == CHOOSE offset \in Tasks :
                        /\ hit(offset)
                        /\ \A o \in Tasks : o < offset => ~ hit(o)
  <1>1. hit(d) /\ \A o \in Tasks : o < d => ~ hit(o)
    BY Zenon
  <1>2. /\ least \in Tasks /\ hit(least)
        /\ \A o \in Tasks : o < least => ~ hit(o)
    BY <1>1, Zenon
  <1>3. find_next_ready(st, after) = (start + least) % N
    BY <1>1, Zenon DEF find_next_ready
  <1>4. ~ (least < d) /\ ~ (d < least)
    BY <1>1, <1>2, Zenon
  <1> HIDE DEF least, hit
  <1>5. least = d
    BY <1>2, <1>4, TaskAssumption DEF Tasks, N
  <1> QED  BY <1>3, <1>5, Zenon

(* With no READY slot it finds nothing. *)
LEMMA NoneFound ==
  ASSUME NEW st, NEW after \in Tasks \cup {TASK_INVALID_ID},
         \A t \in Tasks : st[t] # "READY"
  PROVE  find_next_ready(st, after) = TASK_INVALID_ID
  <1> DEFINE start == IF after # TASK_INVALID_ID THEN (after + 1) % N ELSE 0
  <1>1. start \in Nat
    BY TaskAssumption, ModCases DEF Tasks, N, TASK_INVALID_ID
  <1> HIDE DEF start
  <1>2. \A offset \in Tasks : (start + offset) % N \in Tasks
    BY <1>1, TaskAssumption, ModCases DEF Tasks, N
  <1>3. \A offset \in Tasks : st[(start + offset) % N] # "READY"
    BY <1>2, Zenon
  <1> QED  BY <1>3, Zenon DEF find_next_ready, start


(* The turns go round: after the producer comes the consumer, then the     *)
(* observer, then the producer again; tasks that are not READY are passed  *)
(* over.                                                                   *)
LEMMA NextTurn ==
  ASSUME NEW st, \A t \in Tasks \ FlowTasks : st[t] # "READY"
  PROVE  /\ st[Consumer] = "READY" => find_next_ready(st, Producer) = Consumer
         /\ st[Observer] = "READY" => find_next_ready(st, Consumer) = Observer
         /\ st[Observer] # "READY" /\ st[Producer] = "READY" =>
              find_next_ready(st, Consumer) = Producer
         /\ st[Producer] = "READY" => find_next_ready(st, Observer) = Producer
         /\ st[Producer] # "READY" /\ st[Consumer] # "READY" /\ st[Observer] = "READY" =>
              find_next_ready(st, Observer) = Observer
         /\ st[Producer] = "READY" => find_next_ready(st, TASK_INVALID_ID) = Producer
         /\ (\A t \in FlowTasks : st[t] # "READY") =>
              \A t \in Tasks \cup {TASK_INVALID_ID} : find_next_ready(st, t) = TASK_INVALID_ID
  <1>1. N \in Nat /\ N >= 3 /\ Tasks = 0 .. N - 1 /\ TASK_INVALID_ID = N
    BY FlowAssumption, TaskAssumption, Zenon DEF N, Tasks, TASK_INVALID_ID
  <1>2. /\ \A i \in Nat : i < N => i % N = i
        /\ \A i \in Nat : N <= i /\ i < 2 * N => i % N = i - N
    BY ModCases, Zenon
  <1>3. \A t \in 0 .. N - 1 : t >= 3 => st[t] # "READY"
    BY <1>1, SMT DEF FlowTasks, Producer, Consumer, Observer
  <1>4. ASSUME st[1] = "READY" PROVE find_next_ready(st, 0) = 1
    <2>1. (0 + 1) % N = 1 /\ (1 + 0) % N = 1
      BY <1>1, <1>2
    <2>2. st[(1 + 0) % N] = "READY" /\ \A o \in Tasks : ~ (o < 0)
      BY <2>1, <1>1, <1>4
    <2> QED  BY <2>1, <2>2, <1>1, FoundAt
  <1>5. ASSUME st[2] = "READY" PROVE find_next_ready(st, 1) = 2
    <2>1. (1 + 1) % N = 2 /\ (2 + 0) % N = 2
      BY <1>1, <1>2
    <2>2. st[(2 + 0) % N] = "READY" /\ \A o \in Tasks : ~ (o < 0)
      BY <2>1, <1>1, <1>5
    <2> QED  BY <2>1, <2>2, <1>1, FoundAt
  <1>6. ASSUME st[2] # "READY", st[0] = "READY" PROVE find_next_ready(st, 1) = 0
    <2>1. (1 + 1) % N = 2 /\ (2 + (N - 2)) % N = 0
      BY <1>1, <1>2
    <2>2. \A o \in 0 .. N - 1 : o < N - 2 => (2 + o) % N = 2 + o
      BY <1>1, <1>2
    <2>3. \A o \in 0 .. N - 1 : o < N - 2 => st[(2 + o) % N] # "READY"
      BY <2>2, <1>1, <1>3, <1>6
    <2> DEFINE d == N - 2
               s == 2
    <2>4. /\ d \in Tasks /\ st[(s + d) % N] = "READY"
          /\ \A o \in Tasks : o < d => st[(s + o) % N] # "READY"
          /\ s = IF 1 # TASK_INVALID_ID THEN (1 + 1) % N ELSE 0
      BY <2>1, <2>3, <1>1, <1>6
    <2> HIDE DEF d, s
    <2>5. find_next_ready(st, 1) = (s + d) % N
      BY <2>4, FoundAt
    <2> QED  BY <2>1, <2>5, Zenon DEF d, s
  <1>7. ASSUME st[0] = "READY" PROVE find_next_ready(st, 2) = 0
    <2>1. CASE N = 3
      <3>1. (2 + 1) % N = 0 /\ (0 + 0) % N = 0
        BY <2>1, <1>2
      <3>2. st[(0 + 0) % N] = "READY" /\ \A o \in Tasks : ~ (o < 0)
        BY <3>1, <1>1, <1>7
      <3> QED  BY <3>1, <3>2, <1>1, FoundAt
    <2>2. CASE N > 3
      <3>1. (2 + 1) % N = 3 /\ (3 + (N - 3)) % N = 0
        BY <2>2, <1>1, <1>2
      <3>2. \A o \in 0 .. N - 1 : o < N - 3 => (3 + o) % N = 3 + o
        BY <1>1, <1>2
      <3>3. \A o \in 0 .. N - 1 : o < N - 3 => st[(3 + o) % N] # "READY"
        BY <3>2, <1>1, <1>3
      <3> DEFINE d == N - 3
                 s == 3
      <3>4. /\ d \in Tasks /\ st[(s + d) % N] = "READY"
            /\ \A o \in Tasks : o < d => st[(s + o) % N] # "READY"
            /\ s = IF 2 # TASK_INVALID_ID THEN (2 + 1) % N ELSE 0
        BY <3>1, <3>3, <1>1, <1>7
      <3> HIDE DEF d, s
      <3>5. find_next_ready(st, 2) = (s + d) % N
        BY <3>4, FoundAt
      <3> QED  BY <3>1, <3>5, Zenon DEF d, s
    <2> QED  BY <2>1, <2>2, <1>1
  <1>8. ASSUME st[0] # "READY", st[1] # "READY", st[2] = "READY"
        PROVE  find_next_ready(st, 2) = 2
    <2>1. CASE N = 3
      <3>1. (2 + 1) % N = 0 /\ (0 + 2) % N = 2
        BY <2>1, <1>2
      <3>2. \A o \in 0 .. N - 1 : o < 2 => (0 + o) % N = o
        BY <2>1, <1>2
      <3>3. \A o \in 0 .. N - 1 : o < 2 => st[(0 + o) % N] # "READY"
        BY <3>2, <1>1, <1>8
      <3> QED  BY <3>1, <3>3, <2>1, <1>1, <1>8, FoundAt
    <2>2. CASE N > 3
      <3>1. (2 + 1) % N = 3 /\ (3 + (N - 1)) % N = 2
        BY <2>2, <1>1, <1>2
      <3>2. \A o \in 0 .. N - 1 : o < N - 1 =>
              (3 + o) % N = IF 3 + o < N THEN 3 + o ELSE 3 + o - N
        BY <2>2, <1>1, <1>2
      <3>3. \A o \in 0 .. N - 1 : o < N - 1 => st[(3 + o) % N] # "READY"
        BY <3>2, <1>1, <1>3, <1>8
      <3> QED  BY <3>1, <3>3, <1>1, <1>8, FoundAt, SMTT(30)
    <2> QED  BY <2>1, <2>2, <1>1
  <1>9. ASSUME st[0] = "READY" PROVE find_next_ready(st, TASK_INVALID_ID) = 0
    <2>1. (0 + 0) % N = 0
      BY <1>1, <1>2
    <2>2. st[(0 + 0) % N] = "READY" /\ \A o \in Tasks : ~ (o < 0)
      BY <2>1, <1>1, <1>9
    <2> QED  BY <2>1, <2>2, <1>1, FoundAt
  <1>10. ASSUME \A t \in FlowTasks : st[t] # "READY"
         PROVE  \A t \in Tasks \cup {TASK_INVALID_ID} :
                  find_next_ready(st, t) = TASK_INVALID_ID
    <2>1. \A t \in Tasks : st[t] # "READY"
      BY <1>10, Zenon
    <2> QED  BY <2>1, NoneFound, Zenon
  <1> QED
    BY <1>4, <1>5, <1>6, <1>7, <1>8, <1>9, <1>10, Zenon DEF Producer, Consumer, Observer

-----------------------------------------------------------------------------
(* What a dispatch of `next' leaves behind when cpu stops as `mine'. *)
LEMMA Dispatched ==
  ASSUME SchedInv, cpu \in FlowTasks, remaining_dispatches # 0,
         NEW mine \in {"READY", "FINISHED"}, NEW next \in FlowTasks,
         NEW st, st = [state EXCEPT ![cpu] = mine], st[next] = "READY",
         activate_task(st, next, remaining_dispatches),
         slices' = slices + 1, budget' = budget, cpu' = next,
         scheduler_initialized', scheduler_running',
         finished_count' = finished_count + (IF mine = "FINISHED" THEN 1 ELSE 0),
         DOMAIN stack' = Contexts, stack'[Boot].at = "run"
  PROVE  SchedInv'
  <1>1. cpu \in Tasks /\ next \in Tasks /\ cpu # Boot /\ next # Boot
        /\ next \in Contexts /\ next \in Tasks \cup {TASK_INVALID_ID}
    BY FlowSlots, Zenon DEF FlowTasks
  <1>2. /\ state \in [Tasks -> States] /\ state[cpu] = "RUNNING"
        /\ slices \in Nat /\ remaining_dispatches \in Nat
        /\ slices + remaining_dispatches = budget
        /\ finished_count = Gone(Producer) + Gone(Consumer) + Gone(Observer)
    BY <1>1, Zenon DEF SchedInv
  <1>3. /\ state' = [st EXCEPT ![next] = "RUNNING"] /\ current_task_id' = next
        /\ round_robin_cursor' = next /\ remaining_dispatches' = remaining_dispatches - 1
    BY Zenon DEF activate_task
  <1>4. state' \in [Tasks -> States] /\ state'[next] = "RUNNING"
    BY <1>1, <1>2, <1>3, Zenon DEF States
  <1>5. /\ cpu # next => state'[cpu] = mine
        /\ cpu = next => mine = "READY"
        /\ cpu # next => state[next] = "READY"
        /\ \A t \in Tasks : t # cpu /\ t # next => state'[t] = state[t]
    BY <1>1, <1>2, <1>3, Zenon
  <1>6. \A t \in FlowTasks : Gone(t)' = Gone(t) + (IF t = cpu /\ mine = "FINISHED" THEN 1 ELSE 0)
    BY <1>1, <1>2, <1>4, <1>5, FlowSlots DEF Gone, FlowTasks
  <1>7. Gone(Producer) \in Nat /\ Gone(Consumer) \in Nat /\ Gone(Observer) \in Nat
    BY Zenon DEF Gone
  <1>8. finished_count' = Gone(Producer)' + Gone(Consumer)' + Gone(Observer)'
    BY <1>2, <1>6, <1>7, FlowSlots DEF FlowTasks
  <1>9. /\ slices' \in Nat /\ remaining_dispatches' \in Nat
        /\ slices' + remaining_dispatches' = budget'
    BY <1>2, <1>3
  <1> QED  BY <1>1, <1>3, <1>4, <1>8, <1>9, Zenon DEF SchedInv

(* A yield when `next' is the task to run and the budget is not spent. *)
LEMMA YieldEffect ==
  ASSUME SchedInv, cpu \in FlowTasks, task_yield, remaining_dispatches # 0,
         NEW st, st = [state EXCEPT ![cpu] = "READY"],
         NEW next \in FlowTasks, find_next_ready(st, cpu) = next, st[next] = "READY"
  PROVE  /\ state' = [st EXCEPT ![next] = "RUNNING"] /\ cpu' = next
         /\ slices' = slices + 1 /\ switch_count' = (switch_count + 1) % CounterMod
         /\ budget' = budget /\ base' = base
         /\ SchedInv'
  <1>1. /\ cpu \in Tasks /\ next \in Tasks /\ next # TASK_INVALID_ID
        /\ cpu # Boot /\ next # Boot
    BY FlowSlots, Zenon DEF FlowTasks
  <1>2. /\ InTask /\ current_task_id = cpu /\ stack[Boot].at = "run"
        /\ DOMAIN stack = Contexts /\ scheduler_initialized /\ scheduler_running
    BY <1>1, Zenon DEF SchedInv, InTask
  <1>3. CanActivate(st, next, remaining_dispatches)
    BY <1>1, Zenon DEF CanActivate
  <1>4. /\ activate_task(st, next, remaining_dispatches)
        /\ slices' = slices + 1
        /\ IF next = cpu THEN restore(IF_flag)
           ELSE task_context_switch(cpu, "body", IF_flag, next)
        /\ UNCHANGED <<scheduler_running, scheduler_initialized, finished_count, budget, base>>
    BY <1>1, <1>2, <1>3, Zenon DEF task_yield
  <1>5. cpu' = next
    BY <1>4, Zenon DEF restore, task_context_switch
  <1>6. DOMAIN stack' = Contexts /\ stack'[Boot].at = "run"
    BY <1>1, <1>2, <1>4, FlowSlots, Zenon DEF restore, task_context_switch
  <1>7. finished_count' = finished_count + (IF "READY" = "FINISHED" THEN 1 ELSE 0)
    <2>1. finished_count \in Nat
      BY DEF SchedInv, Gone
    <2> QED  BY <2>1, <1>4
  <1>8. SchedInv'
    BY <1>2, <1>4, <1>5, <1>6, <1>7, Dispatched, Zenon
  <1> QED  BY <1>4, <1>5, <1>8, Zenon DEF activate_task

(* An exit with another task to run. *)
LEMMA ExitEffect ==
  ASSUME SchedInv, cpu \in FlowTasks, task_exit, remaining_dispatches # 0,
         NEW st, st = [state EXCEPT ![cpu] = "FINISHED"],
         NEW next \in FlowTasks, find_next_ready(st, cpu) = next, st[next] = "READY"
  PROVE  /\ state' = [st EXCEPT ![next] = "RUNNING"] /\ cpu' = next
         /\ slices' = slices + 1 /\ switch_count' = (switch_count + 1) % CounterMod
         /\ budget' = budget /\ base' = base
         /\ SchedInv'
  <1>1. /\ cpu \in Tasks /\ next \in Tasks /\ next # TASK_INVALID_ID
        /\ cpu # Boot /\ next # Boot
    BY FlowSlots, Zenon DEF FlowTasks
  <1>2. /\ InTask /\ current_task_id = cpu /\ stack[Boot].at = "run"
        /\ DOMAIN stack = Contexts /\ scheduler_initialized /\ scheduler_running
    BY <1>1, Zenon DEF SchedInv, InTask
  <1>3. CanActivate(st, next, remaining_dispatches)
    BY <1>1, Zenon DEF CanActivate
  <1>4. /\ activate_task(st, next, remaining_dispatches)
        /\ slices' = slices + 1 /\ finished_count' = finished_count + 1
        /\ task_context_switch(cpu, "stop", IF_flag, next)
        /\ UNCHANGED <<scheduler_running, scheduler_initialized, budget, base>>
    BY <1>1, <1>2, <1>3, Zenon DEF task_exit
  <1>5. cpu' = next
    BY <1>4, Zenon DEF task_context_switch
  <1>6. DOMAIN stack' = Contexts /\ stack'[Boot].at = "run"
    BY <1>1, <1>2, <1>4, FlowSlots, Zenon DEF task_context_switch
  <1>7. finished_count' = finished_count + (IF "FINISHED" = "FINISHED" THEN 1 ELSE 0)
    BY <1>4, Zenon
  <1>8. SchedInv'
    BY <1>2, <1>4, <1>5, <1>6, <1>7, Dispatched, Zenon
  <1> QED  BY <1>4, <1>5, <1>8, Zenon DEF activate_task

(* An exit of the last task. *)
LEMMA LastExitEffect ==
  ASSUME SchedInv, cpu \in FlowTasks, task_exit,
         NEW st, st = [state EXCEPT ![cpu] = "FINISHED"],
         find_next_ready(st, cpu) = TASK_INVALID_ID
  PROVE  /\ state' = st /\ cpu' = Boot /\ pc' = "run"
         /\ slices' = slices /\ switch_count' = switch_count
         /\ budget' = budget /\ base' = base
         /\ SchedInv'
  <1>1. cpu \in Tasks /\ cpu # Boot
    BY FlowSlots, Zenon DEF FlowTasks
  <1>2. /\ InTask /\ current_task_id = cpu /\ stack[Boot].at = "run"
        /\ DOMAIN stack = Contexts /\ state \in [Tasks -> States]
        /\ state[cpu] = "RUNNING" /\ slices \in Nat /\ remaining_dispatches \in Nat
        /\ round_robin_cursor \in Tasks \cup {TASK_INVALID_ID}
        /\ finished_count = Gone(Producer) + Gone(Consumer) + Gone(Observer)
    BY <1>1, Zenon DEF SchedInv, InTask
  <1>3. /\ switch_to_bootstrap(st, cpu, "stop", IF_flag)
        /\ finished_count' = finished_count + 1
        /\ UNCHANGED <<budget, base>>
    BY <1>2, Zenon DEF task_exit
  <1>4. /\ state' = st /\ cpu' = Boot /\ pc' = "run"
        /\ slices' = slices /\ switch_count' = switch_count
        /\ remaining_dispatches' = remaining_dispatches
        /\ round_robin_cursor' = round_robin_cursor
        /\ current_task_id' = TASK_INVALID_ID /\ scheduler_running' = FALSE
    BY <1>2, <1>3, Zenon DEF switch_to_bootstrap, task_context_switch
  <1>5. DOMAIN stack' = Contexts
    BY <1>2, <1>3, Zenon DEF switch_to_bootstrap, task_context_switch
  <1>6. /\ state' \in [Tasks -> States] /\ state'[cpu] = "FINISHED"
        /\ \A t \in Tasks : t # cpu => state'[t] = state[t]
    BY <1>1, <1>2, <1>4, Zenon DEF States
  <1>7. \A t \in FlowTasks : Gone(t)' = Gone(t) + (IF t = cpu THEN 1 ELSE 0)
    BY <1>1, <1>2, <1>6, FlowSlots DEF Gone, FlowTasks
  <1>8. Gone(Producer) \in Nat /\ Gone(Consumer) \in Nat /\ Gone(Observer) \in Nat
    BY Zenon DEF Gone
  <1>9. finished_count' = Gone(Producer)' + Gone(Consumer)' + Gone(Observer)'
    BY <1>2, <1>3, <1>7, <1>8, FlowSlots DEF FlowTasks
  <1>10. SchedInv'
    BY <1>2, <1>4, <1>5, <1>6, <1>9, FlowSlots, Zenon DEF SchedInv
  <1> QED  BY <1>3, <1>4, <1>10, Zenon

(* As long as some task has a turn to come, the budget is not spent. *)
LEMMA Room ==
  ASSUME SchedInv, FlowInv, TimerInv, DispatchInv, scheduler_running,
         \/ state[Producer] = "READY" \/ state[Consumer] = "READY"
         \/ state[Observer] = "READY" \/ at[Observer] = "woken"
  PROVE  remaining_dispatches # 0 /\ (switch_count + 1) % CounterMod = slices + 1
  <1> DEFINE p == Turns(SentCount, Producer)
             c == Turns(ReceivedCount, Consumer)
             o == ToCome
             w == Woken
             k == keys
             M == TASK_FLOW_MESSAGES
  <1>1. SentCount \in 0 .. M /\ ReceivedCount \in 0 .. M /\ M \in Nat
    BY FlowAssumption, Zenon DEF FlowInv, SentCount, ReceivedCount
  <1>2. /\ p \in 0 .. M + 1 /\ c \in 0 .. M + 1 /\ o \in 0 .. 1
        /\ p <= M \/ c <= M \/ o = 1
    BY <1>1 DEF Turns, ToCome
  <1>3. w \in 0 .. PIT_TEST_TICKS /\ k \in 0 .. MaxKeys
    BY FlowAssumption DEF TimerInv, Woken, Counted, Elapsed
  <1>4. /\ slices + remaining_dispatches = TASK_FLOW_BUDGET /\ switch_count = slices
        /\ slices \in Nat /\ remaining_dispatches \in Nat
        /\ slices + o <= p + c + 1 + w + k
    BY Zenon DEF SchedInv, DispatchInv
  <1> HIDE DEF p, c, o, w, k, M
  <1>5. 2 * (M + 1) + 1 + PIT_TEST_TICKS + MaxKeys <= TASK_FLOW_BUDGET
        /\ TASK_FLOW_BUDGET < CounterMod /\ PIT_TEST_TICKS \in Nat /\ MaxKeys \in Nat
        /\ CounterMod \in Nat /\ TASK_FLOW_BUDGET \in Nat /\ M \in Nat
    BY FlowAssumption, TaskAssumption, Zenon DEF M
  <1>6. slices < TASK_FLOW_BUDGET
    BY <1>2, <1>3, <1>4, <1>5
  <1>7. remaining_dispatches # 0 /\ slices + 1 < CounterMod
    BY <1>4, <1>5, <1>6
  <1> QED  BY <1>4, <1>5, <1>7

-----------------------------------------------------------------------------
(* Who executes a step of a body, and what is known of the others. *)
LEMMA WhoRuns ==
  ASSUME WholeInv, NEW body \in Bodies, NEW places, InBody(body, places)
  PROVE  /\ boot_at = "running" /\ RunInv /\ scheduler_running
         /\ state[cpu] = "RUNNING" /\ at[cpu] \in places /\ pc = "body"
         /\ current_task_id = cpu
         /\ body = "producer" => cpu = Producer /\ ProducerRuns /\ ObserverWaits
         /\ body = "consumer" => cpu = Consumer /\ ConsumerRuns /\ ObserverWaits
         /\ body = "observer" => /\ cpu = Observer /\ (BothWait \/ BothExited)
                                 /\ at[cpu] \in {"read_ticks", "read_irqs", "check_ticks",
                                                 "check_irqs", "hlt", "halted", "woken", "finish"}
  <1>1. cpu \in Tasks /\ cpu # Boot /\ entry[cpu] = body
    BY FlowSlots, Zenon DEF InBody
  <1>2. boot_at = "running" /\ RunInv
    BY <1>1, Zenon DEF WholeInv, FlowInv, BootInv
  <1>3. /\ scheduler_running /\ state[cpu] = "RUNNING" /\ current_task_id = cpu
        /\ at[cpu] \in places /\ pc = "body"
    BY <1>1, Zenon DEF WholeInv, SchedInv, InBody
  <1>4. /\ body = "producer" => cpu = Producer
        /\ body = "consumer" => cpu = Consumer
        /\ body = "observer" => cpu = Observer
    BY <1>1, <1>2, Zenon DEF RunInv, TablesInv, TurnInv
  <1> QED  BY <1>2, <1>3, <1>4, FlowSlots, Zenon DEF RunInv, TurnInv

(* What the tables of tasks and bodies look like after a dispatch. *)
LEMMA AfterSwitch ==
  ASSUME WholeInv, RunInv, cpu \in FlowTasks, NEW mine \in {"READY", "FINISHED"},
         NEW next \in FlowTasks, NEW place \in Positions,
         state' = [[state EXCEPT ![cpu] = mine] EXCEPT ![next] = "RUNNING"],
         Goto(place)
  PROVE  /\ state'[next] = "RUNNING"
         /\ cpu # next => state'[cpu] = mine
         /\ \A t \in Tasks : t # cpu /\ t # next => state'[t] = state[t]
         /\ at'[cpu] = place /\ at' \in [Tasks -> Positions]
         /\ \A t \in Tasks : t # cpu => at'[t] = at[t]
         /\ \A t \in Tasks \ FlowTasks : state'[t] = "UNUSED"
         /\ entry' = entry
  <1>1. state \in [Tasks -> States] /\ at \in [Tasks -> Positions]
    BY Zenon DEF WholeInv, SchedInv, FlowInv
  <1>2. cpu \in Tasks /\ next \in Tasks
    BY FlowSlots, Zenon DEF FlowTasks
  <1>3. /\ state'[next] = "RUNNING"
        /\ cpu # next => state'[cpu] = mine
        /\ \A t \in Tasks : t # cpu /\ t # next => state'[t] = state[t]
    BY <1>1, <1>2, Zenon
  <1>4. /\ at'[cpu] = place /\ at' \in [Tasks -> Positions] /\ entry' = entry
        /\ \A t \in Tasks : t # cpu => at'[t] = at[t]
    BY <1>1, <1>2, Zenon DEF Goto
  <1>5. \A t \in Tasks \ FlowTasks : state'[t] = "UNUSED"
    BY <1>3, Zenon DEF RunInv, TablesInv
  <1> QED  BY <1>3, <1>4, <1>5, Zenon

(* What is left to show of a step taken while the tasks run. *)
LEMMA RunsOn ==
  ASSUME WholeInv, boot_at = "running", boot_at' = boot_at, entry' = entry,
         at' \in [Tasks -> Positions],
         sequence' \in [{"producer", "consumer"} -> 0 .. TASK_FLOW_MESSAGES],
         task_flow_failed' = task_flow_failed, RunInv', cpu' # Boot \/ pc' = "run"
  PROVE  FlowInv'
  BY Zenon DEF WholeInv, FlowInv

(* The producer's turn ends with its message in the ring. *)
LEMMA ProducerYields ==
  ASSUME WholeInv, exchange_yield("producer", "send") PROVE SchedInv' /\ FlowInv'
  <1> DEFINE M == TASK_FLOW_MESSAGES
             st == [state EXCEPT ![Producer] = "READY"]
  <1>1. /\ InBody("producer", {"sent", "retry"}) /\ task_yield
        /\ UNCHANGED <<ipcVars, interruptVars, bootVars, flowVars>>
        /\ sequence' = [sequence EXCEPT !["producer"] =
                          SentCount + (IF at[cpu] = "sent" THEN 1 ELSE 0)]
        /\ Goto(After(SentCount + (IF at[cpu] = "sent" THEN 1 ELSE 0), "send"))
    BY Zenon DEF exchange_yield, After, SentCount
  <1>2. /\ boot_at = "running" /\ RunInv /\ scheduler_running
        /\ at[Producer] \in {"sent", "retry"}
        /\ cpu = Producer /\ ProducerRuns /\ ObserverWaits
    BY <1>1, WhoRuns, Zenon DEF Bodies
  <1>3. PICK k \in 0 .. M : /\ Suspended(Consumer, After(k, "receive"))
                            /\ at[Producer] = "sent" /\ k < M
                            /\ Counts(k, k, k + 1, k) /\ RingHolds(k)
    BY <1>2, Zenon DEF ProducerRuns, After
  <1>4. /\ state[Consumer] = "READY" /\ at[Consumer] = "receive"
        /\ SentCount = k /\ ReceivedCount = k
        /\ produced_messages = k + 1 /\ consumed_messages = k
    BY <1>3, Zenon DEF Suspended, After, Counts
  <1>5. remaining_dispatches # 0 /\ (switch_count + 1) % CounterMod = slices + 1
    BY <1>2, <1>4, Room, Zenon DEF WholeInv, RunInv
  <1>6. state \in [Tasks -> States]
    BY Zenon DEF WholeInv, SchedInv
  <1>7. st[Consumer] = "READY" /\ \A t \in Tasks \ FlowTasks : st[t] # "READY"
    BY <1>2, <1>4, <1>6, FlowSlots, Zenon DEF RunInv, TablesInv, FlowTasks
  <1>8. find_next_ready(st, Producer) = Consumer
    BY <1>7, NextTurn, Zenon
  <1>9. /\ state' = [st EXCEPT ![Consumer] = "RUNNING"] /\ cpu' = Consumer
        /\ slices' = slices + 1 /\ switch_count' = slices + 1
        /\ budget' = budget /\ base' = base /\ SchedInv'
    BY <1>1, <1>2, <1>5, <1>7, <1>8, FlowSlots, YieldEffect, Zenon
         DEF WholeInv, FlowTasks
  <1>10. After(k + 1, "send") \in Positions /\ Goto(After(k + 1, "send"))
    BY <1>1, <1>2, <1>3, <1>4, Zenon DEF After, Positions
  <1>11. /\ state'[Consumer] = "RUNNING" /\ state'[Producer] = "READY"
         /\ state'[Observer] = state[Observer]
         /\ at'[Producer] = After(k + 1, "send") /\ at'[Consumer] = "receive"
         /\ at'[Observer] = at[Observer] /\ at' \in [Tasks -> Positions]
         /\ \A t \in Tasks \ FlowTasks : state'[t] = "UNUSED"
         /\ entry' = entry
    BY <1>2, <1>4, <1>9, <1>10, AfterSwitch, FlowSlots, Zenon DEF FlowTasks
  <1>12. sequence \in [{"producer", "consumer"} -> 0 .. M]
    BY Zenon DEF WholeInv, FlowInv
  <1>13. /\ SentCount' = k + 1 /\ ReceivedCount' = k /\ k + 1 \in 0 .. M
         /\ sequence' \in [{"producer", "consumer"} -> 0 .. M]
    BY <1>1, <1>2, <1>3, <1>4, <1>12, FlowAssumption DEF SentCount, ReceivedCount
  <1>14. /\ endpoints' = endpoints /\ interruptVars' = interruptVars
         /\ boot_at' = boot_at /\ flowVars' = flowVars
    BY <1>1, Zenon DEF ipcVars, bootVars
  <1>15. TurnInv'
    <2>1. RingHolds(k)' /\ Counts(k + 1, k, k + 1, k)'
      BY <1>3, <1>4, <1>13, <1>14, Zenon DEF RingHolds, RingOpen, Ring, Counts, flowVars
    <2>2. k \in 0 .. M - 1
      BY <1>3, FlowAssumption
    <2>3. ConsumerRuns'
      BY <2>1, <2>2, <1>11, Zenon DEF ConsumerRuns, Suspended
    <2>4. ObserverWaits'
      BY <1>2, <1>11, Zenon DEF ObserverWaits, Exited
    <2> QED  BY <2>3, <2>4, <1>9, Zenon DEF TurnInv
  <1>16. FinishedInv'
    BY <1>2, <1>3, <1>4, <1>11, <1>14, Zenon
    DEF RunInv, FinishedInv, FlowTasks, flowVars, After
  <1>17. TimerInv' /\ TablesInv'
    BY <1>2, <1>11, <1>14, Zenon
    DEF RunInv, TimerInv, TablesInv, interruptVars, flowVars, Elapsed
  <1>18. DispatchInv'
    <2>1. /\ Turns(SentCount, Producer) = k + 1 /\ Turns(ReceivedCount, Consumer) = k
          /\ Turns(SentCount, Producer)' = k + 1 /\ Turns(ReceivedCount, Consumer)' = k + 1
      <3>1. state[Producer] = "RUNNING"
        BY <1>2, Zenon DEF WholeInv, SchedInv
      <3> QED  BY <3>1, <1>3, <1>4, <1>11, <1>13, FlowAssumption DEF Turns
    <2>2. ToCome' = ToCome /\ Woken' = Woken /\ keys' = keys
      BY <1>11, <1>14, Zenon DEF ToCome, Woken, Counted, Elapsed, interruptVars, flowVars
    <2>3. /\ slices + ToCome <= k + 1 + k + 1 + Woken + keys
          /\ base = 0 /\ budget = TASK_FLOW_BUDGET
      BY <1>2, <2>1, Zenon DEF RunInv, DispatchInv
    <2>4. slices \in Nat /\ ToCome \in 0 .. 1 /\ Woken \in Int /\ keys \in Nat
      BY <1>2, FlowAssumption
      DEF WholeInv, SchedInv, RunInv, TimerInv, ToCome, Woken, Counted, Elapsed
    <2>5. slices' + ToCome <= k + 1 + (k + 1) + 1 + Woken + keys
      BY <2>3, <2>4, <1>9, <1>3, FlowAssumption
    <2> QED  BY <2>1, <2>2, <2>3, <2>5, <1>9, Zenon DEF DispatchInv
  <1>19. SchedInv' /\ RunInv' /\ cpu' # Boot /\ task_flow_failed' = task_flow_failed
    BY <1>9, <1>14, <1>15, <1>16, <1>17, <1>18, FlowSlots, Zenon DEF RunInv, flowVars
  <1> QED  BY <1>2, <1>11, <1>13, <1>14, <1>19, RunsOn, Zenon

(* The producer leaves after its last message. *)
LEMMA ProducerExits ==
  ASSUME WholeInv, body_finish("producer") PROVE SchedInv' /\ FlowInv'
  <1> DEFINE M == TASK_FLOW_MESSAGES
             st == [state EXCEPT ![Producer] = "FINISHED"]
  <1>1. /\ InBody("producer", {"finish", "return"}) /\ task_exit /\ Goto("exited")
        /\ finished' = IF at[cpu] = "finish" THEN finished \cup {"producer"} ELSE finished
        /\ UNCHANGED <<ipcVars, interruptVars, bootVars, sequence, producer_task_id,
                       task_flow_tick_start, task_flow_irq_start, produced_messages,
                       consumed_messages, task_flow_failed>>
    BY Zenon DEF body_finish
  <1>2. /\ boot_at = "running" /\ RunInv /\ scheduler_running
        /\ at[Producer] \in {"finish", "return"} /\ state[Producer] = "RUNNING"
        /\ cpu = Producer /\ ProducerRuns /\ ObserverWaits
    BY <1>1, WhoRuns, Zenon DEF Bodies
  <1>3. /\ Suspended(Consumer, "finish") /\ at[Producer] = "finish" /\ Balanced(M)
    <2>1. PICK k \in 0 .. M : /\ Suspended(Consumer, After(k, "receive"))
                              /\ at[Producer] = After(k, "send") /\ Balanced(k)
      BY <1>2, Zenon DEF ProducerRuns
    <2>2. ~ (k < M)
      BY <1>2, <2>1, Zenon DEF After
    <2>3. k = M
      BY <2>2, FlowAssumption
    <2> QED  BY <2>1, <2>2, <2>3, Zenon DEF After
  <1>4. /\ state[Consumer] = "READY" /\ at[Consumer] = "finish"
        /\ SentCount = M /\ ReceivedCount = M
    BY <1>3, Zenon DEF Suspended, Balanced, Counts
  <1>5. remaining_dispatches # 0 /\ (switch_count + 1) % CounterMod = slices + 1
    BY <1>2, <1>4, Room, Zenon DEF WholeInv, RunInv
  <1>6. state \in [Tasks -> States]
    BY Zenon DEF WholeInv, SchedInv
  <1>7. st[Consumer] = "READY" /\ \A t \in Tasks \ FlowTasks : st[t] # "READY"
    BY <1>2, <1>4, <1>6, FlowSlots, Zenon DEF RunInv, TablesInv, FlowTasks
  <1>8. find_next_ready(st, Producer) = Consumer
    BY <1>7, NextTurn, Zenon
  <1>9. /\ state' = [st EXCEPT ![Consumer] = "RUNNING"] /\ cpu' = Consumer
        /\ slices' = slices + 1 /\ switch_count' = slices + 1
        /\ budget' = budget /\ base' = base /\ SchedInv'
    BY <1>1, <1>2, <1>5, <1>7, <1>8, FlowSlots, ExitEffect, Zenon DEF WholeInv, FlowTasks
  <1>10. "exited" \in Positions
    BY Zenon DEF Positions
  <1>11. /\ state'[Consumer] = "RUNNING" /\ state'[Producer] = "FINISHED"
         /\ state'[Observer] = state[Observer]
         /\ at'[Producer] = "exited" /\ at'[Consumer] = "finish"
         /\ at'[Observer] = at[Observer] /\ at' \in [Tasks -> Positions]
         /\ \A t \in Tasks \ FlowTasks : state'[t] = "UNUSED"
         /\ entry' = entry
    BY <1>1, <1>2, <1>4, <1>9, <1>10, AfterSwitch, FlowSlots, Zenon DEF FlowTasks
  <1>12. /\ sequence \in [{"producer", "consumer"} -> 0 .. M] /\ sequence' = sequence
         /\ endpoints' = endpoints /\ interruptVars' = interruptVars
         /\ boot_at' = boot_at
    BY <1>1, Zenon DEF WholeInv, FlowInv, ipcVars, bootVars
  <1>15. TurnInv'
    <2>1. Balanced(M)'
      BY <1>1, <1>3, <1>12, Zenon
      DEF Balanced, RingEmpty, RingOpen, Ring, Counts, SentCount, ReceivedCount
    <2>3. ConsumerRuns'
      BY <2>1, <1>11, Zenon DEF ConsumerRuns, Exited
    <2>4. ObserverWaits'
      BY <1>2, <1>11, Zenon DEF ObserverWaits, Exited
    <2> QED  BY <2>3, <2>4, <1>9, Zenon DEF TurnInv
  <1>16. FinishedInv'
    <2>1. /\ finished' = finished \cup {"producer"} /\ finished \subseteq Bodies
          /\ entry[Consumer] \in finished <=> at[Consumer] = "exited"
          /\ entry[Observer] \in finished <=> at[Observer] = "exited"
          /\ entry[Producer] = "producer" /\ entry[Consumer] = "consumer"
          /\ entry[Observer] = "observer"
      BY <1>1, <1>2, <1>3, Zenon DEF RunInv, FinishedInv, TablesInv, FlowTasks
    <2> QED  BY <2>1, <1>4, <1>11, Zenon DEF FinishedInv, FlowTasks, Bodies
  <1>17. TimerInv' /\ TablesInv'
    BY <1>1, <1>2, <1>11, <1>12, Zenon
    DEF RunInv, TimerInv, TablesInv, interruptVars, Elapsed
  <1>18. DispatchInv'
    <2>1. /\ Turns(SentCount, Producer) = M + 1 /\ Turns(ReceivedCount, Consumer) = M
          /\ Turns(SentCount, Producer)' = M + 1 /\ Turns(ReceivedCount, Consumer)' = M + 1
      BY <1>2, <1>4, <1>11, <1>12, FlowAssumption DEF Turns, SentCount, ReceivedCount
    <2>2. ToCome' = ToCome /\ Woken' = Woken /\ keys' = keys
      BY <1>1, <1>11, <1>12, Zenon DEF ToCome, Woken, Counted, Elapsed, interruptVars
    <2>3. /\ slices + ToCome <= M + 1 + M + 1 + Woken + keys
          /\ base = 0 /\ budget = TASK_FLOW_BUDGET
      BY <1>2, <2>1, Zenon DEF RunInv, DispatchInv
    <2>4. slices \in Nat /\ ToCome \in 0 .. 1 /\ Woken \in Int /\ keys \in Nat
      BY <1>2, FlowAssumption
      DEF WholeInv, SchedInv, RunInv, TimerInv, ToCome, Woken, Counted, Elapsed
    <2>5. slices' + ToCome <= M + 1 + (M + 1) + 1 + Woken + keys
      BY <2>3, <2>4, <1>9, FlowAssumption
    <2> QED  BY <2>1, <2>2, <2>3, <2>5, <1>9, Zenon DEF DispatchInv
  <1>19. SchedInv' /\ RunInv' /\ cpu' # Boot
    BY <1>9, <1>15, <1>16, <1>17, <1>18, FlowSlots, Zenon DEF RunInv
  <1> QED  BY <1>1, <1>2, <1>11, <1>12, <1>19, RunsOn, Zenon

(* The consumer's turn ends with the ring empty. *)
LEMMA ConsumerYields ==
  ASSUME WholeInv, exchange_yield("consumer", "receive") PROVE SchedInv' /\ FlowInv'
  <1> DEFINE M == TASK_FLOW_MESSAGES
             st == [state EXCEPT ![Consumer] = "READY"]
             next == IF state[Observer] = "READY" THEN Observer ELSE Producer
  <1>1. /\ InBody("consumer", {"sent", "retry"}) /\ task_yield
        /\ UNCHANGED <<ipcVars, interruptVars, bootVars, flowVars>>
        /\ sequence' = [sequence EXCEPT !["consumer"] =
                          ReceivedCount + (IF at[cpu] = "sent" THEN 1 ELSE 0)]
        /\ Goto(After(ReceivedCount + (IF at[cpu] = "sent" THEN 1 ELSE 0), "receive"))
    BY Zenon DEF exchange_yield, After, ReceivedCount
  <1>2. /\ boot_at = "running" /\ RunInv /\ scheduler_running
        /\ at[Consumer] \in {"sent", "retry"} /\ state[Consumer] = "RUNNING"
        /\ cpu = Consumer /\ ConsumerRuns /\ ObserverWaits
    BY <1>1, WhoRuns, Zenon DEF Bodies
  <1>3. PICK k \in 0 .. M - 1 :
          /\ Suspended(Producer, After(k + 1, "send")) /\ at[Consumer] = "sent"
          /\ Counts(k + 1, k, k + 1, k + 1) /\ RingEmpty
    BY <1>2, Zenon DEF ConsumerRuns
  <1>4. /\ state[Producer] = "READY" /\ at[Producer] = After(k + 1, "send")
        /\ SentCount = k + 1 /\ ReceivedCount = k
        /\ produced_messages = k + 1 /\ consumed_messages = k + 1
    BY <1>3, Zenon DEF Suspended, Counts
  <1>5. remaining_dispatches # 0 /\ (switch_count + 1) % CounterMod = slices + 1
    BY <1>2, <1>4, Room, Zenon DEF WholeInv, RunInv
  <1>6. state \in [Tasks -> States]
    BY Zenon DEF WholeInv, SchedInv
  <1>7. /\ st[Producer] = "READY" /\ st[Observer] = state[Observer]
        /\ \A t \in Tasks \ FlowTasks : st[t] # "READY"
    BY <1>2, <1>4, <1>6, FlowSlots, Zenon DEF RunInv, TablesInv, FlowTasks
  <1>8. find_next_ready(st, Consumer) = next /\ st[next] = "READY" /\ next \in FlowTasks
    BY <1>7, NextTurn, Zenon DEF FlowTasks
  <1> HIDE DEF next
  <1>9. /\ state' = [st EXCEPT ![next] = "RUNNING"] /\ cpu' = next
        /\ slices' = slices + 1 /\ switch_count' = slices + 1
        /\ budget' = budget /\ base' = base /\ SchedInv'
    <2>1. next \in Tasks
      BY <1>8, FlowSlots, Zenon DEF FlowTasks
    <2> QED  BY <2>1, <1>1, <1>2, <1>5, <1>7, <1>8, FlowSlots, YieldEffect, Zenon
         DEF WholeInv, FlowTasks
  <1>10. After(k + 1, "receive") \in Positions /\ Goto(After(k + 1, "receive"))
    BY <1>1, <1>2, <1>3, <1>4, Zenon DEF After, Positions
  <1>11. /\ state'[next] = "RUNNING" /\ next # Consumer /\ state'[Consumer] = "READY"
         /\ \A t \in Tasks : t # Consumer /\ t # next => state'[t] = state[t]
         /\ at'[Consumer] = After(k + 1, "receive") /\ at'[Producer] = at[Producer]
         /\ at'[Observer] = at[Observer] /\ at' \in [Tasks -> Positions]
         /\ \A t \in Tasks \ FlowTasks : state'[t] = "UNUSED"
         /\ entry' = entry
    <2>1. next # Consumer
      BY FlowSlots, Zenon DEF next
    <2> QED
      BY <2>1, <1>2, <1>8, <1>9, <1>10, AfterSwitch, FlowSlots, ZenonT(40) DEF FlowTasks
  <1>12. sequence \in [{"producer", "consumer"} -> 0 .. M]
    BY Zenon DEF WholeInv, FlowInv
  <1>13. /\ SentCount' = k + 1 /\ ReceivedCount' = k + 1 /\ k + 1 \in 0 .. M
         /\ sequence' \in [{"producer", "consumer"} -> 0 .. M]
    BY <1>1, <1>2, <1>3, <1>4, <1>12, FlowAssumption, Zenon DEF SentCount, ReceivedCount
  <1>14. /\ endpoints' = endpoints /\ interruptVars' = interruptVars
         /\ boot_at' = boot_at /\ flowVars' = flowVars
    BY <1>1, Zenon DEF ipcVars, bootVars
  <1>15. TurnInv'
    <2>1. Balanced(k + 1)'
      BY <1>3, <1>4, <1>13, <1>14, Zenon
      DEF Balanced, RingEmpty, RingOpen, Ring, Counts, flowVars
    <2>2. CASE state[Observer] = "READY"
      <3>1. next = Observer /\ state'[Producer] = "READY"
        BY <2>2, <1>4, <1>11, FlowSlots, Zenon DEF next
      <3>2. BothWait'
        BY <3>1, <2>1, <1>4, <1>11, <1>13, Zenon DEF BothWait, Suspended
      <3>3. at'[Observer] \in {"read_ticks", "check_ticks"}
        BY <2>2, <1>2, <1>11, Zenon DEF ObserverWaits, Exited
      <3> QED  BY <3>1, <3>2, <3>3, <1>9, Zenon DEF TurnInv
    <2>3. CASE state[Observer] # "READY"
      <3>1. next = Producer /\ state'[Observer] = state[Observer]
        BY <2>3, <1>11, FlowSlots, Zenon DEF next
      <3>2. ProducerRuns'
        BY <3>1, <2>1, <1>4, <1>11, <1>13, Zenon DEF ProducerRuns, Suspended
      <3>3. ObserverWaits'
        BY <3>1, <1>2, <1>11, Zenon DEF ObserverWaits, Exited
      <3> QED  BY <3>1, <3>2, <3>3, <1>9, Zenon DEF TurnInv
    <2> QED  BY <2>2, <2>3, Zenon
  <1>16. FinishedInv'
    <2>1. at'[Consumer] # "exited"
      BY <1>11, Zenon DEF After
    <2> QED
      BY <2>1, <1>2, <1>3, <1>11, <1>14, Zenon DEF RunInv, FinishedInv, FlowTasks, flowVars
  <1>17. TimerInv' /\ TablesInv'
    BY <1>2, <1>11, <1>14, Zenon
    DEF RunInv, TimerInv, TablesInv, interruptVars, flowVars, Elapsed
  <1>18. DispatchInv'
    <2>1. Turns(SentCount, Producer) = k + 1 /\ Turns(ReceivedCount, Consumer) = k + 1
      BY <1>2, <1>3, <1>4, FlowAssumption DEF Turns
    <2>2. Turns(ReceivedCount, Consumer)' = k + 1
      BY <1>3, <1>11, <1>13, FlowAssumption DEF Turns
    <2>3. Woken' = Woken /\ keys' = keys
      BY <1>11, <1>14, Zenon DEF Woken, Counted, Elapsed, interruptVars, flowVars
    <2>4. /\ slices + ToCome <= k + 1 + (k + 1) + 1 + Woken + keys
          /\ base = 0 /\ budget = TASK_FLOW_BUDGET
      BY <1>2, <2>1, Zenon DEF RunInv, DispatchInv
    <2>5. slices \in Nat /\ Woken \in Int /\ keys \in Nat
      BY <1>2, FlowAssumption, SMTT(30)
      DEF WholeInv, SchedInv, RunInv, TimerInv, Woken, Counted, Elapsed
    <2>6. {at[Observer], at'[Observer]} \cap {"hlt", "halted", "woken"} = {}
      BY <1>2, <1>11, Zenon DEF ObserverWaits, Exited
    <2>7. CASE state[Observer] = "READY"
      <3>1. ToCome = 1 /\ ToCome' = 0 /\ Turns(SentCount, Producer)' = k + 1
        <4>1. state'[Observer] = "RUNNING" /\ state'[Producer] = "READY"
          BY <2>7, <1>4, <1>11, FlowSlots, Zenon DEF next
        <4>2. ToCome = 1 /\ ToCome' = 0
          BY <4>1, <2>6, <2>7, Zenon DEF ToCome
        <4>3. Turns(SentCount, Producer)' = k + 1 + 0
          BY <4>1, <1>13, Zenon DEF Turns
        <4> QED  BY <4>2, <4>3, <1>3, FlowAssumption, SMTT(30)
      <3> QED  BY <3>1, <2>2, <2>3, <2>4, <2>5, <1>3, <1>9, FlowAssumption, SMTT(30) DEF DispatchInv
    <2>8. CASE state[Observer] # "READY"
      <3>1. ToCome = 0 /\ ToCome' = 0 /\ Turns(SentCount, Producer)' = k + 1 + 1
        BY <2>6, <2>8, <1>3, <1>4, <1>11, <1>13, FlowSlots, FlowAssumption, Zenon
        DEF next, ToCome, Turns
      <3> QED  BY <3>1, <2>2, <2>3, <2>4, <2>5, <1>3, <1>9, FlowAssumption, SMTT(30) DEF DispatchInv
    <2> QED  BY <2>7, <2>8, Zenon
  <1>19. SchedInv' /\ RunInv' /\ cpu' # Boot /\ task_flow_failed' = task_flow_failed
    BY <1>8, <1>9, <1>14, <1>15, <1>16, <1>17, <1>18, FlowSlots, Zenon
    DEF RunInv, flowVars, FlowTasks
  <1> QED  BY <1>2, <1>11, <1>13, <1>14, <1>19, RunsOn, Zenon

(* The consumer leaves: the observer goes on alone, or task_run returns. *)
LEMMA ConsumerExits ==
  ASSUME WholeInv, body_finish("consumer") PROVE SchedInv' /\ FlowInv'
  <1> DEFINE M == TASK_FLOW_MESSAGES
             st == [state EXCEPT ![Consumer] = "FINISHED"]
  <1>1. /\ InBody("consumer", {"finish", "return"}) /\ task_exit /\ Goto("exited")
        /\ finished' = IF at[cpu] = "finish" THEN finished \cup {"consumer"} ELSE finished
        /\ UNCHANGED <<ipcVars, interruptVars, bootVars, sequence, producer_task_id,
                       task_flow_tick_start, task_flow_irq_start, produced_messages,
                       consumed_messages, task_flow_failed>>
    BY Zenon DEF body_finish
  <1>2. /\ boot_at = "running" /\ RunInv /\ scheduler_running
        /\ at[Consumer] \in {"finish", "return"} /\ state[Consumer] = "RUNNING"
        /\ cpu = Consumer /\ ConsumerRuns /\ ObserverWaits
    BY <1>1, WhoRuns, Zenon DEF Bodies
  <1>3. Exited(Producer) /\ at[Consumer] = "finish" /\ Balanced(M)
    BY <1>2, Zenon DEF ConsumerRuns
  <1>4. /\ state[Producer] = "FINISHED" /\ at[Producer] = "exited"
        /\ SentCount = M /\ ReceivedCount = M
    BY <1>3, Zenon DEF Exited, Balanced, Counts
  <1>6. state \in [Tasks -> States]
    BY Zenon DEF WholeInv, SchedInv
  <1>7. /\ st[Producer] = "FINISHED" /\ st[Consumer] = "FINISHED"
        /\ st[Observer] = state[Observer]
        /\ \A t \in Tasks \ FlowTasks : st[t] # "READY"
    BY <1>2, <1>4, <1>6, FlowSlots, Zenon DEF RunInv, TablesInv, FlowTasks
  <1>9. /\ \/ /\ state[Observer] = "READY" /\ cpu' = Observer
              /\ state' = [st EXCEPT ![Observer] = "RUNNING"]
              /\ slices' = slices + 1 /\ switch_count' = slices + 1
           \/ /\ Exited(Observer) /\ cpu' = Boot /\ pc' = "run"
              /\ state' = st /\ slices' = slices /\ switch_count' = slices
        /\ budget' = budget /\ base' = base /\ SchedInv'
    <2>1. CASE state[Observer] = "READY"
      <3>1. remaining_dispatches # 0 /\ (switch_count + 1) % CounterMod = slices + 1
        BY <2>1, <1>2, Room, Zenon DEF WholeInv, RunInv
      <3>2. find_next_ready(st, Consumer) = Observer
        BY <2>1, <1>7, NextTurn, Zenon
      <3> QED
        BY <3>1, <3>2, <2>1, <1>1, <1>2, <1>7, FlowSlots, ExitEffect, Zenon
        DEF WholeInv, FlowTasks
    <2>2. CASE state[Observer] # "READY"
      <3>1. Exited(Observer) /\ switch_count = slices
        BY <2>2, <1>2, Zenon DEF ObserverWaits, RunInv, DispatchInv
      <3>2. \A t \in FlowTasks : st[t] # "READY"
        BY <2>2, <1>7, Zenon DEF FlowTasks
      <3>3. find_next_ready(st, Consumer) = TASK_INVALID_ID
        BY <3>2, <1>7, NextTurn, FlowSlots, Zenon
      <3> QED
        BY <3>1, <3>3, <1>1, <1>2, FlowSlots, LastExitEffect, Zenon DEF WholeInv, FlowTasks
    <2> QED  BY <2>1, <2>2, Zenon
  <1>11. /\ state'[Consumer] = "FINISHED" /\ state'[Producer] = "FINISHED"
         /\ state'[Observer] = IF state[Observer] = "READY" THEN "RUNNING" ELSE state[Observer]
         /\ \A t \in Tasks \ FlowTasks : state'[t] = "UNUSED"
    <2>1. Exited(Observer) => state[Observer] # "READY"
      BY Zenon DEF Exited
    <2>2. \A t \in Tasks \ FlowTasks : state[t] = "UNUSED"
      BY <1>2, Zenon DEF RunInv, TablesInv
    <2> QED  BY <2>1, <2>2, <1>4, <1>6, <1>9, FlowSlots, Zenon DEF FlowTasks
  <1>12. /\ at'[Consumer] = "exited" /\ at'[Producer] = "exited"
         /\ at'[Observer] = at[Observer] /\ at' \in [Tasks -> Positions]
         /\ entry' = entry
    <2>1. at \in [Tasks -> Positions] /\ "exited" \in Positions
      BY Zenon DEF WholeInv, FlowInv, Positions
    <2> QED  BY <2>1, <1>1, <1>2, <1>4, FlowSlots, Zenon DEF Goto
  <1>13. /\ sequence \in [{"producer", "consumer"} -> 0 .. M] /\ sequence' = sequence
         /\ endpoints' = endpoints /\ interruptVars' = interruptVars
         /\ boot_at' = boot_at
    BY <1>1, Zenon DEF WholeInv, FlowInv, ipcVars, bootVars
  <1>15. TurnInv'
    <2>1. Balanced(M)'
      BY <1>1, <1>3, <1>13, Zenon
      DEF Balanced, RingEmpty, RingOpen, Ring, Counts, SentCount, ReceivedCount
    <2>2. BothExited'
      BY <2>1, <1>11, <1>12, Zenon DEF BothExited, Exited
    <2>3. CASE state[Observer] = "READY"
      <3>1. at'[Observer] \in {"read_ticks", "check_ticks"} /\ cpu' = Observer
        BY <2>3, <1>2, <1>9, <1>12, Zenon DEF ObserverWaits, Exited
      <3> QED  BY <3>1, <2>2, Zenon DEF TurnInv
    <2>4. CASE state[Observer] # "READY"
      <3>1. Exited(Observer)' /\ cpu' = Boot
        BY <2>4, <1>9, <1>11, <1>12, Zenon DEF Exited
      <3> QED  BY <3>1, <2>2, Zenon DEF TurnInv
    <2> QED  BY <2>3, <2>4, Zenon
  <1>16. FinishedInv'
    <2>1. /\ finished' = finished \cup {"consumer"} /\ finished \subseteq Bodies
          /\ entry[Producer] \in finished <=> at[Producer] = "exited"
          /\ entry[Observer] \in finished <=> at[Observer] = "exited"
          /\ entry[Producer] = "producer" /\ entry[Consumer] = "consumer"
          /\ entry[Observer] = "observer"
      BY <1>1, <1>2, <1>3, Zenon DEF RunInv, FinishedInv, TablesInv, FlowTasks
    <2> QED  BY <2>1, <1>4, <1>12, Zenon DEF FinishedInv, FlowTasks, Bodies
  <1>17. TimerInv' /\ TablesInv'
    BY <1>1, <1>2, <1>11, <1>12, <1>13, Zenon
    DEF RunInv, TimerInv, TablesInv, interruptVars, Elapsed
  <1>18. DispatchInv'
    <2>1. /\ Turns(SentCount, Producer) = M + 1 /\ Turns(ReceivedCount, Consumer) = M + 1
          /\ Turns(SentCount, Producer)' = M + 1 /\ Turns(ReceivedCount, Consumer)' = M + 1
      BY <1>2, <1>4, <1>11, <1>13, FlowAssumption, Zenon DEF Turns, SentCount, ReceivedCount
    <2>2. Woken' = Woken /\ keys' = keys
      BY <1>1, <1>12, <1>13, Zenon DEF Woken, Counted, Elapsed, interruptVars
    <2>3. /\ slices + ToCome <= M + 1 + (M + 1) + 1 + Woken + keys
          /\ base = 0 /\ budget = TASK_FLOW_BUDGET
      BY <1>2, <2>1, Zenon DEF RunInv, DispatchInv
    <2>4. slices \in Nat /\ Woken \in Int /\ keys \in Nat
      BY <1>2, FlowAssumption, SMTT(30)
      DEF WholeInv, SchedInv, RunInv, TimerInv, Woken, Counted, Elapsed
    <2>5. slices' + ToCome' = slices + ToCome /\ switch_count' = slices'
      <3>1. {at[Observer], at'[Observer]} \cap {"hlt", "halted", "woken"} = {}
        BY <1>2, <1>12, Zenon DEF ObserverWaits, Exited
      <3>2. Exited(Observer) => state[Observer] # "READY"
        BY ZenonT(40) DEF Exited
      <3>3. state'[Observer] # "READY"
        BY <1>11, Zenon
      <3>4. ToCome' = 0 /\ ToCome = IF state[Observer] = "READY" THEN 1 ELSE 0
        BY <3>1, <3>3, Zenon DEF ToCome
      <3> QED  BY <3>2, <3>4, <2>4, <1>9
    <2> QED  BY <2>1, <2>2, <2>3, <2>5, <1>9, Zenon DEF DispatchInv
  <1>19. SchedInv' /\ RunInv' /\ (cpu' # Boot \/ pc' = "run")
    BY <1>9, <1>15, <1>16, <1>17, <1>18, FlowSlots, Zenon DEF RunInv
  <1> QED  BY <1>1, <1>2, <1>12, <1>13, <1>19, RunsOn, Zenon

(* The observer gives up the CPU after an interrupt woke it. *)
LEMMA ObserverYields ==
  ASSUME WholeInv, observer_yield PROVE SchedInv' /\ FlowInv'
  <1> DEFINE M == TASK_FLOW_MESSAGES
             st == [state EXCEPT ![Observer] = "READY"]
  <1>1. /\ InBody("observer", {"woken"}) /\ task_yield /\ Goto("check_ticks")
        /\ UNCHANGED <<ipcVars, interruptVars, bootVars, sequence, flowVars>>
    BY Zenon DEF observer_yield
  <1>2. /\ boot_at = "running" /\ RunInv /\ scheduler_running
        /\ at[Observer] = "woken" /\ state[Observer] = "RUNNING"
        /\ cpu = Observer /\ (BothWait \/ BothExited)
    <2>1. "observer" \in Bodies
      BY Zenon DEF Bodies
    <2>2. /\ boot_at = "running" /\ RunInv /\ scheduler_running
          /\ state[cpu] = "RUNNING" /\ at[cpu] \in {"woken"}
          /\ cpu = Observer /\ (BothWait \/ BothExited)
          /\ at[cpu] \in {"read_ticks", "read_irqs", "check_ticks",
                          "check_irqs", "hlt", "halted", "woken", "finish"}
      BY <2>1, <1>1, WhoRuns, Zenon
    <2> QED  BY <2>2, Zenon
  <1>5. remaining_dispatches # 0 /\ (switch_count + 1) % CounterMod = slices + 1
    BY <1>2, Room, Zenon DEF WholeInv, RunInv
  <1>6. state \in [Tasks -> States] /\ at \in [Tasks -> Positions]
    BY Zenon DEF WholeInv, FlowInv, SchedInv
  <1>7. /\ st[Producer] = state[Producer] /\ st[Consumer] = state[Consumer]
        /\ st[Observer] = "READY" /\ \A t \in Tasks \ FlowTasks : st[t] # "READY"
    BY <1>2, <1>6, FlowSlots, Zenon DEF RunInv, TablesInv, FlowTasks
  <1>8. /\ at'[Observer] = "check_ticks" /\ at'[Producer] = at[Producer]
        /\ at'[Consumer] = at[Consumer] /\ at' \in [Tasks -> Positions]
        /\ entry' = entry
    <2>1. "check_ticks" \in Positions
      BY Zenon DEF Positions
    <2> QED  BY <2>1, <1>1, <1>2, <1>6, FlowSlots, Zenon DEF Goto
  <1>9. /\ sequence \in [{"producer", "consumer"} -> 0 .. M] /\ sequence' = sequence
        /\ endpoints' = endpoints /\ interruptVars' = interruptVars
        /\ boot_at' = boot_at /\ flowVars' = flowVars
    BY <1>1, Zenon DEF WholeInv, FlowInv, ipcVars, bootVars
  <1>10. /\ \A k : Balanced(k) => Balanced(k)'
         /\ SentCount' = SentCount /\ ReceivedCount' = ReceivedCount
    BY <1>9, Zenon
    DEF Balanced, RingEmpty, RingOpen, Ring, Counts, SentCount, ReceivedCount, flowVars
  <1>11. /\ Woken' = Woken /\ keys' = keys /\ ToCome = 1
         /\ slices \in Nat /\ Woken \in Int /\ keys \in Nat
         /\ SentCount \in Nat /\ ReceivedCount \in Nat
    <2>1. Woken' = Woken /\ keys' = keys /\ ToCome = 1
      BY <1>2, <1>8, <1>9, Zenon
      DEF Woken, Counted, Elapsed, ToCome, interruptVars, flowVars
    <2> QED
      BY <2>1, <1>2, <1>9, FlowAssumption
      DEF WholeInv, SchedInv, RunInv, TimerInv, Woken, Counted, Elapsed, SentCount, ReceivedCount
  <1>12. FinishedInv' /\ TimerInv'
    BY <1>2, <1>8, <1>9, Zenon
    DEF RunInv, FinishedInv, FlowTasks, TimerInv, interruptVars, flowVars, Elapsed
  <1>13. ASSUME BothWait PROVE  SchedInv' /\ TurnInv' /\ TablesInv' /\ DispatchInv' /\ cpu' # Boot
    <2>1. PICK k \in 0 .. M :
            /\ state[Producer] = "READY" /\ at[Producer] = After(k, "send")
            /\ state[Consumer] = "READY" /\ at[Consumer] = After(k, "receive")
            /\ Balanced(k)
      BY <1>13, Zenon DEF BothWait, Suspended
    <2>2. find_next_ready(st, Observer) = Producer
      BY <2>1, <1>7, NextTurn, Zenon
    <2>3. /\ state' = [st EXCEPT ![Producer] = "RUNNING"] /\ cpu' = Producer
          /\ slices' = slices + 1 /\ switch_count' = slices + 1
          /\ budget' = budget /\ base' = base /\ SchedInv'
      BY <1>1, <1>2, <1>5, <1>7, <2>1, <2>2, FlowSlots, YieldEffect, Zenon
         DEF WholeInv, FlowTasks
    <2>4. /\ state'[Producer] = "RUNNING" /\ state'[Observer] = "READY"
          /\ state'[Consumer] = "READY"
          /\ \A t \in Tasks \ FlowTasks : state'[t] = "UNUSED"
      BY <2>1, <2>3, <1>2, <1>6, FlowSlots, Zenon DEF RunInv, TablesInv, FlowTasks
    <2>5. ProducerRuns' /\ ObserverWaits'
      BY <2>1, <2>4, <1>8, <1>10, Zenon DEF ProducerRuns, Suspended, ObserverWaits
    <2>6. DispatchInv'
      <3>1. /\ Turns(SentCount, Producer)' = Turns(SentCount, Producer) + 1
            /\ Turns(ReceivedCount, Consumer)' = Turns(ReceivedCount, Consumer)
            /\ Turns(SentCount, Producer) \in Nat /\ Turns(ReceivedCount, Consumer) \in Nat
            /\ ToCome' = 1
        BY <2>1, <2>4, <1>10, <1>11 DEF Turns, ToCome
      <3> QED  BY <3>1, <2>3, <1>2, <1>11, SMTT(30) DEF RunInv, DispatchInv
    <2> QED
      BY <2>3, <2>4, <2>5, <2>6, <1>2, <1>8, <1>9, FlowSlots, Zenon
      DEF TurnInv, RunInv, TablesInv, flowVars
  <1>14. ASSUME BothExited PROVE  SchedInv' /\ TurnInv' /\ TablesInv' /\ DispatchInv' /\ cpu' # Boot
    <2>1. /\ state[Producer] = "FINISHED" /\ at[Producer] = "exited"
          /\ state[Consumer] = "FINISHED" /\ at[Consumer] = "exited"
          /\ Balanced(M)
      BY <1>14, Zenon DEF BothExited, Exited
    <2>2. find_next_ready(st, Observer) = Observer
      BY <2>1, <1>7, NextTurn, Zenon
    <2>3. /\ state' = [st EXCEPT ![Observer] = "RUNNING"] /\ cpu' = Observer
          /\ slices' = slices + 1 /\ switch_count' = slices + 1
          /\ budget' = budget /\ base' = base /\ SchedInv'
      BY <1>1, <1>2, <1>5, <1>7, <2>1, <2>2, FlowSlots, YieldEffect, Zenon
         DEF WholeInv, FlowTasks
    <2>4. /\ state'[Producer] = "FINISHED" /\ state'[Observer] = "RUNNING"
          /\ state'[Consumer] = "FINISHED"
          /\ \A t \in Tasks \ FlowTasks : state'[t] = "UNUSED"
      BY <2>1, <2>3, <1>2, <1>6, FlowSlots, Zenon DEF RunInv, TablesInv, FlowTasks
    <2>5. BothExited'
      BY <2>1, <2>4, <1>8, <1>10, Zenon DEF BothExited, Exited
    <2>6. DispatchInv'
      <3>1. /\ Turns(SentCount, Producer)' = Turns(SentCount, Producer)
            /\ Turns(ReceivedCount, Consumer)' = Turns(ReceivedCount, Consumer)
            /\ Turns(SentCount, Producer) \in Nat /\ Turns(ReceivedCount, Consumer) \in Nat
            /\ ToCome' = 0
        BY <2>1, <2>4, <1>8, <1>10, <1>11 DEF Turns, ToCome
      <3> QED  BY <3>1, <2>3, <1>2, <1>11, SMTT(30) DEF RunInv, DispatchInv
    <2> QED
      BY <2>3, <2>4, <2>5, <2>6, <1>2, <1>8, <1>9, FlowSlots, Zenon
      DEF TurnInv, RunInv, TablesInv, flowVars
  <1>15. SchedInv' /\ RunInv' /\ cpu' # Boot /\ task_flow_failed' = task_flow_failed
    BY <1>2, <1>9, <1>12, <1>13, <1>14, Zenon DEF RunInv, flowVars
  <1> QED  BY <1>2, <1>8, <1>9, <1>15, RunsOn, Zenon

(* The observer leaves after its ticks: the producer goes on, or task_run  *)
(* returns.                                                                *)
LEMMA ObserverExits ==
  ASSUME WholeInv, body_finish("observer") PROVE SchedInv' /\ FlowInv'
  <1> DEFINE M == TASK_FLOW_MESSAGES
             st == [state EXCEPT ![Observer] = "FINISHED"]
  <1>1. /\ InBody("observer", {"finish", "return"}) /\ task_exit /\ Goto("exited")
        /\ finished' = IF at[cpu] = "finish" THEN finished \cup {"observer"} ELSE finished
        /\ UNCHANGED <<ipcVars, interruptVars, bootVars, sequence, producer_task_id,
                       task_flow_tick_start, task_flow_irq_start, produced_messages,
                       consumed_messages, task_flow_failed>>
    BY Zenon DEF body_finish
  <1>2. /\ boot_at = "running" /\ RunInv /\ scheduler_running
        /\ at[Observer] = "finish" /\ state[Observer] = "RUNNING"
        /\ cpu = Observer /\ (BothWait \/ BothExited)
    <2>1. "observer" \in Bodies
      BY Zenon DEF Bodies
    <2>2. /\ boot_at = "running" /\ RunInv /\ scheduler_running
          /\ state[cpu] = "RUNNING" /\ at[cpu] \in {"finish", "return"}
          /\ cpu = Observer /\ (BothWait \/ BothExited)
          /\ at[cpu] \in {"read_ticks", "read_irqs", "check_ticks",
                          "check_irqs", "hlt", "halted", "woken", "finish"}
      BY <2>1, <1>1, WhoRuns, Zenon
    <2> QED  BY <2>2, Zenon
  <1>6. state \in [Tasks -> States] /\ at \in [Tasks -> Positions]
    BY Zenon DEF WholeInv, FlowInv, SchedInv
  <1>7. /\ st[Producer] = state[Producer] /\ st[Consumer] = state[Consumer]
        /\ st[Observer] = "FINISHED" /\ \A t \in Tasks \ FlowTasks : st[t] # "READY"
    BY <1>2, <1>6, FlowSlots, Zenon DEF RunInv, TablesInv, FlowTasks
  <1>8. /\ at'[Observer] = "exited" /\ at'[Producer] = at[Producer]
        /\ at'[Consumer] = at[Consumer] /\ at' \in [Tasks -> Positions]
        /\ entry' = entry
    <2>1. "exited" \in Positions
      BY Zenon DEF Positions
    <2> QED  BY <2>1, <1>1, <1>2, <1>6, FlowSlots, Zenon DEF Goto
  <1>9. /\ sequence \in [{"producer", "consumer"} -> 0 .. M] /\ sequence' = sequence
        /\ endpoints' = endpoints /\ interruptVars' = interruptVars
        /\ boot_at' = boot_at
    BY <1>1, Zenon DEF WholeInv, FlowInv, ipcVars, bootVars
  <1>10. /\ \A k : Balanced(k) => Balanced(k)'
         /\ SentCount' = SentCount /\ ReceivedCount' = ReceivedCount
    BY <1>1, <1>9, Zenon
    DEF Balanced, RingEmpty, RingOpen, Ring, Counts, SentCount, ReceivedCount
  <1>11. /\ Woken' = Woken /\ keys' = keys /\ ToCome = 0
         /\ slices \in Nat /\ Woken \in Int /\ keys \in Nat
         /\ SentCount \in Nat /\ ReceivedCount \in Nat
    <2>1. Woken' = Woken /\ keys' = keys /\ ToCome = 0
      BY <1>1, <1>2, <1>8, <1>9, Zenon DEF Woken, Counted, Elapsed, ToCome, interruptVars
    <2> QED
      BY <2>1, <1>2, <1>9, FlowAssumption
      DEF WholeInv, SchedInv, RunInv, TimerInv, Woken, Counted, Elapsed, SentCount, ReceivedCount
  <1>12. TimerInv'
    BY <1>1, <1>2, <1>8, <1>9, Zenon DEF RunInv, TimerInv, interruptVars, Elapsed
  <1>16. FinishedInv'
    <2>1. /\ finished' = finished \cup {"observer"} /\ finished \subseteq Bodies
          /\ entry[Producer] \in finished <=> at[Producer] = "exited"
          /\ entry[Consumer] \in finished <=> at[Consumer] = "exited"
          /\ entry[Producer] = "producer" /\ entry[Consumer] = "consumer"
          /\ entry[Observer] = "observer"
      BY <1>1, <1>2, Zenon DEF RunInv, FinishedInv, TablesInv, FlowTasks
    <2> QED  BY <2>1, <1>8, Zenon DEF FinishedInv, FlowTasks, Bodies
  <1>13. ASSUME BothWait PROVE  SchedInv' /\ TurnInv' /\ TablesInv' /\ DispatchInv' /\ cpu' # Boot
    <2>1. PICK k \in 0 .. M :
            /\ state[Producer] = "READY" /\ at[Producer] = After(k, "send")
            /\ state[Consumer] = "READY" /\ at[Consumer] = After(k, "receive")
            /\ Balanced(k)
      BY <1>13, Zenon DEF BothWait, Suspended
    <2>2. find_next_ready(st, Observer) = Producer
      BY <2>1, <1>7, NextTurn, Zenon
    <2>a. remaining_dispatches # 0 /\ (switch_count + 1) % CounterMod = slices + 1
      BY <2>1, <1>2, Room, Zenon DEF WholeInv, RunInv
    <2>3. /\ state' = [st EXCEPT ![Producer] = "RUNNING"] /\ cpu' = Producer
          /\ slices' = slices + 1 /\ switch_count' = slices + 1
          /\ budget' = budget /\ base' = base /\ SchedInv'
      BY <1>1, <1>2, <1>7, <2>a, <2>1, <2>2, FlowSlots, ExitEffect, Zenon
      DEF WholeInv, FlowTasks
    <2>4. /\ state'[Producer] = "RUNNING" /\ state'[Observer] = "FINISHED"
          /\ state'[Consumer] = "READY"
          /\ \A t \in Tasks \ FlowTasks : state'[t] = "UNUSED"
      BY <2>1, <2>3, <1>2, <1>6, FlowSlots, Zenon DEF RunInv, TablesInv, FlowTasks
    <2>5. ProducerRuns' /\ ObserverWaits'
      BY <2>1, <2>4, <1>8, <1>10, Zenon DEF ProducerRuns, Suspended, ObserverWaits, Exited
    <2>6. DispatchInv'
      <3>1. /\ Turns(SentCount, Producer)' = Turns(SentCount, Producer) + 1
            /\ Turns(ReceivedCount, Consumer)' = Turns(ReceivedCount, Consumer)
            /\ Turns(SentCount, Producer) \in Nat /\ Turns(ReceivedCount, Consumer) \in Nat
            /\ ToCome' = 0
        BY <2>1, <2>4, <1>8, <1>10, <1>11 DEF Turns, ToCome
      <3> QED  BY <3>1, <2>3, <1>2, <1>11, SMTT(30) DEF RunInv, DispatchInv
    <2> QED
      BY <2>3, <2>4, <2>5, <2>6, <1>1, <1>2, <1>8, FlowSlots, Zenon
      DEF TurnInv, RunInv, TablesInv
  <1>14. ASSUME BothExited
         PROVE  SchedInv' /\ TurnInv' /\ TablesInv' /\ DispatchInv' /\ pc' = "run"
    <2>1. /\ state[Producer] = "FINISHED" /\ at[Producer] = "exited"
          /\ state[Consumer] = "FINISHED" /\ at[Consumer] = "exited"
          /\ Balanced(M)
      BY <1>14, Zenon DEF BothExited, Exited
    <2>2. \A t \in FlowTasks : st[t] # "READY"
      BY <2>1, <1>7, Zenon DEF FlowTasks
    <2>3. find_next_ready(st, Observer) = TASK_INVALID_ID
      BY <2>2, <1>7, NextTurn, FlowSlots, Zenon
    <2>4. /\ state' = st /\ cpu' = Boot /\ pc' = "run"
          /\ slices' = slices /\ switch_count' = switch_count
          /\ budget' = budget /\ base' = base /\ SchedInv'
      BY <2>3, <1>1, <1>2, FlowSlots, LastExitEffect, Zenon DEF WholeInv, FlowTasks
    <2>5. /\ state'[Producer] = "FINISHED" /\ state'[Observer] = "FINISHED"
          /\ state'[Consumer] = "FINISHED"
          /\ \A t \in Tasks \ FlowTasks : state'[t] = "UNUSED"
      BY <2>1, <2>4, <1>2, <1>6, FlowSlots, Zenon DEF RunInv, TablesInv, FlowTasks
    <2>6. BothExited' /\ Exited(Observer)'
      BY <2>1, <2>5, <1>8, <1>10, Zenon DEF BothExited, Exited
    <2>7. DispatchInv'
      <3>1. /\ Turns(SentCount, Producer)' = Turns(SentCount, Producer)
            /\ Turns(ReceivedCount, Consumer)' = Turns(ReceivedCount, Consumer)
            /\ ToCome' = ToCome
        BY <2>1, <2>5, <1>8, <1>10, <1>11, Zenon DEF Turns, ToCome
      <3> QED  BY <3>1, <2>4, <1>2, <1>11, Zenon DEF RunInv, DispatchInv
    <2> QED
      BY <2>4, <2>5, <2>6, <2>7, <1>1, <1>2, <1>8, Zenon
      DEF TurnInv, RunInv, TablesInv
  <1>15. SchedInv' /\ RunInv' /\ (cpu' # Boot \/ pc' = "run")
    BY <1>2, <1>12, <1>13, <1>14, <1>16, Zenon DEF RunInv
  <1> QED  BY <1>1, <1>2, <1>8, <1>9, <1>15, RunsOn, Zenon

(* The bound on the dispatches when a turn to come is paid for. *)
LEMMA Exchange ==
  ASSUME NEW s \in Int, NEW p \in Int, NEW c \in Int,
         NEW o \in Int, NEW w \in Int, NEW k \in Int,
         NEW o2 \in Int, NEW w2 \in Int, NEW k2 \in Int,
         s + o <= p + c + 1 + w + k, o2 + w + k <= o + w2 + k2
  PROVE  s + o2 <= p + c + 1 + w2 + k2
  OBVIOUS

(* A step of the observer, or an interrupt that ends its hlt, in which no  *)
(* other task is involved.                                                 *)
LEMMA ObserverStays ==
  ASSUME WholeInv, boot_at = "running", RunInv, cpu = Observer, pc = "body",
         BothWait \/ BothExited,
         NEW place \in {"read_irqs", "check_ticks", "check_irqs", "hlt", "halted", "woken", "finish"},
         Goto(place), at[Observer] # "exited",
         UNCHANGED <<vars, ipcVars, sequence, boot_at, producer_task_id,
                     produced_messages, consumed_messages, task_flow_failed, finished>>,
         TimerInv', ToCome' + Woken + keys <= ToCome + Woken' + keys'
  PROVE  FlowInv'
  <1>1. at \in [Tasks -> Positions] /\ place \in Positions
        /\ sequence \in [{"producer", "consumer"} -> 0 .. TASK_FLOW_MESSAGES]
    BY Zenon DEF WholeInv, FlowInv, Positions
  <1>2. /\ at'[Observer] = place /\ at'[Producer] = at[Producer]
        /\ at'[Consumer] = at[Consumer] /\ at' \in [Tasks -> Positions]
        /\ entry' = entry
    BY <1>1, FlowSlots, Zenon DEF Goto
  <1>3. /\ state' = state /\ cpu' = cpu /\ pc' = pc /\ slices' = slices
        /\ switch_count' = switch_count /\ budget' = budget /\ base' = base
        /\ endpoints' = endpoints /\ sequence' = sequence
    BY Zenon DEF vars, schedVars, cpuVars, history, ipcVars
  <1>4. BothWait' \/ BothExited'
    BY <1>2, <1>3, Zenon
    DEF BothWait, BothExited, Balanced, RingEmpty, RingOpen, Ring, Counts, SentCount,
        ReceivedCount, Suspended, Exited
  <1>5. TurnInv'
    BY <1>2, <1>3, <1>4, Zenon DEF TurnInv
  <1>6. FinishedInv' /\ TablesInv'
    <2>1. place # "exited"
      BY Zenon
    <2> QED  BY <2>1, <1>2, <1>3, Zenon DEF RunInv, FinishedInv, TablesInv, FlowTasks
  <1>7. DispatchInv'
    <2>1. /\ Turns(SentCount, Producer)' = Turns(SentCount, Producer)
          /\ Turns(ReceivedCount, Consumer)' = Turns(ReceivedCount, Consumer)
      BY <1>3, Zenon DEF Turns, SentCount, ReceivedCount
    <2>2. Turns(SentCount, Producer) \in Int /\ Turns(ReceivedCount, Consumer) \in Int
      BY <1>1, FlowAssumption, SMTT(30) DEF Turns, SentCount, ReceivedCount
    <2>3. slices \in Int /\ ToCome \in Int /\ Woken \in Int /\ keys \in Int
      BY FlowAssumption, SMTT(30)
      DEF WholeInv, SchedInv, RunInv, TimerInv, ToCome, Woken, Counted, Elapsed
    <2>4. ToCome' \in Int /\ Woken' \in Int /\ keys' \in Int
      <3>1. Elapsed' \in Int /\ keys' \in Int
        BY FlowAssumption DEF TimerInv, Elapsed
      <3>2. Counted' \in Int
        BY <3>1 DEF Counted
      <3> QED  BY <3>1, <3>2, FlowAssumption DEF ToCome, Woken
    <2>5. slices + ToCome <= Turns(SentCount, Producer) + Turns(ReceivedCount, Consumer)
                               + 1 + Woken + keys
      BY Zenon DEF RunInv, DispatchInv
    <2>6. slices + ToCome' <= Turns(SentCount, Producer) + Turns(ReceivedCount, Consumer)
                                + 1 + Woken' + keys'
      BY <2>2, <2>3, <2>4, <2>5, Exchange, Zenon
    <2> QED  BY <2>1, <2>6, <1>3, Zenon DEF RunInv, DispatchInv
  <1>8. RunInv' /\ cpu' # Boot
    BY <1>3, <1>5, <1>6, <1>7, FlowSlots, Zenon DEF RunInv
  <1> QED  BY <1>1, <1>2, <1>3, <1>8, RunsOn, Zenon

Least(a, b) == IF a < b THEN a ELSE b

(* The observer reads its start values and the counters. *)
LEMMA ObserverReads ==
  ASSUME WholeInv, observer_read_ticks \/ observer_read_irqs \/ observer_check
  PROVE  FlowInv'
  <1>1. InBody("observer", {"read_ticks", "read_irqs", "check_ticks", "check_irqs"})
    BY Zenon DEF observer_read_ticks, observer_read_irqs, observer_check, InBody
  <1>2. /\ boot_at = "running" /\ RunInv /\ state[Observer] = "RUNNING" /\ pc = "body"
        /\ cpu = Observer /\ (BothWait \/ BothExited)
        /\ at[Observer] \in {"read_ticks", "read_irqs", "check_ticks", "check_irqs"}
    <2>1. "observer" \in Bodies
      BY Zenon DEF Bodies
    <2>2. /\ boot_at = "running" /\ RunInv /\ state[cpu] = "RUNNING" /\ pc = "body"
          /\ cpu = Observer /\ (BothWait \/ BothExited)
          /\ at[cpu] \in {"read_ticks", "read_irqs", "check_ticks", "check_irqs"}
      BY <2>1, <1>1, WhoRuns, Zenon
    <2> QED  BY <2>2, Zenon
  <1>3. at \in [Tasks -> Positions]
    BY Zenon DEF WholeInv, FlowInv
  <1>4. ASSUME NEW place \in Positions, Goto(place)
        PROVE  at'[Observer] = place
    BY <1>2, <1>3, <1>4, FlowSlots, Zenon DEF Goto
  <1>5. at[Observer] # "exited" /\ ToCome = 0
    BY <1>2, Zenon DEF ToCome
  <1> DEFINE frame == UNCHANGED <<vars, ipcVars, sequence, boot_at, producer_task_id,
                         produced_messages, consumed_messages, task_flow_failed, finished>>
  <1>6. /\ tick_count \in Nat /\ irq0_count = tick_count /\ keys \in 0 .. MaxKeys
        /\ task_flow_tick_start \in Nat /\ task_flow_irq_start \in Nat
    BY <1>2, Zenon DEF RunInv, TimerInv
  <1>7. CASE observer_read_ticks
    <2>1. /\ frame /\ Goto("read_irqs") /\ task_flow_tick_start' = tick_count
          /\ UNCHANGED <<tick_count, irq0_count, keys, task_flow_irq_start>>
          /\ at[Observer] = "read_ticks"
      BY <1>2, <1>7, Zenon DEF observer_read_ticks, bootVars, interruptVars, InBody
    <2>2. at'[Observer] = "read_irqs"
      BY <1>4, <2>1, Zenon DEF Positions
    <2>3. TimerInv'
      BY <1>6, <2>1, <2>2 DEF TimerInv
    <2>4. state' = state
      BY <2>1, Zenon DEF vars, schedVars
    <2>5. ToCome' = 0 /\ Woken = 0 /\ Woken' = 0 /\ keys' = keys
      BY <1>2, <2>1, <2>2, <2>4, Zenon DEF ToCome, Woken
    <2>6. ToCome' + Woken + keys <= ToCome + Woken' + keys'
      BY <2>5, <1>5, <1>6, FlowAssumption
    <2> QED  BY <1>2, <1>5, <2>1, <2>3, <2>6, ObserverStays, Zenon
  <1>8. CASE observer_read_irqs
    <2>1. /\ frame /\ Goto("check_ticks") /\ task_flow_irq_start' = irq0_count
          /\ UNCHANGED <<tick_count, irq0_count, keys, task_flow_tick_start>>
          /\ at[Observer] = "read_irqs"
      BY <1>2, <1>8, Zenon DEF observer_read_irqs, bootVars, interruptVars, InBody
    <2>2. at'[Observer] = "check_ticks"
      BY <1>4, <2>1, Zenon DEF Positions
    <2>a. task_flow_tick_start <= tick_count
      BY <1>2, <2>1, Zenon DEF RunInv, TimerInv
    <2>3. TimerInv'
      BY <1>6, <2>1, <2>2, <2>a DEF TimerInv
    <2>4. state' = state
      BY <2>1, Zenon DEF vars, schedVars
    <2>5. ToCome' = 0 /\ Woken = 0 /\ keys' = keys
      BY <1>2, <2>1, <2>2, <2>4, Zenon DEF ToCome, Woken
    <2>b. Woken' = 0
      BY <2>1, <2>2, <1>6, FlowAssumption DEF Woken, Counted, Elapsed
    <2>6. ToCome' + Woken + keys <= ToCome + Woken' + keys'
      BY <2>5, <2>b, <1>5, <1>6, FlowAssumption
    <2> QED  BY <1>2, <1>5, <2>1, <2>3, <2>6, ObserverStays, Zenon
  <1>9. CASE observer_check
    <2> DEFINE place == IF at[Observer] = "check_ticks"
                        THEN IF tick_count - task_flow_tick_start < PIT_TEST_TICKS
                             THEN "hlt" ELSE "check_irqs"
                        ELSE IF irq0_count - task_flow_irq_start < PIT_TEST_TICKS
                             THEN "hlt" ELSE "finish"
    <2>1. /\ frame /\ Goto(place)
          /\ UNCHANGED <<tick_count, irq0_count, keys, task_flow_tick_start,
                         task_flow_irq_start>>
          /\ at[Observer] \in {"check_ticks", "check_irqs"}
      BY <1>2, <1>9, Zenon DEF observer_check, bootVars, interruptVars, flowVars, InBody
    <2>2. /\ place \in {"hlt", "check_irqs", "finish"} /\ place \in Positions
          /\ at'[Observer] = place
      BY <1>4, <2>1, Zenon DEF Positions
    <2>a. /\ task_flow_tick_start <= task_flow_irq_start
          /\ task_flow_irq_start <= irq0_count /\ task_flow_tick_start <= tick_count
      BY <1>2, <2>1, Zenon DEF RunInv, TimerInv
    <2>b. /\ place = "hlt" => Elapsed < PIT_TEST_TICKS
          /\ place = "finish" => Elapsed >= PIT_TEST_TICKS
      BY <2>a, <1>6, FlowAssumption, SMTT(30) DEF Elapsed
    <2> HIDE DEF place
    <2>3. TimerInv'
      BY <1>6, <2>1, <2>2, <2>a, <2>b, Zenon DEF TimerInv, Elapsed
    <2>4. state' = state
      BY <2>1, Zenon DEF vars, schedVars
    <2>5. keys' = keys /\ keys \in Int /\ Elapsed' = Elapsed /\ Elapsed \in Int
      BY <2>1, <1>6, FlowAssumption DEF Elapsed
    <2>c. Woken = Least(Elapsed, PIT_TEST_TICKS)
      BY <1>2, <2>1, Zenon DEF Woken, Counted, Least
    <2>6. ToCome' + Woken + keys <= ToCome + Woken' + keys'
      <3>1. CASE place = "hlt"
        <4>1. ToCome' = 1 /\ Woken' = Least(Elapsed + 1, PIT_TEST_TICKS)
          BY <3>1, <2>2, <2>5, Zenon DEF ToCome, Woken, Counted, Least
        <4> QED  BY <4>1, <3>1, <2>b, <2>c, <2>5, <1>5, FlowAssumption DEF Least
      <3>2. CASE place # "hlt"
        <4>1. ToCome' = 0 /\ Woken' = Least(Elapsed, PIT_TEST_TICKS)
          BY <3>2, <1>2, <2>2, <2>4, <2>5, Zenon DEF ToCome, Woken, Counted, Least
        <4> QED  BY <4>1, <2>c, <2>5, <1>5, FlowAssumption DEF Least
      <3> QED  BY <3>1, <3>2, Zenon
    <2> QED  BY <1>2, <1>5, <2>1, <2>2, <2>3, <2>6, ObserverStays, Zenon
  <1> QED  BY <1>7, <1>8, <1>9, Zenon

(* The hlt itself: what was counted at the test stays counted. *)
LEMMA ObserverHltStep ==
  ASSUME WholeInv, observer_hlt
  PROVE  FlowInv'
  <1>1. /\ InBody("observer", {"hlt"}) /\ Goto("halted")
        /\ UNCHANGED <<vars, ipcVars, interruptVars, bootVars, sequence, flowVars>>
    BY Zenon DEF observer_hlt
  <1>2. /\ boot_at = "running" /\ RunInv /\ pc = "body" /\ cpu = Observer
        /\ (BothWait \/ BothExited) /\ at[Observer] = "hlt"
    <2>1. "observer" \in Bodies
      BY Zenon DEF Bodies
    <2>2. /\ boot_at = "running" /\ RunInv /\ pc = "body" /\ cpu = Observer
          /\ (BothWait \/ BothExited) /\ at[cpu] \in {"hlt"}
      BY <2>1, <1>1, WhoRuns, Zenon
    <2> QED  BY <2>2, Zenon
  <1>3. at'[Observer] = "halted"
    <2>1. at \in [Tasks -> Positions]
      BY Zenon DEF WholeInv, FlowInv
    <2> QED  BY <2>1, <1>1, <1>2, FlowSlots, Zenon DEF Goto
  <1>4. UNCHANGED <<tick_count, irq0_count, keys, task_flow_tick_start, task_flow_irq_start>>
    BY <1>1, Zenon DEF interruptVars, flowVars
  <1>5. TimerInv'
    BY <1>2, <1>3, <1>4, Zenon DEF RunInv, TimerInv
  <1>6. ToCome = 1 /\ ToCome' = 1 /\ Woken' = Woken /\ keys' = keys
    BY <1>2, <1>3, <1>4, Zenon DEF ToCome, Woken, Counted, Elapsed
  <1>7. ToCome' + Woken + keys <= ToCome + Woken' + keys'
    <2>1. Woken \in Int /\ keys \in Int
      BY <1>2, FlowAssumption DEF RunInv, TimerInv, Woken, Counted, Elapsed
    <2> QED  BY <2>1, <1>6
  <1> QED
    BY <1>1, <1>2, <1>5, <1>7, ObserverStays, Zenon DEF bootVars, flowVars

(* A step that leaves the scheduler, or the message queues, alone. *)
LEMMA SchedStays == ASSUME SchedInv, UNCHANGED vars PROVE SchedInv'
  BY Zenon DEF SchedInv, vars, schedVars, cpuVars, history, Gone

LEMMA IpcStays == ASSUME IpcTypeOK, UNCHANGED ipcVars PROVE IpcTypeOK'
  BY Zenon DEF IpcTypeOK, ipcVars

-----------------------------------------------------------------------------
(* The remainders of the sequence numbers. *)
LEMMA SequenceNumbers ==
  /\ SeqMod \in Nat \ {0} /\ IPC_QUEUE_DEPTH \in Nat \ {0} /\ SeqMod > IPC_QUEUE_DEPTH
  /\ \A i \in Nat : i % SeqMod \in 0 .. SeqMod - 1 /\ i % IPC_QUEUE_DEPTH \in Slots
  /\ SeqMod % SeqMod = 0 /\ 0 % SeqMod = 0 /\ 1 % SeqMod = 1
  BY IpcAssumption DEF Slots

(* One step of a sequence number. *)
LEMMA SequenceStep ==
  ASSUME NEW r \in 0 .. SeqMod - 1
  PROVE  /\ r % IPC_QUEUE_DEPTH \in Slots /\ (r + 1) % SeqMod \in 0 .. SeqMod - 1
         /\ (r + 1) % SeqMod # r
  <1>1. r \in Nat /\ r + 1 \in Nat /\ (r + 1 < SeqMod \/ r + 1 = SeqMod)
    BY SequenceNumbers
  <1>2. r % IPC_QUEUE_DEPTH \in Slots /\ (r + 1) % SeqMod \in 0 .. SeqMod - 1
    BY <1>1, SequenceNumbers, Zenon
  <1>3. r + 1 < SeqMod => (r + 1) % SeqMod = r + 1
    BY <1>1, IpcAssumption
  <1>4. r + 1 = SeqMod => (r + 1) % SeqMod = 0 /\ r # 0
    BY <1>1, SequenceNumbers
  <1> QED  BY <1>1, <1>2, <1>3, <1>4

(* The type of an endpoint, and the one of the flow. *)
EndpointType == [allocated : BOOLEAN, read_sequence : 0 .. SeqMod - 1,
                 write_sequence : 0 .. SeqMod - 1, rejected_messages : 0 .. SeqMod - 1,
                 queue : [Slots -> Message]]
LEMMA RingType ==
  ASSUME IpcTypeOK
  PROVE  /\ endpoints \in [Endpoints -> EndpointType] /\ out \in Message
         /\ task_flow_endpoint \in Endpoints /\ Ring \in EndpointType
         /\ Ring = endpoints[task_flow_endpoint]
  <1>1. task_flow_endpoint \in Endpoints /\ Ring = endpoints[task_flow_endpoint]
    BY FlowAssumption, IpcAssumption DEF task_flow_endpoint, Endpoints, Ring
  <1>2. endpoints \in [Endpoints -> EndpointType] /\ out \in Message
    BY Zenon DEF IpcTypeOK, EndpointType
  <1> QED  BY <1>1, <1>2, Zenon

(* How many messages ipc_pending reports for the ring. *)
LEMMA PendingCount ==
  ASSUME IpcTypeOK
  PROVE  /\ RingEmpty => Pending(Ring) = 0
         /\ \A k : RingHolds(k) => Pending(Ring) = 1
  <1> DEFINE w == Ring.write_sequence
             r == Ring.read_sequence
             S == SeqMod
  <1>1. task_flow_endpoint \in Endpoints
    BY FlowAssumption, IpcAssumption DEF task_flow_endpoint, Endpoints
  <1>2. w \in 0 .. S - 1 /\ r \in 0 .. S - 1
    BY <1>1, Zenon DEF IpcTypeOK, Ring
  <1>3. Pending(Ring) = (w + S - r) % S
    BY Zenon DEF Pending
  <1> HIDE DEF w, r
  <1>4. S \in Nat /\ S > 1
    BY IpcAssumption
  <1> HIDE DEF S
  <1>5. w = r => (w + S - r) % S = 0
    <2> SUFFICES ASSUME w = r PROVE (w + S - r) % S = 0
      BY Zenon
    <2>1. w + S - r = S
      BY <1>2, <1>4
    <2> QED  BY <2>1, SequenceNumbers, Zenon DEF S
  <1>6. w = (r + 1) % S => (w + S - r) % S = 1
    <2> SUFFICES ASSUME w = (r + 1) % S PROVE (w + S - r) % S = 1
      BY Zenon
    <2>1. CASE r + 1 < S
      <3>1. w = r + 1
        BY <2>1, <1>2, <1>4
      <3>2. w + S - r = S + 1
        BY <3>1, <1>2, <1>4
      <3>3. (S + 1) % S = 1
        BY <1>4
      <3> QED  BY <3>2, <3>3, Zenon
    <2>2. CASE r + 1 = S
      <3>1. w = 0
        BY <2>2, SequenceNumbers, Zenon DEF S
      <3>2. w + S - r = 1
        BY <3>1, <2>2, <1>2, <1>4
      <3> QED  BY <3>2, SequenceNumbers, Zenon DEF S
    <2> QED  BY <2>1, <2>2, <1>2, <1>4
  <1>7. RingEmpty => w = r
    BY Zenon DEF RingEmpty, w, r
  <1>8. ASSUME NEW k, RingHolds(k) PROVE w = (r + 1) % S
    BY <1>8, Zenon DEF RingHolds, w, r, S
  <1> QED  BY <1>3, <1>5, <1>6, <1>7, <1>8, Zenon


(* Sending to the empty ring. *)
LEMMA RingSend ==
  ASSUME IpcTypeOK, RingEmpty, NEW k, NEW m \in CallerMessage,
         m.sender = Producer, m.length = 1, m.payload[0] = k,
         ipc_send(task_flow_endpoint, m)
  PROVE  ok' = TRUE /\ RingHolds(k)' /\ IpcTypeOK'
  <1> DEFINE e == task_flow_endpoint
             w == Ring.write_sequence
             slot == w % IPC_QUEUE_DEPTH
             after == [Ring EXCEPT !.queue = [@ EXCEPT ![slot] = Copy(m)],
                                   !.write_sequence = (@ + 1) % SeqMod]
  <1>1. Ring.allocated /\ Ring.rejected_messages = 0 /\ w = Ring.read_sequence
    BY Zenon DEF RingEmpty, RingOpen
  <1>2. endpoint_is_valid(e) /\ m # NULL
    BY <1>1, RingType, FlowAssumption, Zenon DEF endpoint_is_valid
  <1>a. /\ IPC_PAYLOAD_MAX >= 1 /\ IPC_PAYLOAD_MAX \in Nat
        /\ 0 .. IPC_PAYLOAD_MAX - 1 \subseteq Byte
    BY FlowAssumption, IpcAssumption, Zenon DEF Indices
  <1>3. ~ TooLong(m)
    <2>1. ~ (1 > IPC_PAYLOAD_MAX)
      BY <1>a, SMTT(30)
    <2> QED  BY <2>1, Zenon DEF TooLong
  <1>4. ~ IsFull(endpoints[e])
    BY RingType, PendingCount, SequenceNumbers DEF IsFull
  <1>5. /\ endpoints' = [endpoints EXCEPT
                           ![e].queue[endpoints[e].write_sequence % IPC_QUEUE_DEPTH] = Copy(m),
                           ![e].write_sequence = (@ + 1) % SeqMod]
        /\ ok' = TRUE /\ out' = out
    BY <1>2, <1>3, <1>4, Zenon DEF ipc_send
  <1>6. endpoints' = [endpoints EXCEPT ![e] = after]
    BY <1>5, RingType, Zenon
  <1>7. w \in 0 .. SeqMod - 1
    BY RingType, Zenon DEF EndpointType
  <1>8. slot \in Slots /\ (w + 1) % SeqMod \in 0 .. SeqMod - 1
    BY <1>7, SequenceStep, Zenon
  <1>9. /\ m.payload \in [Indices -> Byte] /\ m.sender \in Senders
        /\ m = [sender |-> m.sender, length |-> m.length, payload |-> m.payload]
    BY Zenon DEF CallerMessage, MessagesUpTo, Payloads
  <1>10. Copy(m) = [sender |-> m.sender, length |-> 1,
                    payload |-> [i \in Indices |-> IF i < 1 THEN m.payload[i] ELSE 0]]
    BY <1>9 DEF Copy
  <1>11. 0 \in Indices /\ 1 \in 0 .. IPC_PAYLOAD_MAX /\ 0 \in Byte
    BY <1>a, SMTT(30) DEF Indices
  <1>12. Copy(m).payload[0] = k /\ \A i \in Indices : i >= 1 => Copy(m).payload[i] = 0
    BY <1>10, <1>11 DEF Indices
  <1>13. [i \in Indices |-> IF i < 1 THEN m.payload[i] ELSE 0] \in Payloads
    BY <1>9, <1>11, Zenon DEF Payloads
  <1>14. /\ Copy(m).sender = Producer /\ Copy(m).length = 1
         /\ Copy(m) \in Message
    BY <1>9, <1>10, <1>11, <1>13 DEF Message, MessagesUpTo
  <1> HIDE DEF slot
  <1>15. /\ after \in EndpointType /\ after.allocated /\ after.rejected_messages = 0
         /\ after.read_sequence = w /\ after.write_sequence = (w + 1) % SeqMod
         /\ after.queue[slot] = Copy(m)
    BY <1>1, <1>8, <1>14, RingType, Zenon DEF EndpointType
  <1> HIDE DEF after
  <1>16. Ring' = after /\ endpoints' \in [Endpoints -> EndpointType]
    BY <1>6, <1>15, RingType, Zenon DEF Ring
  <1> HIDE DEF w
  <1>17. RingHolds(k)'
    BY <1>12, <1>14, <1>15, <1>16, Zenon DEF RingHolds, RingOpen, slot
  <1> QED  BY <1>5, <1>16, <1>17, RingType, Zenon DEF IpcTypeOK, EndpointType

(* Receiving from the ring that holds message k. *)
LEMMA RingReceive ==
  ASSUME IpcTypeOK, NEW k, RingHolds(k), ipc_receive(task_flow_endpoint, FALSE)
  PROVE  /\ ok' = TRUE /\ RingEmpty' /\ IpcTypeOK'
         /\ out'.sender = Producer /\ out'.length = 1 /\ out'.payload[0] = k
         /\ \A i \in Indices : i >= 1 => out'.payload[i] = 0
  <1> DEFINE e == task_flow_endpoint
             r == Ring.read_sequence
             slot == r % IPC_QUEUE_DEPTH
             after == [Ring EXCEPT !.read_sequence = (@ + 1) % SeqMod]
  <1>1. /\ Ring.allocated /\ Ring.rejected_messages = 0
        /\ Ring.write_sequence = (r + 1) % SeqMod
        /\ Ring.queue[slot].sender = Producer /\ Ring.queue[slot].length = 1
        /\ Ring.queue[slot].payload[0] = k
        /\ \A i \in Indices : i >= 1 => Ring.queue[slot].payload[i] = 0
    BY Zenon DEF RingHolds, RingOpen
  <1>2. endpoint_is_valid(e)
    BY <1>1, RingType, Zenon DEF endpoint_is_valid
  <1>3. r \in 0 .. SeqMod - 1
    BY RingType, Zenon DEF EndpointType
  <1>4. slot \in Slots /\ (r + 1) % SeqMod \in 0 .. SeqMod - 1 /\ (r + 1) % SeqMod # r
    BY <1>3, SequenceStep, Zenon
  <1>5. /\ out' = Ring.queue[slot] /\ ok' = TRUE
        /\ endpoints' = [endpoints EXCEPT ![e].read_sequence = (@ + 1) % SeqMod]
    BY <1>1, <1>2, <1>4, RingType, Zenon DEF ipc_receive
  <1>6. endpoints' = [endpoints EXCEPT ![e] = after]
    BY <1>5, RingType, Zenon
  <1> HIDE DEF slot
  <1>7. /\ after \in EndpointType /\ after.allocated /\ after.rejected_messages = 0
        /\ after.read_sequence = (r + 1) % SeqMod
        /\ after.write_sequence = (r + 1) % SeqMod
        /\ Ring.queue[slot] \in Message
    BY <1>1, <1>4, RingType, Zenon DEF EndpointType
  <1> HIDE DEF after
  <1>8. Ring' = after /\ endpoints' \in [Endpoints -> EndpointType]
    BY <1>6, <1>7, RingType, Zenon DEF Ring
  <1> HIDE DEF r
  <1>9. RingEmpty' /\ IpcTypeOK'
    BY <1>5, <1>7, <1>8, Zenon DEF RingEmpty, RingOpen, IpcTypeOK, EndpointType
  <1> QED  BY <1>1, <1>5, <1>9, Zenon

(* A step of producer or consumer that keeps the CPU. *)
LEMMA TurnGoesOn ==
  ASSUME WholeInv, boot_at = "running", RunInv, cpu = Producer \/ cpu = Consumer,
         NEW place \in {"sent"}, Goto(place), at[cpu] # "exited",
         UNCHANGED <<vars, interruptVars, bootVars, sequence, producer_task_id,
                     task_flow_tick_start, task_flow_irq_start, task_flow_failed, finished>>,
         TurnInv'
  PROVE  SchedInv' /\ FlowInv'
  <1>1. at \in [Tasks -> Positions] /\ place \in Positions /\ place # "exited"
        /\ sequence \in [{"producer", "consumer"} -> 0 .. TASK_FLOW_MESSAGES]
    BY Zenon DEF WholeInv, FlowInv, Positions
  <1>2. /\ at' \in [Tasks -> Positions] /\ at'[cpu] = place /\ entry' = entry
        /\ \A t \in FlowTasks : t # cpu => at'[t] = at[t]
        /\ at'[Observer] = at[Observer]
    BY <1>1, FlowSlots, Zenon DEF Goto, FlowTasks
  <1>3. /\ state' = state /\ cpu' = cpu /\ pc' = pc /\ slices' = slices
        /\ switch_count' = switch_count /\ budget' = budget /\ base' = base
        /\ boot_at' = boot_at /\ tick_count' = tick_count
        /\ irq0_count' = irq0_count /\ keys' = keys
    BY Zenon DEF vars, schedVars, cpuVars, history, bootVars, interruptVars
  <1>4. FinishedInv' /\ TablesInv'
    BY <1>1, <1>2, <1>3, Zenon DEF RunInv, FinishedInv, TablesInv
  <1>5. TimerInv' /\ DispatchInv'
    BY <1>2, <1>3, Zenon
    DEF RunInv, TimerInv, DispatchInv, Counted, Elapsed, Turns, ToCome, Woken, SentCount, ReceivedCount
  <1>6. RunInv' /\ cpu' # Boot
    BY <1>3, <1>4, <1>5, FlowSlots, Zenon DEF RunInv
  <1>7. FlowInv'
    BY <1>1, <1>2, <1>3, <1>6, RunsOn, Zenon
  <1> QED  BY <1>7, SchedStays, Zenon DEF WholeInv

(* The message of the producer finds the ring empty. *)
LEMMA ProducerSends ==
  ASSUME WholeInv, producer_send PROVE WholeInv'
  <1> DEFINE M == TASK_FLOW_MESSAGES
  <1>1. /\ InBody("producer", {"send"}) /\ ipc_send(task_flow_endpoint, FlowMessage)
        /\ produced_messages' = produced_messages + (IF ok' THEN 1 ELSE 0)
        /\ Goto(IF ok' THEN "sent" ELSE "retry")
        /\ UNCHANGED <<vars, interruptVars, bootVars, sequence, producer_task_id,
                       task_flow_tick_start, task_flow_irq_start, consumed_messages,
                       task_flow_failed, finished>>
    BY Zenon DEF producer_send
  <1>2. /\ boot_at = "running" /\ RunInv /\ current_task_id = cpu
        /\ at[Producer] = "send" /\ cpu = Producer /\ ProducerRuns /\ ObserverWaits
    <2>1. "producer" \in Bodies
      BY Zenon DEF Bodies
    <2>2. /\ boot_at = "running" /\ RunInv /\ current_task_id = cpu
          /\ at[cpu] \in {"send"} /\ cpu = Producer /\ ProducerRuns /\ ObserverWaits
      BY <2>1, <1>1, WhoRuns, Zenon
    <2> QED  BY <2>2, Zenon
  <1>3. PICK k \in 0 .. M : /\ Suspended(Consumer, After(k, "receive")) /\ k < M
                            /\ Balanced(k)
    BY <1>2, ZenonT(40) DEF ProducerRuns, After
  <1>4. FlowMessage \in CallerMessage /\ FlowMessage.sender = Producer
        /\ FlowMessage.length = 1 /\ FlowMessage.payload[0] = k
    <2>1. sequence["producer"] = k /\ current_task_id = Producer /\ IpcTypeOK
      BY <1>2, <1>3, Zenon DEF Balanced, Counts, SentCount, WholeInv
    <2>2. k \in Byte /\ 0 \in Indices /\ 1 \in 0 .. IPC_PAYLOAD_MAX + 1
          /\ Indices \subseteq Byte
      BY <1>3, FlowAssumption, IpcAssumption DEF Indices
    <2>3. [i \in Indices |-> IF i = 0 THEN k ELSE i] \in Payloads
      BY <2>2, Zenon DEF Payloads
    <2>4. Producer \in Senders
      BY FlowSlots, FlowAssumption, Zenon
    <2> QED  BY <2>1, <2>2, <2>3, <2>4, Zenon DEF FlowMessage, CallerMessage, MessagesUpTo
  <1>5. ok' = TRUE /\ RingHolds(k)' /\ IpcTypeOK'
    BY <1>1, <1>3, <1>4, RingSend, Zenon DEF Balanced, WholeInv
  <1>6. Goto("sent") /\ produced_messages' = k + 1 /\ Counts(k, k, k + 1, k)'
    BY <1>1, <1>3, <1>5, Zenon DEF Balanced, Counts, SentCount, ReceivedCount
  <1>7. /\ at'[Producer] = "sent" /\ at'[Consumer] = at[Consumer]
        /\ at'[Observer] = at[Observer] /\ state' = state /\ cpu' = cpu
    <2>1. at \in [Tasks -> Positions]
      BY Zenon DEF WholeInv, FlowInv
    <2>2. state' = state /\ cpu' = cpu
      BY <1>1, Zenon DEF vars, schedVars, cpuVars
    <2> QED  BY <2>1, <2>2, <1>2, <1>6, FlowSlots, Zenon DEF Goto
  <1>8. ProducerRuns' /\ ObserverWaits'
    BY <1>2, <1>3, <1>5, <1>6, <1>7, Zenon
    DEF ProducerRuns, ObserverWaits, Suspended, Exited
  <1>9. TurnInv'
    BY <1>2, <1>7, <1>8, Zenon DEF TurnInv
  <1>10. at[cpu] # "exited"
    BY <1>2, Zenon
  <1>11. SchedInv' /\ FlowInv'
    BY <1>1, <1>2, <1>6, <1>9, <1>10, TurnGoesOn, Zenon
  <1> QED  BY <1>5, <1>11, Zenon DEF WholeInv

(* The consumer finds the message it expects. *)
LEMMA ConsumerReceives ==
  ASSUME WholeInv, consumer_receive PROVE WholeInv'
  <1> DEFINE M == TASK_FLOW_MESSAGES
  <1>1. /\ InBody("consumer", {"receive"}) /\ ipc_receive(task_flow_endpoint, FALSE)
        /\ task_flow_failed' = (task_flow_failed \/ (ok' /\ ~ Expected(out')))
        /\ consumed_messages' = consumed_messages
                                  + (IF ok' /\ Expected(out') THEN 1 ELSE 0)
        /\ Goto(IF ~ ok' THEN "retry" ELSE IF Expected(out') THEN "sent" ELSE "return")
        /\ UNCHANGED <<vars, interruptVars, bootVars, sequence, producer_task_id,
                       task_flow_tick_start, task_flow_irq_start, produced_messages,
                       finished>>
    BY Zenon DEF consumer_receive
  <1>2. /\ boot_at = "running" /\ RunInv
        /\ at[Consumer] = "receive" /\ cpu = Consumer /\ ConsumerRuns /\ ObserverWaits
    <2>1. "consumer" \in Bodies
      BY Zenon DEF Bodies
    <2>2. /\ boot_at = "running" /\ RunInv
          /\ at[cpu] \in {"receive"} /\ cpu = Consumer /\ ConsumerRuns /\ ObserverWaits
      BY <2>1, <1>1, WhoRuns, Zenon
    <2> QED  BY <2>2, Zenon
  <1>3. PICK k \in 0 .. M - 1 : /\ Suspended(Producer, After(k + 1, "send"))
                                /\ Counts(k + 1, k, k + 1, k) /\ RingHolds(k)
    BY <1>2, Zenon DEF ConsumerRuns
  <1>4. /\ ok' = TRUE /\ RingEmpty' /\ IpcTypeOK'
        /\ out'.sender = Producer /\ out'.length = 1 /\ out'.payload[0] = k
        /\ \A i \in Indices : i >= 1 => out'.payload[i] = 0
    BY <1>1, <1>3, RingReceive, Zenon DEF WholeInv
  <1>5. Expected(out')
    BY <1>2, <1>3, <1>4, Zenon DEF Expected, Counts, ReceivedCount, RunInv, TablesInv
  <1>6. /\ Goto("sent") /\ task_flow_failed' = task_flow_failed
        /\ Counts(k + 1, k, k + 1, k + 1)'
    <2>1. task_flow_failed = FALSE
      BY Zenon DEF WholeInv, FlowInv
    <2> QED  BY <2>1, <1>1, <1>3, <1>4, <1>5, Zenon DEF Counts, SentCount, ReceivedCount
  <1>7. /\ at'[Consumer] = "sent" /\ at'[Producer] = at[Producer]
        /\ at'[Observer] = at[Observer] /\ state' = state /\ cpu' = cpu
    <2>1. at \in [Tasks -> Positions]
      BY Zenon DEF WholeInv, FlowInv
    <2>2. state' = state /\ cpu' = cpu
      BY <1>1, Zenon DEF vars, schedVars, cpuVars
    <2> QED  BY <2>1, <2>2, <1>2, <1>6, FlowSlots, Zenon DEF Goto
  <1>8. ConsumerRuns' /\ ObserverWaits'
    BY <1>2, <1>3, <1>4, <1>6, <1>7, Zenon
    DEF ConsumerRuns, ObserverWaits, Suspended, Exited
  <1>9. TurnInv'
    BY <1>2, <1>7, <1>8, Zenon DEF TurnInv
  <1>10. at[cpu] # "exited"
    BY <1>2, Zenon
  <1>11. SchedInv' /\ FlowInv'
    BY <1>1, <1>2, <1>6, <1>9, <1>10, TurnGoesOn, Zenon
  <1> QED  BY <1>4, <1>11, Zenon DEF WholeInv

-----------------------------------------------------------------------------
(* A step that moves no task and no message. *)
LEMMA TurnsFrozen ==
  ASSUME UNCHANGED <<state, at, entry, sequence, endpoints, producer_task_id,
                     produced_messages, consumed_messages, finished>>
  PROVE  /\ (TurnInv /\ cpu' = cpu /\ pc' = pc => TurnInv')
         /\ (TurnInv /\ cpu' = cpu /\ pc' = "body" => TurnInv')
         /\ (FinishedInv => FinishedInv') /\ (TablesInv => TablesInv')
  <1>1. /\ RingEmpty => RingEmpty'
        /\ \A k : RingHolds(k) => RingHolds(k)'
    BY Zenon DEF RingEmpty, RingHolds, RingOpen, Ring
  <1>2. \A a, b, c, e : Counts(a, b, c, e) => Counts(a, b, c, e)'
    BY Zenon DEF Counts, SentCount, ReceivedCount
  <1>3. ProducerRuns => ProducerRuns'
    BY <1>1, <1>2, Zenon DEF ProducerRuns, Suspended, Balanced
  <1>4. ConsumerRuns => ConsumerRuns'
    BY <1>1, <1>2, Zenon DEF ConsumerRuns, Suspended, Balanced, Exited
  <1>5. (BothWait => BothWait') /\ (BothExited => BothExited')
    BY <1>1, <1>2, Zenon DEF BothWait, BothExited, Suspended, Balanced, Exited
  <1>6. (ObserverWaits => ObserverWaits') /\ (Exited(Observer) => Exited(Observer)')
    BY Zenon DEF ObserverWaits, Exited
  <1>7. ASSUME TurnInv, cpu' = cpu, pc' = pc \/ pc' = "body" PROVE TurnInv'
    BY <1>3, <1>4, <1>5, <1>6, <1>7, Zenon DEF TurnInv
  <1>8. (FinishedInv => FinishedInv') /\ (TablesInv => TablesInv')
    BY Zenon DEF FinishedInv, TablesInv
  <1> QED  BY <1>7, <1>8, Zenon

(* Only the observer halts the CPU, and at[Observer] says so. *)
LEMMA WhoHalts ==
  ASSUME WholeInv, boot_at = "running"
  PROVE  /\ ObserverHalts <=> at[Observer] = "halted"
         /\ ObserverHalts => /\ cpu = Observer /\ pc = "body"
                             /\ BothWait \/ BothExited
                             /\ state[Observer] = "RUNNING"
  <1>1. RunInv
    BY Zenon DEF WholeInv, FlowInv
  <1>2. ASSUME ObserverHalts
        PROVE  /\ cpu = Observer /\ pc = "body" /\ (BothWait \/ BothExited)
               /\ state[Observer] = "RUNNING" /\ at[Observer] = "halted"
    <2>1. "observer" \in Bodies /\ InBody("observer", {"halted"})
      BY <1>2, Zenon DEF Bodies, ObserverHalts
    <2>2. /\ cpu = Observer /\ pc = "body" /\ (BothWait \/ BothExited)
          /\ state[cpu] = "RUNNING" /\ at[cpu] \in {"halted"}
      BY <2>1, WhoRuns, Zenon
    <2> QED  BY <2>2, Zenon
  <1>3. ASSUME at[Observer] = "halted" PROVE ObserverHalts
    <2>1. cpu = Observer /\ pc = "body"
      BY <1>1, <1>3, Zenon DEF RunInv, TurnInv, ObserverWaits, Exited
    <2>2. entry[Observer] = "observer"
      BY <1>1, Zenon DEF RunInv, TablesInv
    <2> QED  BY <2>1, <2>2, <1>3, FlowSlots, Zenon DEF ObserverHalts, InBody
  <1> QED  BY <1>2, <1>3, Zenon

(* The interrupt that ends a hlt is the tick counted ahead, or a key. *)
LEMMA LastTick == \A e \in Int, p \in Nat, i \in {0, 1}, k \in Int :
                    1 + Least(e + 1, p) + k <= 1 + Least(e + i, p) + (k + 1 - i)
  BY DEF Least

(* An interrupt, of the timer (d = 1) or of the keyboard (d = 0), while    *)
(* tasks run.                                                              *)
LEMMA TaskInterrupted ==
  ASSUME WholeInv, boot_at = "running", NEW d \in {0, 1}, Wake,
         tick_count' = tick_count + d, irq0_count' = irq0_count + d,
         keys' = keys + 1 - d, keys' <= MaxKeys, d = 0 => ObserverHalts,
         UNCHANGED <<vars, ipcVars, sequence, flowVars>>
  PROVE  FlowInv'
  <1>1. RunInv /\ TimerInv /\ DispatchInv
    BY Zenon DEF WholeInv, FlowInv, RunInv
  <1>2. /\ boot_at' = boot_at
        /\ IF ObserverHalts THEN Goto("woken") ELSE UNCHANGED <<entry, at>>
    BY Zenon DEF Wake
  <1>3. /\ tick_count \in Nat /\ irq0_count = tick_count /\ keys \in 0 .. MaxKeys
        /\ task_flow_tick_start \in Nat /\ task_flow_irq_start \in Nat
        /\ keys' \in 0 .. MaxKeys /\ tick_count' \in Nat /\ irq0_count' = tick_count'
        /\ tick_count <= tick_count' /\ PIT_TEST_TICKS \in Nat
    BY <1>1, FlowAssumption DEF TimerInv
  <1>4. /\ state' = state /\ cpu' = cpu /\ pc' = pc /\ slices' = slices
        /\ switch_count' = switch_count /\ budget' = budget /\ base' = base
        /\ endpoints' = endpoints /\ sequence' = sequence
        /\ task_flow_tick_start' = task_flow_tick_start
        /\ task_flow_irq_start' = task_flow_irq_start
        /\ UNCHANGED <<producer_task_id, produced_messages, consumed_messages,
                       task_flow_failed, finished>>
    BY Zenon DEF vars, schedVars, cpuVars, history, ipcVars, flowVars
  <1>5. /\ at \in [Tasks -> Positions]
        /\ sequence \in [{"producer", "consumer"} -> 0 .. TASK_FLOW_MESSAGES]
    BY Zenon DEF WholeInv, FlowInv
  <1>6. /\ at[Observer] # "read_ticks" => task_flow_tick_start <= tick_count
        /\ at[Observer] \notin {"read_ticks", "read_irqs"} =>
             task_flow_tick_start <= task_flow_irq_start /\ task_flow_irq_start <= irq0_count
        /\ at[Observer] \in {"finish", "exited"} => Elapsed >= PIT_TEST_TICKS
    BY <1>1, Zenon DEF TimerInv
  <1>7. Elapsed \in Int /\ Elapsed' = Elapsed + d /\ Elapsed' \in Int
    BY <1>3, <1>4 DEF Elapsed
  <1>8. CASE ObserverHalts
    <2>1. /\ cpu = Observer /\ pc = "body" /\ (BothWait \/ BothExited)
          /\ state[Observer] = "RUNNING" /\ at[Observer] = "halted" /\ Goto("woken")
      BY <1>2, <1>8, WhoHalts, Zenon
    <2>2. at'[Observer] = "woken"
      BY <2>1, <1>5, FlowSlots, Zenon DEF Goto
    <2>3. TimerInv'
      <3>1. /\ task_flow_tick_start <= tick_count' /\ task_flow_irq_start <= irq0_count'
            /\ task_flow_tick_start <= task_flow_irq_start
        BY <2>1, <1>3, <1>6
      <3> QED  BY <3>1, <2>2, <1>3, <1>4, Zenon DEF TimerInv
    <2>4. ToCome = 1 /\ ToCome' = 1
      BY <2>1, <2>2, <1>4, Zenon DEF ToCome
    <2>5. /\ Woken = Least(Elapsed + 1, PIT_TEST_TICKS)
          /\ Woken' = Least(Elapsed + d, PIT_TEST_TICKS)
      BY <2>1, <2>2, <1>7, Zenon DEF Woken, Counted, Least
    <2>6. ToCome' + Woken + keys <= ToCome + Woken' + keys'
      <3>1. keys \in Int
        BY <1>3
      <3> QED  BY <3>1, <2>4, <2>5, <1>3, <1>7, LastTick, Zenon
    <2>7. at[Observer] # "exited"
      BY <2>1, Zenon
    <2> QED  BY <2>1, <2>3, <2>6, <2>7, <1>1, <1>2, <1>4, ObserverStays, Zenon
  <1>9. CASE ~ ObserverHalts
    <2>1. at' = at /\ entry' = entry /\ d = 1
      BY <1>2, <1>9, WhoHalts, ZenonT(40)
    <2>2. TimerInv'
      BY <2>1, <1>3, <1>4, <1>6, <1>7 DEF TimerInv
    <2>3. TurnInv' /\ FinishedInv' /\ TablesInv'
      <3>1. cpu' = cpu /\ pc' = pc /\ RunInv
        BY <1>1, <1>4, Zenon
      <3>2. TurnInv /\ FinishedInv /\ TablesInv
        BY <3>1, Zenon DEF RunInv
      <3>3. /\ (TurnInv /\ cpu' = cpu /\ pc' = pc => TurnInv')
            /\ (FinishedInv => FinishedInv') /\ (TablesInv => TablesInv')
        BY <2>1, <1>4, TurnsFrozen, Zenon
      <3> QED  BY <3>1, <3>2, <3>3, Zenon
    <2>4. Woken \in Int /\ Woken' \in Int /\ Woken <= Woken'
      BY <2>1, <1>3, <1>7 DEF Woken, Counted
    <2>5. /\ ToCome' = ToCome /\ Turns(SentCount, Producer)' = Turns(SentCount, Producer)
          /\ Turns(ReceivedCount, Consumer)' = Turns(ReceivedCount, Consumer)
      BY <2>1, <1>4, Zenon DEF ToCome, Turns, SentCount, ReceivedCount
    <2>6. /\ ToCome \in Int /\ slices \in Int /\ Turns(SentCount, Producer) \in Int
          /\ Turns(ReceivedCount, Consumer) \in Int /\ keys' = keys
      <3>1. slices \in Nat
        BY Zenon DEF WholeInv, SchedInv
      <3> QED
        BY <3>1, <2>1, <1>3, <1>5, FlowAssumption
        DEF ToCome, Turns, SentCount, ReceivedCount
    <2>7. slices' + ToCome' <= Turns(SentCount, Producer)' + Turns(ReceivedCount, Consumer)'
                                 + 1 + Woken' + keys'
      <3>1. slices + ToCome <= Turns(SentCount, Producer) + Turns(ReceivedCount, Consumer)
                                 + 1 + Woken + keys
        BY <1>1, Zenon DEF DispatchInv
      <3>3. keys \in Int /\ keys' \in Int
        BY <1>3, FlowAssumption
      <3>a. \A o, w, v, k \in Int : w <= v => o + w + k <= o + v + k
        OBVIOUS
      <3>2. ToCome + Woken + keys <= ToCome + Woken' + keys'
        BY <3>3, <3>a, <2>4, <2>6, Zenon
      <3>4. slices + ToCome <= Turns(SentCount, Producer) + Turns(ReceivedCount, Consumer)
                                 + 1 + Woken' + keys'
        BY <3>1, <3>2, <3>3, <2>4, <2>6, Exchange, Zenon
      <3> QED  BY <3>4, <2>5, <1>4, Zenon
    <2>8. DispatchInv'
      BY <2>7, <1>1, <1>4, Zenon DEF DispatchInv
    <2>9. RunInv'
      BY <2>2, <2>3, <2>8, Zenon DEF RunInv
    <2>10. cpu' # Boot \/ pc' = "run"
      BY <1>4, Zenon DEF WholeInv, FlowInv
    <2> QED  BY <2>1, <2>9, <2>10, <1>2, <1>4, <1>5, RunsOn, Zenon
  <1> QED  BY <1>8, <1>9, Zenon

(* What holds of the bootstrap before task_run, whatever becomes of its    *)
(* place, its start values and the timer.                                  *)
LEMMA BootGoesOn ==
  ASSUME WholeInv, BootInv, boot_at' = "sti" <=> boot_at = "sti",
         \A t \in Tasks : IsCreated(t)' <=> IsCreated(t),
         boot_at' \in {"sti", "wait_ticks", "wait_irqs", "hlt", "halted", "reset", "create_producer",
                       "create_consumer", "create_observer", "run"},
         boot_at' = boot_at \/ boot_at' \in {"wait_ticks", "wait_irqs", "hlt", "halted", "reset"},
         tick_count' \in Nat, irq0_count' = tick_count', keys' \in 0 .. MaxKeys,
         UNCHANGED <<vars, ipcVars, bodyVars, flowVars>>
  PROVE  FlowInv'
  <1>1. /\ UNCHANGED <<cpu, pc, state, scheduler_initialized, switch_count,
                       round_robin_cursor, endpoints, entry, at, sequence>>
        /\ UNCHANGED <<task_flow_tick_start, task_flow_irq_start, finished, producer_task_id,
                       produced_messages, consumed_messages, task_flow_failed>>
    BY Zenon DEF vars, schedVars, cpuVars, ipcVars, bodyVars, flowVars
  <1>2. /\ Counts(0, 0, 0, 0)'
        /\ IF boot_at' = "sti" THEN \A e \in Endpoints : endpoints'[e] = Fresh ELSE RingEmpty'
    BY <1>1, Zenon
    DEF BootInv, RingEmpty, RingOpen, Ring, Counts, SentCount, ReceivedCount
  <1>3. Producer \in Tasks /\ Consumer \in Tasks /\ Observer \in Tasks
    BY FlowSlots, Zenon
  <1>4. boot_at' \in {"create_producer", "create_consumer", "create_observer", "run"} =>
          boot_at' = boot_at
    BY Zenon
  <1>5. BootInv'
    BY <1>1, <1>2, <1>3, <1>4, Zenon DEF BootInv, StartsAs
  <1> QED  BY <1>1, <1>5, Zenon DEF WholeInv, FlowInv

(* An interrupt taken by the bootstrap context. *)
LEMMA BootInterrupted ==
  ASSUME WholeInv, boot_at # "running", boot_at # "check",
         NEW d \in {0, 1}, Wake,
         tick_count' = tick_count + d, irq0_count' = irq0_count + d,
         keys' = keys + 1 - d, keys' <= MaxKeys,
         UNCHANGED <<vars, ipcVars, sequence, flowVars>>
  PROVE  FlowInv'
  <1>1. BootInv /\ boot_at \in {"sti", "wait_ticks", "wait_irqs", "hlt", "halted", "reset",
                                "create_producer", "create_consumer", "create_observer", "run"}
    BY Zenon DEF WholeInv, FlowInv
  <1>2. ~ ObserverHalts
    BY <1>1, FlowSlots, Zenon DEF BootInv, ObserverHalts, InBody
  <1>3. /\ boot_at' = IF boot_at = "halted" THEN "wait_ticks" ELSE boot_at
        /\ UNCHANGED bodyVars
    BY <1>2, Zenon DEF Wake, bodyVars
  <1>4. /\ \A t \in Tasks : IsCreated(t)' <=> IsCreated(t)
        /\ boot_at' = "sti" <=> boot_at = "sti"
        /\ (boot_at' = boot_at \/ boot_at' = "wait_ticks")
    BY <1>1, <1>3, ZenonT(40) DEF IsCreated
  <1>5. tick_count' \in Nat /\ irq0_count' = tick_count' /\ keys' \in 0 .. MaxKeys
    BY <1>1, FlowAssumption DEF BootInv
  <1> QED  BY <1>1, <1>3, <1>4, <1>5, BootGoesOn, Zenon

(* Neither interrupt disturbs the flow. *)
LEMMA Interrupted == ASSUME WholeInv, irq0 \/ irq1 PROVE WholeInv'
  <1>1. /\ UNCHANGED <<vars, ipcVars, sequence, flowVars>> /\ Wake
        /\ keys \in 0 .. MaxKeys
    BY Zenon DEF irq0, irq1, WholeInv, FlowInv, BootInv, RunInv, TimerInv
  <1>2. PICK d \in {0, 1} :
          /\ tick_count' = tick_count + d /\ irq0_count' = irq0_count + d
          /\ keys' = keys + 1 - d /\ keys' <= MaxKeys /\ (d = 0 => Halting)
    <2>1. CASE irq0
      <3>1. tick_count' = tick_count + 1 /\ irq0_count' = irq0_count + 1 /\ keys' = keys
        BY <2>1, Zenon DEF irq0
      <3>2. keys' = keys + 1 - 1 /\ keys' <= MaxKeys
        BY <3>1, <1>1, FlowAssumption
      <3> WITNESS 1 \in {0, 1}
      <3> QED  BY <3>1, <3>2
    <2>2. CASE irq1
      <3>1. /\ tick_count' = tick_count /\ irq0_count' = irq0_count
            /\ keys' = keys + 1 /\ keys < MaxKeys /\ Halting
        BY <2>2, Zenon DEF irq1
      <3>2. tick_count \in Nat /\ irq0_count = tick_count
        BY Zenon DEF WholeInv, FlowInv, BootInv, RunInv, TimerInv
      <3>3. /\ tick_count' = tick_count + 0 /\ irq0_count' = irq0_count + 0
            /\ keys' = keys + 1 - 0 /\ keys' <= MaxKeys
        BY <3>1, <3>2, <1>1, FlowAssumption
      <3> WITNESS 0 \in {0, 1}
      <3> QED  BY <3>1, <3>3, Zenon
    <2> QED  BY <2>1, <2>2, Zenon
  <1>3. FlowInv'
    <2>1. CASE boot_at = "running"
      <3>1. d = 0 => ObserverHalts
        BY <2>1, <1>2, Zenon DEF Halting
      <3> QED  BY <3>1, <2>1, <1>1, <1>2, TaskInterrupted, Zenon
    <2>2. CASE boot_at # "running" /\ boot_at # "check"
      BY <2>2, <1>1, <1>2, BootInterrupted, Zenon
    <2>3. boot_at # "check"
      <3>1. boot_at = "check" => cpu = Boot
        BY Zenon DEF WholeInv, FlowInv
      <3>2. Halting => boot_at # "check"
        BY <3>1, FlowSlots, Zenon DEF Halting, ObserverHalts, InBody
      <3> QED  BY <3>2, Zenon DEF irq0, irq1
    <2> QED  BY <2>1, <2>2, <2>3, Zenon
  <1> QED  BY <1>1, <1>3, SchedStays, IpcStays, Zenon DEF WholeInv


(* A step of the tasks' side that changes no more than pc, and not to      *)
(* anything but the body.                                                  *)
LEMMA RunFrozen ==
  ASSUME RunInv, cpu' = cpu, pc' = pc \/ pc' = "body",
         UNCHANGED <<state, slices, switch_count, budget, base, ipcVars, interruptVars,
                     bodyVars, flowVars>>
  PROVE  RunInv'
  <1>1. /\ UNCHANGED <<at, entry, sequence, endpoints, producer_task_id, produced_messages,
                       consumed_messages, finished>>
        /\ UNCHANGED <<tick_count, irq0_count, keys, task_flow_tick_start, task_flow_irq_start>>
    BY Zenon DEF ipcVars, interruptVars, bodyVars, flowVars
  <1>2. TurnInv' /\ FinishedInv' /\ TablesInv'
    BY <1>1, TurnsFrozen, Zenon DEF RunInv
  <1>3. TimerInv' /\ DispatchInv'
    BY <1>1, Zenon
    DEF RunInv, TimerInv, DispatchInv, Counted, Elapsed, Turns, ToCome, Woken, SentCount, ReceivedCount
  <1> QED  BY <1>2, <1>3, Zenon DEF RunInv

(* The stuttering steps. *)
LEMMA Stutter == ASSUME WholeInv, UNCHANGED systemVars PROVE WholeInv'
  <1>1. /\ UNCHANGED <<vars, ipcVars, interruptVars, bootVars, bodyVars, flowVars>>
        /\ UNCHANGED <<cpu, pc, ret, state, slices, switch_count, budget, base>>
        /\ UNCHANGED <<boot_at, tick_count, irq0_count, keys, task_flow_failed, entry,
                       at, sequence>>
    BY Zenon
    DEF systemVars, vars, schedVars, cpuVars, history, interruptVars, bootVars, bodyVars, flowVars
  <1>2. SchedInv' /\ IpcTypeOK'
    BY <1>1, SchedStays, IpcStays, Zenon DEF WholeInv
  <1>3. CASE RunInv /\ boot_at \in {"running", "check"}
    <2>1. RunInv'
      BY <1>1, <1>3, RunFrozen, Zenon
    <2> QED  BY <2>1, <1>1, <1>2, <1>3, Zenon DEF WholeInv, FlowInv
  <1>4. CASE BootInv /\ boot_at \in {"sti", "wait_ticks", "wait_irqs", "hlt", "halted", "reset",
                                     "create_producer", "create_consumer",
                                     "create_observer", "run"}
    <2>1. \A t \in Tasks : IsCreated(t)' <=> IsCreated(t)
      BY <1>1, Zenon DEF IsCreated
    <2>2. tick_count' \in Nat /\ irq0_count' = tick_count' /\ keys' \in 0 .. MaxKeys
      BY <1>1, <1>4, Zenon DEF BootInv
    <2>3. FlowInv'
      BY <2>1, <2>2, <1>1, <1>4, BootGoesOn, Zenon
    <2> QED  BY <2>3, <1>2, Zenon DEF WholeInv
  <1> QED  BY <1>3, <1>4, Zenon DEF WholeInv, FlowInv

(* The trampoline of a fresh task enters its body. *)
LEMMA FirstRun == ASSUME WholeInv, first_run PROVE WholeInv'
  <1>1. /\ task_trampoline /\ pc = "trampoline"
        /\ UNCHANGED <<ipcVars, interruptVars, bootVars, bodyVars, flowVars>>
    BY Zenon DEF first_run, task_trampoline
  <1>2. boot_at = "running" /\ RunInv /\ cpu # Boot
    BY <1>1, Zenon DEF WholeInv, FlowInv, BootInv
  <1>3. current_task_id = cpu /\ state[cpu] = "RUNNING" /\ cpu \in Tasks
    BY <1>2, Zenon DEF WholeInv, SchedInv, Contexts
  <1>4. /\ pc' = "body" /\ UNCHANGED <<stack, cpu, IF_flag>>
        /\ UNCHANGED <<schedVars, history>>
    BY <1>1, <1>3, Zenon DEF task_trampoline
  <1>5. SchedInv'
    BY <1>4, Zenon DEF WholeInv, SchedInv, schedVars, history, Gone
  <1>6. RunInv'
    BY <1>1, <1>2, <1>4, RunFrozen, Zenon DEF schedVars, history
  <1>7. FlowInv'
    <2>1. /\ boot_at' = boot_at /\ entry' = entry /\ at' = at /\ sequence' = sequence
          /\ task_flow_failed' = task_flow_failed /\ cpu' # Boot
      BY <1>1, <1>2, <1>4, Zenon DEF bootVars, bodyVars, flowVars
    <2>2. /\ at \in [Tasks -> Positions]
          /\ sequence \in [{"producer", "consumer"} -> 0 .. TASK_FLOW_MESSAGES]
      BY Zenon DEF WholeInv, FlowInv
    <2> QED  BY <2>1, <2>2, <1>2, <1>6, RunsOn, Zenon
  <1> QED  BY <1>1, <1>5, <1>7, IpcStays, Zenon DEF WholeInv

(* task_run returns true: nobody is left to run. *)
LEMMA BootChecks == ASSUME WholeInv, boot_check PROVE WholeInv'
  <1>1. /\ boot_at = "running" /\ cpu = Boot /\ task_run_return /\ boot_at' = "check"
        /\ UNCHANGED <<ipcVars, interruptVars, tick_start, irq_start, bodyVars, flowVars>>
    BY Zenon DEF boot_check
  <1>2. /\ pc' = "body" /\ UNCHANGED <<schedVars, history, stack, cpu, IF_flag>>
        /\ ret' = IF find_next_ready(state, round_robin_cursor) = TASK_INVALID_ID
                  THEN "true" ELSE "false"
    BY <1>1, Zenon DEF task_run_return
  <1>3. RunInv /\ BothExited /\ Exited(Observer)
    BY <1>1, FlowSlots, Zenon DEF WholeInv, FlowInv, RunInv, TurnInv
  <1>4. /\ \A t \in FlowTasks : state[t] # "READY"
        /\ \A t \in Tasks \ FlowTasks : state[t] # "READY"
    BY <1>3, Zenon DEF BothExited, Exited, FlowTasks, RunInv, TablesInv
  <1>5. ret' = "true"
    BY <1>2, <1>4, NextTurn, Zenon DEF WholeInv, SchedInv
  <1>6. SchedInv'
    BY <1>2, Zenon DEF WholeInv, SchedInv, schedVars, history, Gone
  <1>7. RunInv'
    BY <1>1, <1>2, <1>3, RunFrozen, Zenon DEF schedVars, history
  <1>8. FlowInv'
    <2>1. /\ entry' = entry /\ at' = at /\ sequence' = sequence
          /\ task_flow_failed' = task_flow_failed /\ cpu' = Boot
      BY <1>1, <1>2, Zenon DEF bodyVars, flowVars
    <2> QED  BY <2>1, <1>1, <1>2, <1>5, <1>7, Zenon DEF WholeInv, FlowInv
  <1> QED  BY <1>1, <1>6, <1>8, IpcStays, Zenon DEF WholeInv

-----------------------------------------------------------------------------
(* The endpoint of the flow is the first of the table. *)
LEMMA BootSti == ASSUME WholeInv, boot_sti PROVE WholeInv'
  <1>1. /\ boot_at = "sti" /\ set_interrupt_flag(TRUE) /\ ipc_endpoint_create
        /\ boot_at' = "wait_ticks" /\ UNCHANGED <<interruptVars, bodyVars, flowVars>>
    BY Zenon DEF boot_sti
  <1>2. BootInv /\ \A e \in Endpoints : endpoints[e] = Fresh
    BY <1>1, Zenon DEF WholeInv, FlowInv, BootInv
  <1>3. /\ UNCHANGED <<state, stack, slices, remaining_dispatches, round_robin_cursor,
                       finished_count, cpu, pc>>
        /\ UNCHANGED <<scheduler_running, scheduler_initialized, current_task_id, budget,
                       switch_count>>
    BY <1>1, Zenon DEF set_interrupt_flag, schedVars
  <1>4. SchedInv'
    <2>1. \A t : Gone(t)' = Gone(t)
      BY <1>3, ZenonT(40) DEF Gone
    <2> QED  BY <2>1, <1>3, Zenon DEF WholeInv, SchedInv
  <1>5. \A e \in Endpoints : ~ endpoints[e].allocated
    BY <1>2 DEF Fresh
  <1>6. 0 \in Endpoints /\ \A e \in Endpoints : 0 <= e /\ (e <= 0 => e = 0)
    BY FlowAssumption, IpcAssumption DEF Endpoints
  <1> DEFINE free == {e \in Endpoints : ~ endpoints[e].allocated}
  <1>7. free = Endpoints
    BY <1>5, Zenon
  <1>8. PICK first \in free :
           /\ \A other \in free : first <= other
           /\ endpoints' = [endpoints EXCEPT
                ![first] = [@ EXCEPT !.allocated = TRUE, !.read_sequence = 0,
                                     !.write_sequence = 0, !.rejected_messages = 0]]
           /\ ok' = TRUE /\ UNCHANGED out
    BY <1>1, <1>6, <1>7, Zenon DEF ipc_endpoint_create
  <1> HIDE DEF free
  <1>9. first = 0
    BY <1>6, <1>7, <1>8, Zenon
  <1>10. /\ endpoints' = [endpoints EXCEPT
              ![first] = [@ EXCEPT !.allocated = TRUE, !.read_sequence = 0,
                                   !.write_sequence = 0, !.rejected_messages = 0]]
         /\ ok' = TRUE /\ out' = out
    BY <1>8, Zenon
  <1>11. endpoints \in [Endpoints -> EndpointType] /\ out \in Message
    BY RingType, Zenon DEF WholeInv
  <1>12. 0 \in 0 .. SeqMod - 1
    BY IpcAssumption
  <1>13. /\ endpoints' \in [Endpoints -> EndpointType] /\ endpoints'[0].allocated
         /\ endpoints'[0].rejected_messages = 0
         /\ endpoints'[0].write_sequence = 0 /\ endpoints'[0].read_sequence = 0
    BY <1>6, <1>9, <1>10, <1>11, <1>12, Zenon DEF EndpointType
  <1>14. RingEmpty' /\ IpcTypeOK'
    BY <1>10, <1>11, <1>13, Zenon
    DEF RingEmpty, RingOpen, Ring, task_flow_endpoint, IpcTypeOK, EndpointType
  <1>15. UNCHANGED <<tick_count, irq0_count, keys, entry, at, sequence, producer_task_id,
                     task_flow_tick_start, task_flow_irq_start, produced_messages,
                     consumed_messages, task_flow_failed, finished>>
    BY <1>1, Zenon DEF interruptVars, bodyVars, flowVars
  <1>16. BootInv'
    BY <1>1, <1>2, <1>3, <1>14, <1>15, Zenon DEF BootInv, Counts, SentCount, ReceivedCount
  <1>17. FlowInv'
    BY <1>1, <1>15, <1>16, Zenon DEF WholeInv, FlowInv
  <1> QED  BY <1>4, <1>14, <1>17, Zenon DEF WholeInv

(* Waiting for the timer creates nothing. *)
LEMMA BootWaits == ASSUME WholeInv, boot_wait \/ boot_hlt PROVE WholeInv'
  <1>1. /\ boot_at \in {"wait_ticks", "wait_irqs", "hlt"}
        /\ boot_at' \in {"hlt", "halted", "wait_irqs", "reset"}
        /\ UNCHANGED <<vars, ipcVars, interruptVars, bodyVars, flowVars>>
    BY Zenon DEF boot_wait, boot_hlt
  <1>2. BootInv
    BY <1>1, Zenon DEF WholeInv, FlowInv
  <1>3. \A t \in Tasks : IsCreated(t)' <=> IsCreated(t)
    BY <1>1, Zenon DEF IsCreated
  <1>4. tick_count' \in Nat /\ irq0_count' = tick_count' /\ keys' \in 0 .. MaxKeys
    BY <1>1, <1>2, Zenon DEF BootInv, interruptVars
  <1>5. /\ boot_at' \in {"wait_ticks", "wait_irqs", "hlt", "halted", "reset"}
        /\ boot_at' \in {"sti", "wait_ticks", "wait_irqs", "hlt", "halted", "reset", "create_producer",
                         "create_consumer", "create_observer", "run"}
        /\ boot_at' = "sti" <=> boot_at = "sti"
    BY <1>1, Zenon
  <1>6. FlowInv'
    BY <1>1, <1>2, <1>3, <1>4, <1>5, BootGoesOn, Zenon
  <1> QED  BY <1>1, <1>6, SchedStays, IpcStays, Zenon DEF WholeInv

(* The reset leaves an initialised scheduler without tasks. *)
LEMMA BootResets == ASSUME WholeInv, boot_reset PROVE WholeInv'
  <1>1. /\ boot_at = "reset" /\ task_system_init /\ cpu = Boot
        /\ produced_messages' = 0 /\ consumed_messages' = 0
        /\ finished' = {} /\ task_flow_failed' = FALSE /\ boot_at' = "create_producer"
        /\ UNCHANGED <<ipcVars, interruptVars, bodyVars, producer_task_id,
                       task_flow_tick_start, task_flow_irq_start>>
    BY Zenon DEF boot_reset
  <1>2. BootInv /\ RingEmpty /\ ~ scheduler_running
    BY <1>1, Zenon DEF WholeInv, FlowInv, SchedInv, BootInv
  <1>3. /\ state' = [t \in Tasks |-> "UNUSED"] /\ stack' = [c \in Contexts |-> NoStack]
        /\ current_task_id' = TASK_INVALID_ID /\ round_robin_cursor' = TASK_INVALID_ID
        /\ remaining_dispatches' = 0 /\ switch_count' = 0 /\ finished_count' = 0
        /\ scheduler_running' = FALSE /\ scheduler_initialized' = TRUE
        /\ slices' = 0 /\ cpu' = cpu /\ pc' = pc
    BY <1>1, <1>2, Zenon DEF task_system_init
  <1>4. /\ state' \in [Tasks -> States] /\ DOMAIN stack' = Contexts
        /\ \A t \in Tasks : state'[t] = "UNUSED"
    BY <1>3, Zenon DEF States
  <1>5. Gone(Producer)' = 0 /\ Gone(Consumer)' = 0 /\ Gone(Observer)' = 0
    BY <1>4, FlowSlots, Zenon DEF Gone
  <1>6. finished_count' = Gone(Producer)' + Gone(Consumer)' + Gone(Observer)'
    BY <1>3, <1>5
  <1>7. slices' \in Nat /\ remaining_dispatches' \in Nat
    BY <1>3, Zenon
  <1>8. SchedInv'
    BY <1>1, <1>3, <1>4, <1>6, <1>7, FlowSlots, Zenon DEF SchedInv
  <1>9. UNCHANGED <<tick_count, irq0_count, keys, entry, at, sequence, endpoints>>
    BY <1>1, Zenon DEF ipcVars, interruptVars, bodyVars
  <1>10. \A t \in Tasks : ~ IsCreated(t)'
    BY <1>1, Zenon DEF IsCreated
  <1>11. BootInv'
    <2>1. RingEmpty' /\ Counts(0, 0, 0, 0)'
      BY <1>1, <1>2, <1>9, Zenon
      DEF RingEmpty, RingOpen, Ring, BootInv, Counts, SentCount, ReceivedCount
    <2> QED
      BY <2>1, <1>1, <1>2, <1>3, <1>4, <1>9, <1>10, FlowSlots, Zenon DEF BootInv
  <1>12. FlowInv'
    BY <1>1, <1>9, <1>11, Zenon DEF WholeInv, FlowInv
  <1> QED  BY <1>1, <1>8, <1>12, IpcStays, Zenon DEF WholeInv

(* task_create takes the slot `id' when all lower ones are taken. *)
LEMMA CreateEffect ==
  ASSUME SchedInv, cpu = Boot, scheduler_initialized, task_create(FALSE),
         NEW id \in Tasks, state[id] = "UNUSED",
         \A t \in Tasks : t < id => state[t] # "UNUSED"
  PROVE  /\ state' = [state EXCEPT ![id] = "READY"] /\ Created = id
         /\ state' \in [Tasks -> States]
         /\ UNCHANGED <<cpu, pc, switch_count, round_robin_cursor, scheduler_initialized>>
         /\ SchedInv'
  <1> DEFINE first == CHOOSE t \in FreeSlots : \A u \in FreeSlots : t <= u
  <1>1. /\ state \in [Tasks -> States] /\ DOMAIN stack = Contexts /\ ~ scheduler_running
        /\ finished_count = Gone(Producer) + Gone(Consumer) + Gone(Observer)
    BY Zenon DEF SchedInv
  <1>2. Tasks \subseteq Int
    BY TaskAssumption DEF Tasks, N
  <1>3. id \in FreeSlots /\ FreeSlots \subseteq Tasks
    BY Zenon DEF FreeSlots
  <1>4. \A u \in FreeSlots : id <= u
    BY <1>2, <1>3 DEF FreeSlots
  <1>5. first \in FreeSlots /\ \A u \in FreeSlots : first <= u
    BY <1>3, <1>4, Zenon
  <1>6. first <= id /\ id <= first
    BY <1>3, <1>4, <1>5, Zenon
  <1>7. /\ state' = [state EXCEPT ![first] = "READY"]
        /\ stack' = [stack EXCEPT ![first] =
                       [at |-> "trampoline", flag |-> initial_task_eflags]]
        /\ UNCHANGED <<current_task_id, round_robin_cursor, remaining_dispatches, switch_count,
                       finished_count, scheduler_initialized, scheduler_running, cpu, pc,
                       budget, slices>>
    BY <1>1, <1>3, Zenon DEF task_create
  <1> HIDE DEF first
  <1>8. first = id
    BY <1>2, <1>3, <1>5, <1>6, SMTT(30)
  <1>9. /\ state' = [state EXCEPT ![id] = "READY"] /\ state' \in [Tasks -> States]
        /\ state'[id] = "READY" /\ \A t \in Tasks : t # id => state'[t] = state[t]
    BY <1>1, <1>7, <1>8, Zenon DEF States
  <1>10. Created = id
    BY <1>9, Zenon DEF Created
  <1>11. DOMAIN stack' = Contexts
    BY <1>1, <1>7, Zenon
  <1>12. Gone(Producer)' = Gone(Producer) /\ Gone(Consumer)' = Gone(Consumer)
         /\ Gone(Observer)' = Gone(Observer)
    BY <1>9, FlowSlots, Zenon DEF Gone
  <1>13. SchedInv'
    BY <1>7, <1>9, <1>11, <1>12, Zenon DEF SchedInv
  <1> QED  BY <1>7, <1>9, <1>10, <1>13, Zenon

(* The three tasks get the slots 0, 1 and 2, in this order. *)
LEMMA BootCreates ==
  ASSUME WholeInv, NEW body \in Bodies, NEW here, NEW next, NEW start,
         NEW id \in FlowTasks, boot_create(body, here, next, start),
         \/ /\ body = "producer" /\ here = "create_producer" /\ next = "create_consumer"
            /\ start = "send" /\ id = Producer
         \/ /\ body = "consumer" /\ here = "create_consumer" /\ next = "create_observer"
            /\ start = "receive" /\ id = Consumer
         \/ /\ body = "observer" /\ here = "create_observer" /\ next = "run"
            /\ start = "read_ticks" /\ id = Observer
  PROVE  WholeInv'
  <1>1. /\ boot_at = here /\ cpu = Boot /\ task_create(FALSE)
        /\ entry' = [entry EXCEPT ![Created] = body]
        /\ at' = [at EXCEPT ![Created] = start]
        /\ producer_task_id' = IF body = "producer" THEN Created ELSE producer_task_id
        /\ boot_at' = next
        /\ UNCHANGED <<ipcVars, interruptVars, sequence, task_flow_tick_start,
                       task_flow_irq_start, produced_messages, consumed_messages,
                       task_flow_failed, finished>>
    BY Zenon DEF boot_create
  <1>2. /\ BootInv /\ id \in Tasks /\ SchedInv
        /\ entry \in [Tasks -> Bodies \cup {"none"}] /\ at \in [Tasks -> Positions]
    BY <1>1, FlowSlots, Zenon DEF WholeInv, FlowInv, FlowTasks
  <1>3. /\ scheduler_initialized /\ switch_count = 0
        /\ round_robin_cursor = TASK_INVALID_ID /\ RingEmpty
        /\ \A t \in Tasks : ~ IsCreated(t) => state[t] = "UNUSED"
        /\ IsCreated(Producer) =>
             StartsAs(Producer, "producer", "send") /\ producer_task_id = Producer
        /\ IsCreated(Consumer) => StartsAs(Consumer, "consumer", "receive")
        /\ IsCreated(Observer) => StartsAs(Observer, "observer", "read_ticks")
    BY <1>1, <1>2, Zenon DEF BootInv
  <1>4. /\ ~ IsCreated(id)
        /\ id = Consumer \/ id = Observer => IsCreated(Producer)
        /\ id = Observer => IsCreated(Consumer)
    BY <1>1, FlowSlots, Zenon DEF IsCreated
  <1>5. state[id] = "UNUSED" /\ \A t \in Tasks : t < id => state[t] # "UNUSED"
    <2>1. state[id] = "UNUSED"
      BY <1>2, <1>3, <1>4, Zenon
    <2>2. \A t \in Tasks : t < id => \/ t = Producer /\ id \in {Consumer, Observer}
                                     \/ t = Consumer /\ id = Observer
      BY TaskAssumption DEF Tasks, N, FlowTasks, Producer, Consumer, Observer
    <2> QED  BY <2>1, <2>2, <1>3, <1>4, Zenon DEF StartsAs
  <1>6. /\ state' = [state EXCEPT ![id] = "READY"] /\ Created = id
        /\ UNCHANGED <<cpu, pc, switch_count, round_robin_cursor, scheduler_initialized>>
        /\ SchedInv'
    BY <1>1, <1>2, <1>3, <1>5, CreateEffect, Zenon
  <1>7. state \in [Tasks -> States] /\ start \in Positions
    BY <1>2, ZenonT(40) DEF SchedInv, Positions
  <1>8. /\ state'[id] = "READY" /\ entry'[id] = body /\ at'[id] = start
        /\ \A t \in Tasks : t # id => /\ state'[t] = state[t] /\ entry'[t] = entry[t]
                                      /\ at'[t] = at[t]
        /\ entry' \in [Tasks -> Bodies \cup {"none"}] /\ at' \in [Tasks -> Positions]
    BY <1>1, <1>2, <1>6, <1>7, Zenon
  <1>9. \A t \in Tasks : IsCreated(t)' <=> IsCreated(t) \/ t = id
    <2>1. \/ boot_at = "create_producer" /\ boot_at' = "create_consumer" /\ id = Producer
          \/ boot_at = "create_consumer" /\ boot_at' = "create_observer" /\ id = Consumer
          \/ boot_at = "create_observer" /\ boot_at' = "run" /\ id = Observer
      BY <1>1, Zenon
    <2>2. CASE boot_at = "create_producer" /\ boot_at' = "create_consumer" /\ id = Producer
      BY <2>2, Zenon DEF IsCreated
    <2>3. CASE boot_at = "create_consumer" /\ boot_at' = "create_observer" /\ id = Consumer
      BY <2>3, Zenon DEF IsCreated
    <2>4. CASE boot_at = "create_observer" /\ boot_at' = "run" /\ id = Observer
      BY <2>4, Zenon DEF IsCreated
    <2> QED  BY <2>1, <2>2, <2>3, <2>4, Zenon
  <1>10. /\ \A t \in Tasks : ~ IsCreated(t)' => state'[t] = "UNUSED"
         /\ IsCreated(Producer)' =>
              StartsAs(Producer, "producer", "send")' /\ producer_task_id' = Producer
         /\ IsCreated(Consumer)' => StartsAs(Consumer, "consumer", "receive")'
         /\ IsCreated(Observer)' => StartsAs(Observer, "observer", "read_ticks")'
    <2>1. \A t \in Tasks : ~ IsCreated(t)' => state'[t] = "UNUSED"
      BY <1>3, <1>8, <1>9, Zenon
    <2>2. IsCreated(Producer)' =>
            StartsAs(Producer, "producer", "send")' /\ producer_task_id' = Producer
      BY <1>1, <1>3, <1>6, <1>8, <1>9, FlowSlots, Zenon DEF StartsAs
    <2>3. IsCreated(Consumer)' => StartsAs(Consumer, "consumer", "receive")'
      BY <1>3, <1>8, <1>9, FlowSlots, Zenon DEF StartsAs
    <2>4. IsCreated(Observer)' => StartsAs(Observer, "observer", "read_ticks")'
      BY <1>3, <1>8, <1>9, FlowSlots, Zenon DEF StartsAs
    <2> QED  BY <2>1, <2>2, <2>3, <2>4, Zenon
  <1>11. UNCHANGED <<tick_count, irq0_count, keys, endpoints>>
    BY <1>1, Zenon DEF ipcVars, interruptVars
  <1>12. RingEmpty' /\ Counts(0, 0, 0, 0)'
    BY <1>1, <1>2, <1>3, <1>11, Zenon
    DEF RingEmpty, RingOpen, Ring, BootInv, Counts, SentCount, ReceivedCount
  <1>13. boot_at' \in {"create_consumer", "create_observer", "run"}
    BY <1>1, Zenon
  <1>14. BootInv'
    BY <1>1, <1>2, <1>3, <1>6, <1>10, <1>11, <1>12, <1>13, Zenon DEF BootInv
  <1>15. FlowInv'
    BY <1>1, <1>8, <1>13, <1>14, Zenon DEF WholeInv, FlowInv
  <1> QED  BY <1>1, <1>6, <1>15, IpcStays, Zenon DEF WholeInv

(* task_run dispatches the producer first. *)
LEMMA BootRuns == ASSUME WholeInv, boot_run PROVE WholeInv'
  <1>1. /\ boot_at = "run" /\ cpu = Boot /\ task_run(TASK_FLOW_BUDGET)
        /\ boot_at' = "running"
        /\ UNCHANGED <<ipcVars, interruptVars, bodyVars, flowVars>>
    BY Zenon DEF boot_run
  <1>2. BootInv /\ SchedInv /\ ~ scheduler_running
    BY <1>1, Zenon DEF WholeInv, FlowInv, SchedInv
  <1>3. IsCreated(Producer) /\ IsCreated(Consumer) /\ IsCreated(Observer)
        /\ \A t \in Tasks \ FlowTasks : ~ IsCreated(t)
    BY <1>1, Zenon DEF IsCreated, FlowTasks
  <1>4. /\ scheduler_initialized /\ switch_count = 0 /\ RingEmpty
        /\ round_robin_cursor = TASK_INVALID_ID /\ producer_task_id = Producer
        /\ \A t \in Tasks \ FlowTasks : state[t] = "UNUSED"
        /\ state[Producer] = "READY" /\ entry[Producer] = "producer" /\ at[Producer] = "send"
        /\ state[Consumer] = "READY" /\ entry[Consumer] = "consumer" /\ at[Consumer] = "receive"
        /\ state[Observer] = "READY" /\ entry[Observer] = "observer"
        /\ at[Observer] = "read_ticks"
    BY <1>1, <1>2, <1>3, Zenon DEF BootInv, StartsAs
  <1>5. find_next_ready(state, round_robin_cursor) = Producer
    BY <1>4, NextTurn, Zenon
  <1>6. TASK_FLOW_BUDGET \in Nat /\ TASK_FLOW_BUDGET # 0 /\ CounterMod \in Nat /\ CounterMod > 1
    BY FlowAssumption, TaskAssumption
  <1>7. /\ Producer # TASK_INVALID_ID /\ CanActivate(state, Producer, TASK_FLOW_BUDGET)
    BY <1>4, <1>6, FlowSlots, Zenon DEF CanActivate
  <1>8. /\ scheduler_running' = TRUE /\ activate_task(state, Producer, TASK_FLOW_BUDGET)
        /\ task_context_switch(Boot, "run", IF_flag, Producer)
        /\ budget' = TASK_FLOW_BUDGET /\ base' = switch_count /\ slices' = 1
        /\ UNCHANGED <<finished_count, scheduler_initialized>>
    BY <1>1, <1>2, <1>4, <1>5, <1>6, <1>7, Zenon DEF task_run
  <1>9. /\ state' = [state EXCEPT ![Producer] = "RUNNING"] /\ cpu' = Producer
        /\ current_task_id' = Producer /\ round_robin_cursor' = Producer
        /\ remaining_dispatches' = TASK_FLOW_BUDGET - 1
        /\ switch_count' = (switch_count + 1) % CounterMod
    BY <1>8, Zenon DEF activate_task, task_context_switch
  <1>10. state \in [Tasks -> States] /\ DOMAIN stack = Contexts
         /\ finished_count = Gone(Producer) + Gone(Consumer) + Gone(Observer)
    BY <1>2, ZenonT(40) DEF SchedInv
  <1>11. /\ state' \in [Tasks -> States] /\ state'[Producer] = "RUNNING"
         /\ state'[Consumer] = "READY" /\ state'[Observer] = "READY"
         /\ \A t \in Tasks \ FlowTasks : state'[t] = "UNUSED"
    BY <1>4, <1>9, <1>10, FlowSlots, Zenon DEF FlowTasks, States
  <1>12. SchedInv'
    <2>1. DOMAIN stack' = Contexts /\ stack'[Boot].at = "run"
      BY <1>8, <1>10, FlowSlots, Zenon DEF task_context_switch
    <2>2. /\ Gone(Producer)' = Gone(Producer) /\ Gone(Consumer)' = Gone(Consumer)
          /\ Gone(Observer)' = Gone(Observer)
      BY <1>4, <1>11, Zenon DEF Gone
    <2>3. /\ slices' \in Nat /\ remaining_dispatches' \in Nat
          /\ slices' + remaining_dispatches' = budget'
      BY <1>6, <1>8, <1>9
    <2> QED
      BY <2>1, <2>2, <2>3, <1>4, <1>8, <1>9, <1>10, <1>11, FlowSlots, ZenonT(40)
      DEF SchedInv
  <1>13. UNCHANGED <<tick_count, irq0_count, keys, entry, at, sequence, endpoints,
                     producer_task_id, task_flow_tick_start, task_flow_irq_start,
                     produced_messages, consumed_messages, task_flow_failed, finished>>
    BY <1>1, Zenon DEF ipcVars, interruptVars, bodyVars, flowVars
  <1>14. TurnInv'
    <2>1. 0 \in 0 .. TASK_FLOW_MESSAGES /\ After(0, "send") = "send"
          /\ After(0, "receive") = "receive"
      BY FlowAssumption DEF After
    <2>2. Balanced(0)'
      BY <1>2, <1>4, <1>13, Zenon
      DEF Balanced, BootInv, Counts, SentCount, ReceivedCount, RingEmpty, RingOpen, Ring
    <2>3. ProducerRuns'
      BY <2>1, <2>2, <1>4, <1>11, <1>13, Zenon DEF ProducerRuns, Suspended
    <2>4. ObserverWaits'
      BY <1>4, <1>11, <1>13, Zenon DEF ObserverWaits
    <2> QED  BY <2>3, <2>4, <1>9, Zenon DEF TurnInv
  <1>15. TablesInv' /\ FinishedInv'
    <2>1. finished' = {} /\ {} \subseteq Bodies
      BY <1>2, <1>13, Zenon DEF BootInv
    <2> QED  BY <2>1, <1>4, <1>11, <1>13, Zenon DEF TablesInv, FinishedInv, FlowTasks
  <1>16. TimerInv'
    <2>1. /\ tick_count \in Nat /\ irq0_count = tick_count /\ keys \in 0 .. MaxKeys
          /\ task_flow_tick_start = 0 /\ task_flow_irq_start = 0
      BY <1>2, Zenon DEF BootInv
    <2>2. 0 \in Nat
      BY Zenon
    <2> QED  BY <2>1, <2>2, <1>4, <1>13, Zenon DEF TimerInv
  <1>17. DispatchInv'
    <2>1. /\ Turns(SentCount, Producer)' = 1 /\ Turns(ReceivedCount, Consumer)' = 0
          /\ ToCome' = 1 /\ Woken' = 0
      <3>1. SentCount' = 0 /\ ReceivedCount' = 0
        BY <1>2, <1>13, Zenon DEF BootInv, Counts, SentCount, ReceivedCount
      <3> QED  BY <3>1, <1>4, <1>11, <1>13 DEF Turns, ToCome, Woken
    <2>2. switch_count' = 1 /\ base' = 0
      <3>1. switch_count' = (0 + 1) % CounterMod /\ base' = 0
        BY <1>4, <1>8, <1>9, Zenon
      <3>2. (0 + 1) % CounterMod = 1
        BY <1>6, SMTT(30)
      <3> QED  BY <3>1, <3>2, Zenon
    <2>3. keys' \in Nat
      BY <1>2, <1>13, FlowAssumption DEF BootInv
    <2>4. \A k \in Nat : 1 + 1 <= 1 + 0 + 1 + 0 + k
      OBVIOUS
    <2> QED  BY <2>1, <2>2, <2>3, <2>4, <1>8, ZenonT(40) DEF DispatchInv
  <1>18. RunInv' /\ cpu' # Boot
    BY <1>9, <1>14, <1>15, <1>16, <1>17, FlowSlots, Zenon DEF RunInv
  <1>19. FlowInv'
    BY <1>1, <1>13, <1>18, Zenon DEF WholeInv, FlowInv
  <1> QED  BY <1>1, <1>12, <1>19, IpcStays, Zenon DEF WholeInv

-----------------------------------------------------------------------------
(* The initial states satisfy the invariant. *)
LEMMA FlowStarts == FlowInit => WholeInv
  <1> SUFFICES ASSUME FlowInit PROVE WholeInv
    BY Zenon
  <1>1. /\ Init /\ IpcInit /\ tick_count = 0 /\ irq0_count = 0 /\ keys = 0
        /\ boot_at = "sti" /\ entry = [t \in Tasks |-> "none"]
        /\ at = [t \in Tasks |-> "none"]
        /\ sequence = [b \in {"producer", "consumer"} |-> 0]
        /\ task_flow_tick_start = 0 /\ task_flow_irq_start = 0
        /\ produced_messages = 0 /\ consumed_messages = 0
        /\ task_flow_failed = FALSE /\ finished = {}
    BY Zenon DEF FlowInit
  <1>2. SchedInv
    <2>1. /\ state = [t \in Tasks |-> "UNUSED"] /\ stack = [c \in Contexts |-> NoStack]
          /\ current_task_id = TASK_INVALID_ID /\ round_robin_cursor = TASK_INVALID_ID
          /\ remaining_dispatches = 0 /\ finished_count = 0 /\ slices = 0
          /\ scheduler_running = FALSE /\ cpu = Boot
      BY <1>1, Zenon DEF Init
    <2>2. /\ state \in [Tasks -> States] /\ DOMAIN stack = Contexts
          /\ slices \in Nat /\ remaining_dispatches \in Nat
      BY <2>1, Zenon DEF States
    <2>3. finished_count = Gone(Producer) + Gone(Consumer) + Gone(Observer)
      BY <2>1, FlowSlots DEF Gone
    <2> QED  BY <2>1, <2>2, <2>3, FlowSlots, Zenon DEF SchedInv
  <1>3. IpcTypeOK /\ \A e \in Endpoints : endpoints[e] = Fresh
    <2>1. endpoints = [e \in Endpoints |-> Fresh] /\ out = Cleared /\ ok = TRUE
      BY <1>1, Zenon DEF IpcInit
    <2>2. (CHOOSE s \in Senders : TRUE) \in Senders
      BY IpcAssumption, Zenon
    <2>3. [i \in Indices |-> 0] \in Payloads /\ 0 \in 0 .. IPC_PAYLOAD_MAX
          /\ 0 \in 0 .. SeqMod - 1
      BY IpcAssumption, SMTT(30) DEF Payloads
    <2>4. Cleared \in Message
      BY <2>2, <2>3, Zenon DEF Cleared, message_clear, Message, MessagesUpTo
    <2>5. Fresh \in EndpointType
      BY <2>3, <2>4, Zenon DEF Fresh, EndpointType
    <2> QED  BY <2>1, <2>4, <2>5, Zenon DEF IpcTypeOK, EndpointType
  <1>4. BootInv
    <2>1. cpu = Boot /\ pc = "body"
      BY <1>1, Zenon DEF Init
    <2>2. tick_count \in Nat /\ keys \in 0 .. MaxKeys /\ irq0_count = tick_count
      BY <1>1, FlowAssumption
    <2>3. Counts(0, 0, 0, 0)
      BY <1>1, Zenon DEF Counts, SentCount, ReceivedCount
    <2> QED  BY <2>1, <2>2, <2>3, <1>1, <1>3, Zenon DEF BootInv
  <1>5. /\ entry \in [Tasks -> Bodies \cup {"none"}] /\ at \in [Tasks -> Positions]
        /\ sequence \in [{"producer", "consumer"} -> 0 .. TASK_FLOW_MESSAGES]
    BY <1>1, FlowAssumption DEF Positions
  <1> QED  BY <1>1, <1>2, <1>3, <1>4, <1>5, Zenon DEF WholeInv, FlowInv

(* Every step preserves it. *)
LEMMA FlowStep == WholeInv /\ [FlowNext]_systemVars => WholeInv'
  <1> SUFFICES ASSUME WholeInv, [FlowNext]_systemVars PROVE WholeInv'
    BY Zenon
  <1>1. ASSUME run_task_flow PROVE WholeInv'
    <2>1. CASE boot_create("producer", "create_producer", "create_consumer", "send")
      BY <2>1, BootCreates, Zenon DEF Bodies, FlowTasks
    <2>2. CASE boot_create("consumer", "create_consumer", "create_observer", "receive")
      BY <2>2, BootCreates, Zenon DEF Bodies, FlowTasks
    <2>3. CASE boot_create("observer", "create_observer", "run", "read_ticks")
      BY <2>3, BootCreates, Zenon DEF Bodies, FlowTasks
    <2> QED
      BY <1>1, <2>1, <2>2, <2>3, BootSti, BootWaits, BootResets, BootRuns, BootChecks, Zenon
      DEF run_task_flow
  <1>2. ASSUME NEW body \in Bodies, body_finish(body) PROVE WholeInv'
    <2>1. SchedInv' /\ FlowInv'
      BY <1>2, ProducerExits, ConsumerExits, ObserverExits, Zenon DEF Bodies
    <2>2. UNCHANGED ipcVars
      BY <1>2, Zenon DEF body_finish
    <2> QED  BY <2>1, <2>2, IpcStays, Zenon DEF WholeInv
  <1>3. ASSUME \/ exchange_yield("producer", "send") \/ exchange_yield("consumer", "receive")
               \/ observer_yield
        PROVE  WholeInv'
    <2>1. SchedInv' /\ FlowInv'
      BY <1>3, ProducerYields, ConsumerYields, ObserverYields, Zenon
    <2>2. UNCHANGED ipcVars
      BY <1>3, Zenon DEF exchange_yield, observer_yield
    <2> QED  BY <2>1, <2>2, IpcStays, Zenon DEF WholeInv
  <1>4. ASSUME \/ observer_read_ticks \/ observer_read_irqs \/ observer_check
               \/ observer_hlt
        PROVE  WholeInv'
    <2>1. FlowInv'
      BY <1>4, ObserverReads, ObserverHltStep, Zenon
    <2>2. UNCHANGED <<vars, ipcVars>>
      BY <1>4, Zenon
      DEF observer_read_ticks, observer_read_irqs, observer_check, observer_hlt
    <2> QED  BY <2>1, <2>2, SchedStays, IpcStays, Zenon DEF WholeInv
  <1>5. ASSUME task_step PROVE WholeInv'
    BY <1>2, <1>3, <1>4, <1>5, FirstRun, ProducerSends, ConsumerReceives, Zenon
    DEF task_step
  <1>6. ASSUME done PROVE WholeInv'
    BY <1>6, Stutter, Zenon DEF done
  <1> QED  BY <1>1, <1>5, <1>6, Interrupted, Stutter, Zenon DEF FlowNext

(* What the invariant says of the ring and of the conditions. *)
LEMMA InvLockstep == WholeInv => Lockstep
  <1> SUFFICES ASSUME WholeInv PROVE Lockstep
    BY Zenon
  <1> DEFINE p == produced_messages
             c == consumed_messages
  <1>1. IpcTypeOK
    BY Zenon DEF WholeInv
  <1>2. CASE boot_at = "sti"
    <2>1. p = 0 /\ c = 0 /\ endpoints[task_flow_endpoint] = Fresh
      BY <1>1, <1>2, RingType, Zenon DEF WholeInv, FlowInv, BootInv, Counts
    <2>2. ~ endpoint_is_valid(task_flow_endpoint)
      <3>1. Fresh.allocated = FALSE
        BY Zenon DEF Fresh
      <3> QED  BY <3>1, <2>1, Zenon DEF endpoint_is_valid
    <2>3. ipc_pending(task_flow_endpoint) = 0
      BY <2>2, Zenon DEF ipc_pending
    <2> QED  BY <2>1, <2>3 DEF Lockstep
  <1>3. CASE boot_at # "sti"
    <2>1. \E k \in Nat : \/ p = k /\ c = k /\ RingEmpty
                         \/ p = k + 1 /\ c = k + 1 /\ RingEmpty
                         \/ p = k + 1 /\ c = k /\ RingHolds(k)
      <3>1. CASE BootInv
        <4>1. p = 0 /\ c = 0 /\ RingEmpty
          BY <3>1, <1>3, Zenon DEF BootInv, Counts
        <4> QED  BY <4>1, Zenon
      <3>2. CASE RunInv
        <4>1. TurnInv /\ 0 .. TASK_FLOW_MESSAGES \subseteq Nat
              /\ 0 .. TASK_FLOW_MESSAGES - 1 \subseteq Nat /\ TASK_FLOW_MESSAGES \in Nat
          BY <3>2, FlowAssumption DEF RunInv
        <4>2. ProducerRuns \/ ConsumerRuns \/ BothWait \/ BothExited
          BY <4>1, Zenon DEF TurnInv
        <4> QED
          BY <4>1, <4>2, Zenon
          DEF ProducerRuns, ConsumerRuns, BothWait, BothExited, Balanced, Counts
      <3> QED  BY <3>1, <3>2, Zenon DEF WholeInv, FlowInv
    <2>2. RingOpen
      BY <2>1, Zenon DEF RingEmpty, RingHolds
    <2>3. ipc_pending(task_flow_endpoint) = Pending(Ring)
      BY <2>2, <1>1, RingType, Zenon DEF ipc_pending, endpoint_is_valid, RingOpen
    <2>4. PICK k \in Nat : \/ p = k /\ c = k /\ Pending(Ring) = 0
                           \/ p = k + 1 /\ c = k + 1 /\ Pending(Ring) = 0
                           \/ p = k + 1 /\ c = k /\ Pending(Ring) = 1
      BY <2>1, <1>1, PendingCount, Zenon
    <2> QED  BY <2>3, <2>4 DEF Lockstep
  <1> QED  BY <1>2, <1>3, Zenon

LEMMA InvConditions == WholeInv => FlowConditions
  <1> SUFFICES ASSUME WholeInv, boot_at = "check"
               PROVE  /\ ret = "true" /\ ~ task_flow_failed /\ finished = Bodies
                      /\ produced_messages = TASK_FLOW_MESSAGES
                      /\ consumed_messages = TASK_FLOW_MESSAGES
                      /\ ipc_pending(task_flow_endpoint) = 0
                      /\ ipc_rejected_count(task_flow_endpoint) = 0
                      /\ finished_count = 3 /\ current_task_id = TASK_INVALID_ID
                      /\ switch_count <= TASK_FLOW_BUDGET /\ DispatchBound
                      /\ tick_count - task_flow_tick_start >= PIT_TEST_TICKS
                      /\ irq0_count - task_flow_irq_start >= PIT_TEST_TICKS
    BY Zenon DEF FlowConditions
  <1> DEFINE M == TASK_FLOW_MESSAGES
  <1>1. /\ ret = "true" /\ task_flow_failed = FALSE /\ RunInv /\ cpu = Boot
        /\ SchedInv /\ IpcTypeOK /\ current_task_id = TASK_INVALID_ID
    BY Zenon DEF WholeInv, FlowInv, SchedInv
  <1>2. BothExited /\ Exited(Observer)
    BY <1>1, FlowSlots, Zenon DEF RunInv, TurnInv
  <1>3. /\ state[Producer] = "FINISHED" /\ at[Producer] = "exited"
        /\ state[Consumer] = "FINISHED" /\ at[Consumer] = "exited"
        /\ state[Observer] = "FINISHED" /\ at[Observer] = "exited"
        /\ SentCount = M /\ ReceivedCount = M /\ RingEmpty
        /\ produced_messages = M /\ consumed_messages = M
    BY <1>2, Zenon DEF BothExited, Exited, Balanced, Counts
  <1>4. finished = Bodies
    BY <1>1, <1>3, Zenon DEF RunInv, FinishedInv, TablesInv, FlowTasks, Bodies
  <1>5. ipc_pending(task_flow_endpoint) = 0 /\ ipc_rejected_count(task_flow_endpoint) = 0
    BY <1>1, <1>3, RingType, PendingCount, ZenonT(40)
    DEF ipc_pending, ipc_rejected_count, endpoint_is_valid, RingEmpty, RingOpen
  <1>6. finished_count = 3
    BY <1>1, <1>3 DEF SchedInv, Gone
  <1>7. /\ tick_count \in Nat /\ irq0_count = tick_count /\ keys \in 0 .. MaxKeys
        /\ task_flow_tick_start \in Nat /\ task_flow_irq_start \in Nat
        /\ task_flow_tick_start <= task_flow_irq_start /\ Elapsed >= PIT_TEST_TICKS
    BY <1>1, <1>3, Zenon DEF RunInv, TimerInv
  <1>8. /\ tick_count - task_flow_tick_start >= PIT_TEST_TICKS
        /\ irq0_count - task_flow_irq_start >= PIT_TEST_TICKS
    BY <1>7, FlowAssumption DEF Elapsed
  <1>9. /\ switch_count = slices /\ slices \in Nat
        /\ slices + ToCome <= Turns(SentCount, Producer) + Turns(ReceivedCount, Consumer)
                                + 1 + Woken + keys
    BY <1>1, Zenon DEF RunInv, DispatchInv, SchedInv
  <1>10. /\ Turns(SentCount, Producer) = M + 1 /\ Turns(ReceivedCount, Consumer) = M + 1
         /\ ToCome = 0 /\ Woken = PIT_TEST_TICKS
    <2>1. ~ (Elapsed < PIT_TEST_TICKS)
      BY <1>7, FlowAssumption, SMTT(30) DEF Elapsed
    <2> QED  BY <2>1, <1>3, Zenon DEF Turns, ToCome, Woken, Counted
  <1>11. switch_count <= 2 * (M + 1) + 1 + PIT_TEST_TICKS + keys
    BY <1>7, <1>9, <1>10, FlowAssumption, SMTT(30)
  <1>12. switch_count <= TASK_FLOW_BUDGET /\ DispatchBound
    <2>1. TASK_FLOW_BUDGET \in Nat
      BY FlowAssumption, TaskAssumption, Zenon
    <2> QED  BY <2>1, <1>7, <1>9, <1>11, FlowAssumption, SMTT(30) DEF DispatchBound
  <1> QED  BY <1>1, <1>3, <1>4, <1>5, <1>6, <1>8, <1>12, Zenon

-----------------------------------------------------------------------------
(* The inductive invariant holds in every state of every flow, whenever    *)
(* the interrupts arrive.                                                  *)
THEOREM FlowInvariance == FlowSpec => []WholeInv
  BY FlowStarts, FlowStep, PTL DEF FlowSpec

(* Producer and consumer of run_task_flow proceed in lockstep: the ring    *)
(* holds exactly the messages produced and not consumed, and never two.    *)
THEOREM FlowLockstep == FlowSpec => []Lockstep
  BY FlowInvariance, InvLockstep, PTL

(* When task_run returns to run_task_flow, all its conditions other than   *)
(* the lower bound on the dispatches hold: the tasks finished, every       *)
(* message arrived, nothing was rejected, the ticks have passed and the    *)
(* dispatches stayed within the budget.                                    *)
THEOREM FlowConditionsHold == FlowSpec => []FlowConditions
  BY FlowInvariance, InvConditions, PTL
=============================================================================
