----------------------------- MODULE TaskProofs -----------------------------
(***************************************************************************)
(* Proofs about the scheduler of module Task, for every number of slots,   *)
(* every counter width and every set of budgets.                           *)
(***************************************************************************)
EXTENDS Task, FiniteSetTheorems, WellFoundedInduction, TLAPS

-----------------------------------------------------------------------------
(* Arithmetic of the cyclic search. *)

(* A remainder modulo the number of slots is a slot number. *)
LEMMA ModRange == \A i \in Nat : i % N \in Tasks
  BY TaskAssumption DEF N, Tasks

(* The remainders the search of find_next_ready can meet. *)
LEMMA ModCases == /\ \A i \in Nat : i < N => i % N = i
                  /\ \A i \in Nat : N <= i /\ i < 2 * N => i % N = i - N
  BY TaskAssumption DEF N

(* Quotient and remainder by the counter width determine a number. *)
LEMMA DivMod ==
  ASSUME NEW a \in Nat
  PROVE  /\ a \div CounterMod \in Nat /\ a % CounterMod \in 0 .. CounterMod - 1
         /\ a = CounterMod * (a \div CounterMod) + (a % CounterMod)
  BY TaskAssumption

(* The remainder is unique. *)
LEMMA ModUnique ==
  ASSUME NEW a \in Nat, NEW q \in Nat, NEW r \in 0 .. CounterMod - 1,
         a = CounterMod * q + r
  PROVE  a % CounterMod = r
  <1> DEFINE p == a \div CounterMod
             s == a % CounterMod
  <1>1. p \in Nat /\ s \in 0 .. CounterMod - 1 /\ a = CounterMod * p + s
    BY DivMod, Zenon
  <1>2. CounterMod * (p - q) = r - s
    BY <1>1, TaskAssumption
  <1> HIDE DEF p, s
  <1>3. p - q >= 1 => CounterMod * (p - q) >= CounterMod
    BY <1>1, TaskAssumption
  <1>4. p - q <= -1 => CounterMod * (p - q) <= -CounterMod
    BY <1>1, TaskAssumption
  <1>5. p = q
    BY <1>1, <1>2, <1>3, <1>4, TaskAssumption
  <1> QED  BY <1>1, <1>5, TaskAssumption DEF s

(* Incrementing a wrapped counter wraps the incremented number. *)
LEMMA ModStep ==
  ASSUME NEW a \in Nat
  PROVE  ((a % CounterMod) + 1) % CounterMod = (a + 1) % CounterMod
  <1> DEFINE q == a \div CounterMod
             r == a % CounterMod
  <1>1. q \in Nat /\ r \in 0 .. CounterMod - 1 /\ a = CounterMod * q + r
    BY DivMod, Zenon
  <1> HIDE DEF q, r
  <1>2. CASE r + 1 < CounterMod
    <2>1. (a + 1) % CounterMod = r + 1
      BY <1>1, <1>2, TaskAssumption, ModUnique
    <2>2. (r + 1) % CounterMod = r + 1
      BY <1>1, <1>2, TaskAssumption
    <2> QED  BY <2>1, <2>2, Zenon DEF r
  <1>3. CASE r + 1 = CounterMod
    <2>1. a + 1 = CounterMod * (q + 1) + 0
      BY <1>1, <1>3, TaskAssumption
    <2>2. (a + 1) % CounterMod = 0
      BY <2>1, <1>1, TaskAssumption, ModUnique
    <2>3. (r + 1) % CounterMod = 0
      BY <1>3, TaskAssumption
    <2> QED  BY <2>2, <2>3, Zenon DEF r
  <1> QED  BY <1>1, <1>2, <1>3, TaskAssumption

(* A nonempty set of naturals has a least element. *)
LEMMA Least == ASSUME NEW S \in SUBSET Nat, S # {}
               PROVE  \E x \in S : \A y \in S : x <= y
  <1>1. PICK x \in S : \A y \in S : ~ (<<y, x>> \in OpToRel(<, Nat))
    BY NatLessThanWellFounded, WFMin, Zenon
  <1>2. \A y \in S : ~ (y < x)
    BY <1>1, Zenon DEF OpToRel
  <1> QED  BY <1>2

(* How many slots find_next_ready(after) looks at before slot t. *)
Dist(after, t) == IF after = TASK_INVALID_ID THEN t
                  ELSE IF t > after THEN t - after - 1 ELSE t - after - 1 + N

-----------------------------------------------------------------------------
(* What find_next_ready computes. *)

(* The slot at offset Dist(after, t) from the start of the search is t,    *)
(* and no other offset below N leads there.                                *)
LEMMA DistOffset ==
  ASSUME NEW after \in Tasks \cup {TASK_INVALID_ID}
  PROVE  LET start == IF after # TASK_INVALID_ID THEN (after + 1) % N ELSE 0
         IN  /\ start \in Tasks
             /\ \A t \in Tasks : /\ Dist(after, t) \in Tasks
                                 /\ (start + Dist(after, t)) % N = t
             /\ \A o \in Tasks : /\ (start + o) % N \in Tasks
                                 /\ Dist(after, (start + o) % N) = o
  <1> DEFINE start == IF after # TASK_INVALID_ID THEN (after + 1) % N ELSE 0
  <1>1. N \in Nat \ {0}
    BY TaskAssumption, Zenon DEF N
  <1>2. start = IF after = N THEN 0 ELSE IF after = N - 1 THEN 0 ELSE after + 1
    BY <1>1, ModCases DEF Tasks, TASK_INVALID_ID
  <1> HIDE DEF start
  <1>3. start \in Tasks
    BY <1>1, <1>2 DEF Tasks, TASK_INVALID_ID
  <1>4. ASSUME NEW i \in Tasks
        PROVE  (start + i) % N = IF start + i < N THEN start + i ELSE start + i - N
    BY <1>1, <1>3, ModCases DEF Tasks
  <1>5. ASSUME NEW t \in Tasks
        PROVE  Dist(after, t) \in Tasks /\ (start + Dist(after, t)) % N = t
    <2>1. Dist(after, t) \in Tasks
      BY <1>1 DEF Dist, Tasks, TASK_INVALID_ID
    <2> QED  BY <1>1, <1>2, <1>4, <2>1 DEF Dist, Tasks, TASK_INVALID_ID
  <1>6. ASSUME NEW o \in Tasks
        PROVE  (start + o) % N \in Tasks /\ Dist(after, (start + o) % N) = o
    BY <1>1, <1>2, <1>4 DEF Dist, Tasks, TASK_INVALID_ID
  <1> QED  BY <1>3, <1>5, <1>6, Zenon DEF start

(* find_next_ready fails exactly when no slot is READY; otherwise it       *)
(* returns a READY slot, and no READY slot comes earlier in the search.    *)
LEMMA FindNext ==
  ASSUME NEW st, NEW after \in Tasks \cup {TASK_INVALID_ID}
  PROVE  LET next == find_next_ready(st, after)
         IN  \/ next = TASK_INVALID_ID /\ \A t \in Tasks : st[t] # "READY"
             \/ /\ next \in Tasks /\ next # TASK_INVALID_ID
                /\ st[next] = "READY"
                /\ \A t \in Tasks : st[t] = "READY" => Dist(after, next) <= Dist(after, t)
  <1> DEFINE start == IF after # TASK_INVALID_ID THEN (after + 1) % N ELSE 0
             hit(o) == st[(start + o) % N] = "READY"
             hits == {o \in Tasks : hit(o)}
             first == CHOOSE o \in Tasks : hit(o) /\ \A p \in Tasks : p < o => ~ hit(p)
             next == find_next_ready(st, after)
  <1>1. next = IF \E o \in Tasks : hit(o) THEN (start + first) % N ELSE TASK_INVALID_ID
    BY Zenon DEF find_next_ready
  <1>2. /\ start \in Tasks
        /\ \A t \in Tasks : Dist(after, t) \in Tasks /\ (start + Dist(after, t)) % N = t
        /\ \A o \in Tasks : (start + o) % N \in Tasks /\ Dist(after, (start + o) % N) = o
    BY DistOffset, Zenon
  <1>3. Tasks \subseteq Nat /\ TASK_INVALID_ID \notin Tasks
    BY TaskAssumption DEF Tasks, TASK_INVALID_ID, N
  <1> HIDE DEF start, next
  <1>4. CASE \E o \in Tasks : hit(o)
    <2>1. \E o \in hits : \A p \in hits : o <= p
      BY <1>3, <1>4, Least, Zenon
    <2>2. first \in Tasks /\ hit(first) /\ \A p \in Tasks : p < first => ~ hit(p)
      <3>1. \E o \in Tasks : hit(o) /\ \A p \in Tasks : p < o => ~ hit(p)
        BY <2>1, <1>3
      <3> QED  BY <3>1, Zenon
    <2> HIDE DEF first
    <2>3. next \in Tasks /\ st[next] = "READY" /\ Dist(after, next) = first
      BY <1>1, <1>2, <1>4, <2>2, Zenon
    <2>4. ASSUME NEW t \in Tasks, st[t] = "READY"
          PROVE  first <= Dist(after, t)
      <3>1. hit(Dist(after, t)) /\ Dist(after, t) \in Tasks
        BY <1>2, <2>4, Zenon
      <3> HIDE DEF hit
      <3>2. ~ (Dist(after, t) < first)
        BY <3>1, <2>2, Zenon
      <3>3. first \in Int /\ Dist(after, t) \in Int
        BY <3>1, <2>2 DEF Tasks
      <3> QED  BY <3>2, <3>3
    <2> QED  BY <2>3, <2>4, <1>3, Zenon DEF next
  <1>5. CASE ~ \E o \in Tasks : hit(o)
    <2>1. \A t \in Tasks : st[t] # "READY"
      BY <1>2, <1>5, Zenon
    <2> QED  BY <1>1, <1>5, <2>1, Zenon DEF next
  <1> QED  BY <1>4, <1>5, Zenon

-----------------------------------------------------------------------------
(***************************************************************************)
(* The inductive invariant.  SchedulerAgreesWithCpu and FinishedCounted    *)
(* need no more than type correctness.  ContextSafety also has to know     *)
(* that only the bootstrap context stands in task_run and that tasks run   *)
(* only in an initialised scheduler, the interrupt flag                    *)
(* must be right in the stacks a switch may still resume, a return to the  *)
(* bootstrap happens only without budget or without READY tasks, and the   *)
(* bound on being passed over comes from the distance to the cursor.       *)
(***************************************************************************)
ContextInv == /\ ContextSafety
              /\ pc = "run" => cpu = Boot
              /\ scheduler_running => scheduler_initialized

Flags == /\ InterruptFlagIsPrivate
         /\ \A t \in Tasks : state[t] = "READY" => stack[t].flag = mode[t]
         /\ scheduler_running => stack[Boot].flag = mode[Boot]

Budget == /\ DispatchesCounted
          /\ pc = "run" => remaining_dispatches = 0 \/ Ready(state) = {}

Bypass == \A t \in Tasks :
            state[t] = "READY" => waited[t] + Dist(round_robin_cursor, t) <= N - 1

IInv == /\ TypeOK /\ SchedulerAgreesWithCpu /\ ContextInv /\ Flags
        /\ Budget /\ Bypass /\ FinishedCounted

-----------------------------------------------------------------------------
(* Facts about the constant sets that most steps need. *)
LEMMA Basics == /\ N \in Nat \ {0}
                /\ Tasks \subseteq Nat /\ Tasks \subseteq Contexts
                /\ \A t \in Tasks : t < N
                /\ Boot \in Contexts /\ Boot \notin Tasks
                /\ TASK_INVALID_ID \notin Tasks /\ TASK_INVALID_ID = N
  BY TaskAssumption DEF N, Tasks, Contexts, Boot, TASK_INVALID_ID

(* After a dispatch of `next', every slot behind it has moved closer. *)
LEMMA DistShift ==
  ASSUME NEW after \in Tasks \cup {TASK_INVALID_ID},
         NEW next \in Tasks, NEW t \in Tasks, t # next,
         Dist(after, next) <= Dist(after, t)
  PROVE  Dist(next, t) <= Dist(after, t) - 1
  BY Basics DEF Dist, Tasks, TASK_INVALID_ID

(* Distances are below the number of slots. *)
LEMMA DistRange ==
  ASSUME NEW after \in Tasks \cup {TASK_INVALID_ID}, NEW t \in Tasks
  PROVE  Dist(after, t) \in 0 .. N - 1
  BY Basics DEF Dist, Tasks, TASK_INVALID_ID

(* Stacks and counters start with values of their types. *)
LEMMA InitialTypes == /\ NoStack \in [at : Places, flag : BOOLEAN]
                      /\ NoStack.at = "none"
                      /\ 0 \in 0 .. CounterMod - 1
  BY TaskAssumption DEF NoStack, Places

(* The initial state satisfies the invariant. *)
LEMMA InitIInv == Init => IInv
  <1> SUFFICES ASSUME Init PROVE IInv
    BY Zenon
  <1> USE Basics DEF Init
  <1>1. TypeOK
    BY InitialTypes, Zenon DEF TypeOK, States, Places
  <1>2. SchedulerAgreesWithCpu /\ ContextInv
    BY Zenon DEF SchedulerAgreesWithCpu, ContextInv, ContextSafety
  <1>3. Flags /\ Budget /\ Bypass
    BY Zenon DEF Flags, Budget, Bypass, InterruptFlagIsPrivate, DispatchesCounted
  <1>4. FinishedCounted
    <2>1. {t \in Tasks : state[t] = "FINISHED"} = {}
      BY Zenon
    <2> QED  BY <2>1, FS_EmptySet, Zenon DEF FinishedCounted
  <1> QED  BY <1>1, <1>2, <1>3, <1>4, Zenon DEF IInv

(* A call that only returns a value leaves the invariant alone. *)
LEMMA ReturnOnly ==
  ASSUME IInv, UNCHANGED <<schedVars, cpuVars, history>>,
         ret' \in {"none", "true", "false"}
  PROVE  IInv'
  <1> USE DEF schedVars, cpuVars, history
  <1>1. TypeOK'
    BY Zenon DEF IInv, TypeOK
  <1>2. SchedulerAgreesWithCpu' /\ ContextInv'
    BY Zenon DEF IInv, SchedulerAgreesWithCpu, ContextInv, ContextSafety
  <1>3. Flags' /\ Budget' /\ Bypass'
    BY Zenon DEF IInv, Flags, Budget, Bypass, InterruptFlagIsPrivate,
           DispatchesCounted, Ready
  <1>4. FinishedCounted'
    BY Zenon DEF IInv, FinishedCounted
  <1> QED  BY <1>1, <1>2, <1>3, <1>4, Zenon DEF IInv

(* The reset of task_system_init, refused while tasks run. *)
LEMMA InitStep == IInv /\ task_system_init => IInv'
  <1> SUFFICES ASSUME IInv, task_system_init PROVE IInv'
    BY Zenon
  <1>1. CASE scheduler_running
    BY <1>1, ReturnOnly, Zenon DEF task_system_init, restore, schedVars, cpuVars, history
  <1>2. CASE ~ scheduler_running
    <2> USE <1>2, Basics DEF task_system_init
    <2>1. TypeOK'
      <3>1. /\ state' \in [Tasks -> States] /\ waited' \in [Tasks -> Nat]
            /\ stack' \in [Contexts -> [at : Places, flag : BOOLEAN]]
        BY InitialTypes DEF States
      <3>2. /\ cpu' \in Contexts /\ pc' \in Places \cup {"halted"}
            /\ IF_flag' \in BOOLEAN /\ mode' \in [Contexts -> BOOLEAN]
        BY Zenon DEF IInv, TypeOK
      <3>3. /\ current_task_id' = TASK_INVALID_ID /\ round_robin_cursor' = TASK_INVALID_ID
            /\ remaining_dispatches' = 0 /\ switch_count' = 0 /\ finished_count' = 0
            /\ budget' = 0 /\ base' = 0 /\ slices' = 0 /\ ret' = "none"
        BY Zenon
      <3>4. scheduler_running' \in BOOLEAN /\ scheduler_initialized' \in BOOLEAN
        BY Zenon
      <3> QED  BY <3>1, <3>2, <3>3, <3>4, InitialTypes, Zenon DEF TypeOK
    <2>2. SchedulerAgreesWithCpu' /\ ContextInv'
      BY Zenon DEF IInv, TypeOK, SchedulerAgreesWithCpu, ContextInv, ContextSafety
    <2>3. Flags' /\ Budget' /\ Bypass'
      BY Zenon DEF IInv, TypeOK, Flags, Budget, Bypass, InterruptFlagIsPrivate,
             DispatchesCounted
    <2>4. FinishedCounted'
      <3>1. {t \in Tasks : state'[t] = "FINISHED"} = {}
        BY Zenon
      <3> QED  BY <3>1, FS_EmptySet, Zenon DEF FinishedCounted
    <2> QED  BY <2>1, <2>2, <2>3, <2>4, Zenon DEF IInv
  <1> QED  BY <1>1, <1>2, Zenon

(* A new task goes to an unused slot, with a fresh stack. *)
LEMMA CreateStep == ASSUME NEW e \in BOOLEAN, IInv, task_create(e) PROVE IInv'
  <1>1. CASE \/ ~ scheduler_initialized \/ scheduler_running \/ e \/ FreeSlots = {}
    BY <1>1, ReturnOnly, Zenon DEF task_create, restore, schedVars, cpuVars, history
  <1>2. CASE ~ (\/ ~ scheduler_initialized \/ scheduler_running \/ e \/ FreeSlots = {})
    <2> DEFINE id == CHOOSE t \in FreeSlots : \A u \in FreeSlots : t <= u
    <2>1. id \in Tasks /\ state[id] = "UNUSED"
      <3>1. \E t \in FreeSlots : \A u \in FreeSlots : t <= u
        BY <1>2, Least, Basics, Zenon DEF FreeSlots
      <3>2. id \in FreeSlots
        BY <3>1, Zenon
      <3> QED  BY <3>2, Zenon DEF FreeSlots
    <2>2. /\ state' = [state EXCEPT ![id] = "READY"]
          /\ stack' = [stack EXCEPT ![id] = [at |-> "trampoline", flag |-> IF_flag]]
          /\ mode' = [mode EXCEPT ![id] = IF_flag]
          /\ waited' = [waited EXCEPT ![id] = 0]
          /\ ret' = "none" /\ pc = "body"
          /\ UNCHANGED <<current_task_id, round_robin_cursor, remaining_dispatches,
                         switch_count, finished_count, scheduler_initialized,
                         scheduler_running, cpu, pc, IF_flag, budget, base, slices>>
      BY <1>2, Zenon DEF task_create, initial_task_eflags
    <2> HIDE DEF id
    <2> USE <1>2, <2>1, <2>2, Basics
    <2>3. TypeOK'
      BY Zenon DEF IInv, TypeOK, States, Places
    <2>4. SchedulerAgreesWithCpu' /\ ContextInv'
      BY Zenon DEF IInv, TypeOK, SchedulerAgreesWithCpu, ContextInv, ContextSafety
    <2>5. Flags'
      BY Zenon DEF IInv, TypeOK, SchedulerAgreesWithCpu, Flags, InterruptFlagIsPrivate
    <2>6. Budget'
      BY Zenon DEF IInv, Budget, DispatchesCounted
    <2>7. Bypass'
      BY DistRange DEF IInv, TypeOK, Bypass
    <2>8. FinishedCounted'
      <3>1. {t \in Tasks : state'[t] = "FINISHED"} = {t \in Tasks : state[t] = "FINISHED"}
        BY Zenon DEF IInv, TypeOK
      <3> QED  BY <3>1, Zenon DEF IInv, FinishedCounted
    <2> QED  BY <2>3, <2>4, <2>5, <2>6, <2>7, <2>8, Zenon DEF IInv
  <1> QED  BY <1>1, <1>2, Zenon

-----------------------------------------------------------------------------
(* A dispatch keeps every READY task within its bound: the slots in front  *)
(* of it have become fewer by at least one.                                *)
LEMMA BypassStep ==
  ASSUME TypeOK, Bypass,
         NEW st \in [Tasks -> States], NEW next \in Tasks,
         next = find_next_ready(st, round_robin_cursor),
         \A t \in Tasks : st[t] = "READY" /\ state[t] # "READY" => t = round_robin_cursor,
         state' = [st EXCEPT ![next] = "RUNNING"],
         round_robin_cursor' = next,
         waited' = PassedOver(st, next)
  PROVE  Bypass'
  <1> SUFFICES ASSUME NEW t \in Tasks, state'[t] = "READY"
               PROVE  waited'[t] + Dist(next, t) <= N - 1
    BY Zenon DEF Bypass
  <1>1. t # next /\ st[t] = "READY"
    BY Zenon
  <1>2. Dist(next, t) <= Dist(round_robin_cursor, t) - 1
    BY <1>1, FindNext, DistShift, Basics, Zenon DEF TypeOK
  <1>3. Dist(round_robin_cursor, t) \in 0 .. N - 1 /\ Dist(next, t) \in 0 .. N - 1
    BY DistRange, Zenon DEF TypeOK
  <1>4. CASE state[t] = "READY"
    <2>1. waited'[t] = waited[t] + 1 /\ waited[t] \in Nat
      BY <1>1, <1>4, Zenon DEF PassedOver, TypeOK
    <2>2. waited[t] + Dist(round_robin_cursor, t) <= N - 1
      BY <1>4, Zenon DEF Bypass
    <2> QED  BY <1>2, <1>3, <2>1, <2>2, Basics
  <1>5. CASE state[t] # "READY"
    <2>1. waited'[t] = 1
      BY <1>1, <1>5 DEF PassedOver
    <2> QED  BY <1>2, <1>3, <2>1, Basics
  <1> QED  BY <1>4, <1>5, Zenon

(* The common part of task_run, task_yield and task_exit: the CPU goes     *)
(* from the executing context to the next READY task.                      *)
LEMMA DispatchStep ==
  ASSUME IInv, pc = "body", scheduler_initialized,
         NEW st \in [Tasks -> States], NEW next \in Tasks, NEW rem \in Nat \ {0},
         NEW resume \in {"run", "body", "stop"},
         next = find_next_ready(st, round_robin_cursor), next # cpu,
         \A t \in Tasks : t # cpu => st[t] = state[t],
         cpu \in Tasks => \/ st[cpu] = "READY" /\ resume = "body"
                          \/ st[cpu] = "FINISHED" /\ resume = "stop",
         cpu = Boot => resume = "run",
         activate_task(st, next, rem),
         task_context_switch(cpu, resume, IF_flag, next),
         scheduler_running' = TRUE, UNCHANGED <<scheduler_initialized, mode>>,
         budget' \in Nat, base' \in 0 .. CounterMod - 1, slices' \in Nat,
         slices' + rem - 1 = budget',
         (switch_count + 1) % CounterMod = (base' + slices') % CounterMod,
         finished_count' \in Nat,
         finished_count' = Cardinality({t \in Tasks : st[t] = "FINISHED"}),
         ret' = "none"
  PROVE  IInv'
  <1> USE Basics
  <1>1. st[next] = "READY" /\ state[next] = "READY"
    BY FindNext, Zenon DEF IInv, TypeOK
  <1>2. cpu \in Tasks => state[cpu] = "RUNNING" /\ cpu = round_robin_cursor
    BY Zenon DEF IInv, SchedulerAgreesWithCpu
  <1>3. stack[next].at \in {"trampoline", "body"} /\ stack[next].flag = mode[next]
    BY <1>1, Zenon DEF IInv, ContextInv, ContextSafety, Flags
  <1>4. /\ state' = [st EXCEPT ![next] = "RUNNING"]
        /\ current_task_id' = next /\ round_robin_cursor' = next
        /\ remaining_dispatches' = rem - 1
        /\ switch_count' = (switch_count + 1) % CounterMod
        /\ waited' = PassedOver(st, next)
    BY Zenon DEF activate_task
  <1>5. /\ stack' = [stack EXCEPT ![cpu] = [at |-> resume, flag |-> IF_flag],
                                  ![next] = NoStack]
        /\ cpu' = next /\ pc' = stack[next].at /\ IF_flag' = stack[next].flag
    BY Zenon DEF task_context_switch
  <1>6. TypeOK'
    <2>1. state' \in [Tasks -> States]
      BY <1>4, Zenon DEF States
    <2>2. stack' \in [Contexts -> [at : Places, flag : BOOLEAN]]
      BY <1>5, InitialTypes, Zenon DEF IInv, TypeOK, Places
    <2>3. waited' \in [Tasks -> Nat]
      BY <1>4 DEF PassedOver, IInv, TypeOK
    <2>4. switch_count' \in 0 .. CounterMod - 1
      BY <1>4, TaskAssumption DEF IInv, TypeOK
    <2>5. pc' \in Places \cup {"halted"} /\ IF_flag' \in BOOLEAN /\ cpu' \in Contexts
      BY <1>5, Zenon DEF IInv, TypeOK
    <2>6. /\ current_task_id' \in Tasks \cup {TASK_INVALID_ID}
          /\ round_robin_cursor' \in Tasks \cup {TASK_INVALID_ID}
          /\ remaining_dispatches' \in Nat
          /\ scheduler_initialized' \in BOOLEAN /\ mode' \in [Contexts -> BOOLEAN]
      BY <1>4 DEF IInv, TypeOK
    <2> QED  BY <2>1, <2>2, <2>3, <2>4, <2>5, <2>6, Zenon DEF TypeOK
  <1>7. SchedulerAgreesWithCpu'
    <2>1. \A t \in Tasks : state'[t] = "RUNNING" => t = next
      BY <1>2, <1>4, Zenon DEF IInv, SchedulerAgreesWithCpu, TypeOK
    <2> QED  BY <2>1, <1>4, <1>5, Zenon DEF SchedulerAgreesWithCpu
  <1>8. \A t \in Tasks : state'[t] = "READY" =>
          stack'[t].at \in {"trampoline", "body"} /\ stack'[t].flag = mode[t]
    <2> SUFFICES ASSUME NEW t \in Tasks, state'[t] = "READY"
                 PROVE  stack'[t].at \in {"trampoline", "body"} /\ stack'[t].flag = mode[t]
      BY Zenon
    <2>1. t # next /\ st[t] = "READY"
      BY <1>4, Zenon
    <2>2. CASE t = cpu
      BY <2>1, <2>2, <1>5, Zenon DEF IInv, TypeOK, Flags, InterruptFlagIsPrivate
    <2>3. CASE t # cpu
      <3>1. stack'[t] = stack[t] /\ state[t] = "READY"
        BY <2>1, <2>3, <1>5, Zenon DEF IInv, TypeOK
      <3> QED  BY <3>1, Zenon DEF IInv, ContextInv, ContextSafety, Flags
    <2> QED  BY <2>2, <2>3, Zenon
  <1>9. stack'[Boot].at = "run" /\ stack'[Boot].flag = mode[Boot]
    <2>1. CASE cpu = Boot
      BY <2>1, <1>5, Zenon DEF IInv, TypeOK, Flags, InterruptFlagIsPrivate
    <2>2. CASE cpu # Boot
      <3>1. scheduler_running /\ stack'[Boot] = stack[Boot]
        BY <2>2, <1>5, Zenon DEF IInv, TypeOK, SchedulerAgreesWithCpu, Contexts
      <3> QED  BY <3>1, Zenon DEF IInv, ContextInv, ContextSafety, Flags
    <2> QED  BY <2>1, <2>2, Zenon
  <1>10. ContextInv'
    BY <1>3, <1>5, <1>8, <1>9, Zenon DEF ContextInv, ContextSafety
  <1>11. Flags'
    BY <1>3, <1>5, <1>8, <1>9, ZenonT(40) DEF Flags, InterruptFlagIsPrivate
  <1>12. Budget'
    BY <1>3, <1>4, <1>5, Zenon DEF Budget, DispatchesCounted
  <1>13. Bypass'
    <2>1. \A t \in Tasks : st[t] = "READY" /\ state[t] # "READY" => t = round_robin_cursor
      BY <1>2, Zenon
    <2> QED  BY <2>1, <1>4, BypassStep, Zenon DEF IInv
  <1>14. FinishedCounted'
    <2>1. {t \in Tasks : state'[t] = "FINISHED"} = {t \in Tasks : st[t] = "FINISHED"}
      BY <1>1, <1>4, Zenon
    <2> QED  BY <2>1, Zenon DEF FinishedCounted
  <1> QED  BY <1>6, <1>7, <1>10, <1>11, <1>12, <1>13, <1>14, Zenon DEF IInv

(* The common part of task_yield and task_exit when no further dispatch is *)
(* possible: the CPU goes back to the bootstrap context in task_run.       *)
LEMMA BootstrapStep ==
  ASSUME IInv, pc = "body", cpu \in Tasks,
         NEW st \in [Tasks -> States], NEW resume \in {"body", "stop"},
         \A t \in Tasks : t # cpu => st[t] = state[t],
         \/ st[cpu] = "READY" /\ resume = "body"
         \/ st[cpu] = "FINISHED" /\ resume = "stop",
         \/ find_next_ready(st, round_robin_cursor) = TASK_INVALID_ID
         \/ remaining_dispatches = 0,
         switch_to_bootstrap(st, cpu, resume, IF_flag),
         UNCHANGED <<scheduler_initialized, mode, budget, base>>,
         finished_count' \in Nat,
         finished_count' = Cardinality({t \in Tasks : st[t] = "FINISHED"}),
         ret' = "none"
  PROVE  IInv'
  <1> USE Basics
  <1>1. scheduler_running /\ state[cpu] = "RUNNING" /\ cpu = round_robin_cursor
    BY Zenon DEF IInv, SchedulerAgreesWithCpu
  <1>2. stack[Boot].at = "run" /\ stack[Boot].flag = mode[Boot]
    BY <1>1, Zenon DEF IInv, ContextInv, ContextSafety, Flags
  <1>3. /\ state' = st /\ current_task_id' = TASK_INVALID_ID
        /\ scheduler_running' = FALSE
        /\ waited' = [t \in Tasks |-> IF state[t] = "READY" THEN waited[t] ELSE 0]
        /\ UNCHANGED <<round_robin_cursor, remaining_dispatches, switch_count, slices>>
    BY Zenon DEF switch_to_bootstrap
  <1>4. /\ stack' = [stack EXCEPT ![cpu] = [at |-> resume, flag |-> IF_flag],
                                  ![Boot] = NoStack]
        /\ cpu' = Boot /\ pc' = "run" /\ IF_flag' = mode[Boot]
    BY <1>2, Zenon DEF switch_to_bootstrap, task_context_switch
  <1>5. TypeOK'
    <2>1. stack' \in [Contexts -> [at : Places, flag : BOOLEAN]]
      BY <1>4, InitialTypes, Zenon DEF IInv, TypeOK, Places
    <2>2. waited' \in [Tasks -> Nat]
      BY <1>3, Zenon DEF IInv, TypeOK
    <2>3. pc' \in Places \cup {"halted"} /\ IF_flag' \in BOOLEAN /\ cpu' \in Contexts
      BY <1>4, Zenon DEF IInv, TypeOK, Places
    <2> QED  BY <2>1, <2>2, <2>3, <1>3, Zenon DEF IInv, TypeOK
  <1>6. SchedulerAgreesWithCpu'
    <2>1. \A t \in Tasks : st[t] # "RUNNING"
      BY Zenon DEF IInv, SchedulerAgreesWithCpu
    <2> QED  BY <2>1, <1>3, <1>4, Zenon DEF SchedulerAgreesWithCpu
  <1>7. \A t \in Tasks : state'[t] = "READY" =>
          stack'[t].at \in {"trampoline", "body"} /\ stack'[t].flag = mode[t]
    <2> SUFFICES ASSUME NEW t \in Tasks, st[t] = "READY"
                 PROVE  stack'[t].at \in {"trampoline", "body"} /\ stack'[t].flag = mode[t]
      BY <1>3, Zenon
    <2>1. CASE t = cpu
      BY <2>1, <1>4, Zenon DEF IInv, TypeOK, Flags, InterruptFlagIsPrivate
    <2>2. CASE t # cpu
      <3>1. stack'[t] = stack[t] /\ state[t] = "READY"
        BY <2>2, <1>4, Zenon DEF IInv, TypeOK
      <3> QED  BY <3>1, Zenon DEF IInv, ContextInv, ContextSafety, Flags
    <2> QED  BY <2>1, <2>2, Zenon
  <1>8. ContextInv' /\ Flags'
    BY <1>3, <1>4, <1>7, Zenon DEF ContextInv, ContextSafety, Flags, InterruptFlagIsPrivate
  <1>9. Budget'
    <2>1. remaining_dispatches = 0 \/ Ready(st) = {}
      BY FindNext, ZenonT(40) DEF IInv, TypeOK, Ready
    <2>2. /\ slices + remaining_dispatches = budget
          /\ switch_count = (base + slices) % CounterMod
      BY <1>1, Zenon DEF IInv, Budget, DispatchesCounted
    <2> QED  BY <2>1, <2>2, <1>3, Zenon DEF Budget, DispatchesCounted, Ready
  <1>10. Bypass'
    <2> SUFFICES ASSUME NEW t \in Tasks, st[t] = "READY"
                 PROVE  waited'[t] + Dist(round_robin_cursor, t) <= N - 1
      BY <1>3, Zenon DEF Bypass
    <2>1. Dist(round_robin_cursor, t) \in 0 .. N - 1
      BY DistRange, Zenon DEF IInv, TypeOK
    <2>2. CASE state[t] = "READY"
      BY <2>2, <1>3, Zenon DEF IInv, Bypass
    <2>3. CASE state[t] # "READY"
      BY <2>1, <2>3, <1>3
    <2> QED  BY <2>2, <2>3, Zenon
  <1>11. FinishedCounted'
    BY <1>3, Zenon DEF FinishedCounted
  <1> QED  BY <1>5, <1>6, <1>8, <1>9, <1>10, <1>11, Zenon DEF IInv

-----------------------------------------------------------------------------
(* task_run dispatches from the bootstrap context or only returns. *)
LEMMA RunStep == ASSUME NEW b \in Budgets, IInv, task_run(b) PROVE IInv'
  <1> DEFINE next == find_next_ready(state, round_robin_cursor)
  <1> USE Basics
  <1>1. /\ \/ next = TASK_INVALID_ID
           \/ next \in Tasks /\ next # TASK_INVALID_ID /\ state[next] = "READY"
        /\ b \in Nat
    BY FindNext, TaskAssumption, Zenon DEF IInv, TypeOK
  <1> HIDE DEF next
  <1>2. CASE ~ scheduler_initialized \/ scheduler_running \/ next = TASK_INVALID_ID \/ b = 0
    <2>1. /\ UNCHANGED <<schedVars, history>> /\ restore(IF_flag)
          /\ ret' \in {"none", "true", "false"}
      BY <1>2, Zenon DEF task_run, next
    <2> QED  BY <2>1, ReturnOnly, Zenon DEF restore, cpuVars, schedVars, history
  <1>3. CASE /\ scheduler_initialized /\ ~ scheduler_running
             /\ next # TASK_INVALID_ID /\ b # 0
    <2>1. CanActivate(state, next, b)
      BY <1>1, <1>3, Zenon DEF CanActivate
    <2>2. /\ scheduler_running' = TRUE /\ activate_task(state, next, b)
          /\ task_context_switch(Boot, "run", IF_flag, next)
          /\ ret' = "none" /\ budget' = b /\ base' = switch_count /\ slices' = 1
          /\ pc = "body"
          /\ UNCHANGED <<finished_count, scheduler_initialized, mode>>
      BY <1>3, <2>1, Zenon DEF task_run, next
    <2>3. cpu = Boot
      BY <1>3, Zenon DEF IInv, TypeOK, SchedulerAgreesWithCpu, Contexts
    <2>4. state \in [Tasks -> States] /\ finished_count \in Nat /\ switch_count \in Nat
          /\ base' \in 0 .. CounterMod - 1
          /\ finished_count' = Cardinality({t \in Tasks : state[t] = "FINISHED"})
      BY <2>2, TaskAssumption DEF IInv, TypeOK, FinishedCounted
    <2>5. next = find_next_ready(state, round_robin_cursor) /\ next \in Tasks
      BY <1>1, <1>3, Zenon DEF next
    <2> QED  BY <1>1, <1>3, <2>2, <2>3, <2>4, <2>5, DispatchStep
  <1> QED  BY <1>2, <1>3, Zenon DEF IInv, TypeOK

(* The tail of task_run, the trampoline, and cli or sti. *)
LEMMA LocalSteps ==
  ASSUME IInv,
         task_run_return \/ task_trampoline
           \/ (\E v \in BOOLEAN : set_interrupt_flag(v)) \/ UNCHANGED vars
  PROVE  IInv'
  <1> USE Basics DEF schedVars, cpuVars, history, vars
  <1>1. CASE task_run_return
    <2> USE <1>1 DEF task_run_return
    <2>1. TypeOK'
      BY Zenon DEF IInv, TypeOK, Places
    <2>2. SchedulerAgreesWithCpu' /\ ContextInv'
      BY Zenon DEF IInv, SchedulerAgreesWithCpu, ContextInv, ContextSafety
    <2>3. Flags' /\ Budget' /\ Bypass' /\ FinishedCounted'
      BY Zenon DEF IInv, Flags, Budget, Bypass, InterruptFlagIsPrivate,
             DispatchesCounted, FinishedCounted, Ready
    <2> QED  BY <2>1, <2>2, <2>3, Zenon DEF IInv
  <1>2. CASE task_trampoline
    <2>1. CASE scheduler_running
      <3>1. pc' = "body" /\ ret' = "none"
            /\ UNCHANGED <<stack, cpu, IF_flag, schedVars, history>> /\ pc # "halted"
        BY <1>2, <2>1, Zenon DEF task_trampoline, IInv, SchedulerAgreesWithCpu
      <3>2. TypeOK' /\ FinishedCounted'
        BY <3>1, Zenon DEF IInv, TypeOK, Places, FinishedCounted
      <3>3. SchedulerAgreesWithCpu' /\ ContextInv'
        BY <3>1, Zenon DEF IInv, SchedulerAgreesWithCpu, ContextInv, ContextSafety
      <3>4. Flags' /\ Budget' /\ Bypass'
        BY <2>1, <3>1, Zenon DEF IInv, Flags, Budget, Bypass, InterruptFlagIsPrivate,
                          DispatchesCounted
      <3> QED  BY <3>2, <3>3, <3>4, Zenon DEF IInv
    <2>2. CASE ~ scheduler_running
      <3>1. /\ pc' = "halted" /\ IF_flag' = FALSE /\ ret' = "none" /\ cpu = Boot
            /\ UNCHANGED <<stack, cpu, schedVars, history>>
        BY <1>2, <2>2, Zenon DEF task_trampoline, task_stop, IInv, TypeOK,
                          SchedulerAgreesWithCpu, Contexts
      <3>2. TypeOK' /\ FinishedCounted'
        BY <3>1, Zenon DEF IInv, TypeOK, FinishedCounted
      <3>3. SchedulerAgreesWithCpu' /\ ContextInv'
        BY <3>1, Zenon DEF IInv, SchedulerAgreesWithCpu, ContextInv, ContextSafety
      <3>4. Flags' /\ Budget' /\ Bypass'
        BY <2>2, <3>1, Zenon DEF IInv, Flags, Budget, Bypass, InterruptFlagIsPrivate,
                          DispatchesCounted
      <3> QED  BY <3>2, <3>3, <3>4, Zenon DEF IInv
    <2> QED  BY <2>1, <2>2, Zenon DEF IInv, TypeOK
  <1>3. ASSUME NEW v \in BOOLEAN, set_interrupt_flag(v) PROVE IInv'
    <2> USE <1>3 DEF set_interrupt_flag
    <2>1. TypeOK'
      BY Zenon DEF IInv, TypeOK
    <2>2. SchedulerAgreesWithCpu' /\ ContextInv'
      BY Zenon DEF IInv, SchedulerAgreesWithCpu, ContextInv, ContextSafety
    <2>3. Flags'
      BY Zenon DEF IInv, TypeOK, SchedulerAgreesWithCpu, Flags, InterruptFlagIsPrivate
    <2>4. Budget' /\ Bypass' /\ FinishedCounted'
      BY Zenon DEF IInv, Budget, Bypass, DispatchesCounted, FinishedCounted, Ready
    <2> QED  BY <2>1, <2>2, <2>3, <2>4, Zenon DEF IInv
  <1>4. CASE UNCHANGED vars
    BY <1>4, ReturnOnly, Zenon DEF IInv, TypeOK
  <1> QED  BY <1>1, <1>2, <1>3, <1>4, Zenon

(* What a task that yields or exits knows, and the counters of one more    *)
(* dispatch out of the budget that is left.                                *)
LEMMA InTaskFacts ==
  ASSUME IInv, InTask
  PROVE  /\ scheduler_initialized /\ scheduler_running
         /\ cpu \in Tasks /\ current_task_id = cpu
         /\ round_robin_cursor = cpu /\ state[cpu] = "RUNNING"
         /\ remaining_dispatches \in Nat /\ budget \in Nat /\ slices \in Nat
         /\ base \in 0 .. CounterMod - 1
         /\ slices + 1 + remaining_dispatches - 1 = budget
         /\ (switch_count + 1) % CounterMod = (base + (slices + 1)) % CounterMod
  <1>1. /\ scheduler_initialized /\ scheduler_running
        /\ cpu \in Tasks /\ current_task_id = cpu
        /\ round_robin_cursor = cpu /\ state[cpu] = "RUNNING"
    BY Zenon DEF InTask, IInv, SchedulerAgreesWithCpu
  <1>2. /\ remaining_dispatches \in Nat /\ budget \in Nat /\ slices \in Nat
        /\ base \in 0 .. CounterMod - 1 /\ base \in Nat
    BY TaskAssumption DEF IInv, TypeOK
  <1>3. /\ slices + remaining_dispatches = budget
        /\ switch_count = (base + slices) % CounterMod
    BY <1>1, Zenon DEF IInv, Budget, DispatchesCounted
  <1>4. base + slices \in Nat /\ (base + slices) + 1 = base + (slices + 1)
    BY <1>2
  <1>5. (switch_count + 1) % CounterMod = ((base + slices) + 1) % CounterMod
    BY <1>3, <1>4, ModStep, Zenon
  <1> QED  BY <1>1, <1>2, <1>3, <1>4, <1>5

(* A task that is alone yields to itself: a dispatch without a switch. *)
LEMMA SelfStep ==
  ASSUME IInv, pc = "body", InTask, remaining_dispatches # 0,
         NEW st, st = [state EXCEPT ![cpu] = "READY"],
         find_next_ready(st, cpu) = cpu,
         activate_task(st, cpu, remaining_dispatches), restore(IF_flag),
         slices' = slices + 1, ret' = "none",
         UNCHANGED <<scheduler_running, scheduler_initialized, finished_count,
                     mode, budget, base>>
  PROVE  IInv'
  <1>0. /\ scheduler_initialized /\ scheduler_running
        /\ cpu \in Tasks /\ current_task_id = cpu
        /\ round_robin_cursor = cpu /\ state[cpu] = "RUNNING"
        /\ remaining_dispatches \in Nat /\ budget \in Nat /\ slices \in Nat
        /\ base \in 0 .. CounterMod - 1
        /\ slices + 1 + remaining_dispatches - 1 = budget
        /\ (switch_count + 1) % CounterMod = (base + (slices + 1)) % CounterMod
    BY InTaskFacts, Zenon
  <1> USE Basics, <1>0
  <1>1. st \in [Tasks -> States]
    BY Zenon DEF IInv, TypeOK, States
  <1>2. \A t \in Tasks : st[t] = "READY" => t = cpu
    <2> SUFFICES ASSUME NEW t \in Tasks, st[t] = "READY", t # cpu PROVE FALSE
      BY Zenon
    <2>1. Dist(cpu, cpu) <= Dist(cpu, t)
      BY FindNext, Zenon
    <2>2. Dist(cpu, cpu) = N - 1 /\ Dist(cpu, t) < N - 1
      BY DEF Dist, Tasks, TASK_INVALID_ID
    <2>3. N - 1 \in Int /\ Dist(cpu, t) \in Int
      BY DistRange
    <2> QED  BY <2>1, <2>2, <2>3
  <1>3. state' = state
    BY Zenon DEF IInv, TypeOK, activate_task
  <1>4. /\ UNCHANGED <<current_task_id, round_robin_cursor, stack, cpu, pc, IF_flag>>
        /\ remaining_dispatches' = remaining_dispatches - 1
        /\ switch_count' = (switch_count + 1) % CounterMod
        /\ waited' = PassedOver(st, cpu)
    BY Zenon DEF activate_task, restore
  <1>5. TypeOK'
    <2>1. waited' \in [Tasks -> Nat]
      BY <1>4 DEF IInv, TypeOK, PassedOver
    <2>2. switch_count' \in 0 .. CounterMod - 1
      <3>1. switch_count + 1 \in Nat
        BY TaskAssumption DEF IInv, TypeOK
      <3> QED  BY <1>4, <3>1, DivMod, Zenon
    <2>3. remaining_dispatches' \in Nat /\ slices' \in Nat
      BY <1>4, SMTT(30)
    <2> QED  BY <2>1, <2>2, <2>3, <1>3, <1>4, Zenon DEF IInv, TypeOK
  <1>6. SchedulerAgreesWithCpu' /\ ContextInv' /\ Flags'
    BY <1>3, <1>4, Zenon DEF IInv, SchedulerAgreesWithCpu, ContextInv, ContextSafety,
                      Flags, InterruptFlagIsPrivate
  <1>7. Budget'
    <2>1. slices' + remaining_dispatches' = budget'
      BY <1>4, Zenon
    <2>2. switch_count' = (base' + slices') % CounterMod
      BY <1>4, Zenon
    <2> QED  BY <2>1, <2>2, <1>4, Zenon DEF Budget, DispatchesCounted
  <1>8. Bypass' /\ FinishedCounted'
    <2>1. \A t \in Tasks : state'[t] # "READY"
      BY <1>2, <1>3, Zenon DEF IInv, TypeOK
    <2> QED  BY <2>1, <1>3, Zenon DEF IInv, Bypass, FinishedCounted
  <1> QED  BY <1>5, <1>6, <1>7, <1>8, Zenon DEF IInv

(* task_yield goes to the next READY task, to itself, or to the bootstrap. *)
LEMMA YieldStep == IInv /\ task_yield => IInv'
  <1> SUFFICES ASSUME IInv, task_yield PROVE IInv'
    BY Zenon
  <1>1. CASE ~ InTask
    BY <1>1, ReturnOnly, Zenon DEF task_yield, restore, schedVars, cpuVars, history
  <1>2. CASE InTask
    <2> DEFINE st == [state EXCEPT ![cpu] = "READY"]
               next == find_next_ready(st, cpu)
    <2>0. /\ scheduler_initialized /\ scheduler_running
          /\ cpu \in Tasks /\ current_task_id = cpu
          /\ round_robin_cursor = cpu /\ state[cpu] = "RUNNING"
          /\ remaining_dispatches \in Nat /\ budget \in Nat /\ slices \in Nat
          /\ base \in 0 .. CounterMod - 1
          /\ slices + 1 + remaining_dispatches - 1 = budget
          /\ (switch_count + 1) % CounterMod = (base + (slices + 1)) % CounterMod
      BY <1>2, InTaskFacts, Zenon
    <2> USE Basics, <1>2, <2>0
    <2>1. /\ st \in [Tasks -> States] /\ st[cpu] = "READY"
          /\ \A t \in Tasks : t # cpu => st[t] = state[t]
      BY Zenon DEF IInv, TypeOK, States
    <2>2. next \in Tasks /\ next # TASK_INVALID_ID /\ st[next] = "READY"
      BY <2>1, FindNext, Zenon
    <2>3. /\ pc = "body" /\ ret' = "none"
          /\ UNCHANGED <<finished_count, scheduler_initialized, mode, budget, base>>
      BY Zenon DEF task_yield
    <2>4. /\ finished_count' \in Nat
          /\ finished_count' = Cardinality({t \in Tasks : st[t] = "FINISHED"})
      <3>1. {t \in Tasks : st[t] = "FINISHED"} = {t \in Tasks : state[t] = "FINISHED"}
        BY <2>1, Zenon
      <3> QED  BY <3>1, <2>3, Zenon DEF IInv, TypeOK, FinishedCounted
    <2>5. CASE remaining_dispatches = 0
      <3>1. switch_to_bootstrap(st, cpu, "body", IF_flag)
        BY <2>5, Zenon DEF task_yield
      <3> HIDE DEF st, next
      <3> QED  BY <3>1, <2>1, <2>3, <2>4, <2>5, BootstrapStep, Zenon
    <2>6. CASE remaining_dispatches # 0
      <3>1. CanActivate(st, next, remaining_dispatches)
        BY <2>2, <2>6, Zenon DEF CanActivate
      <3>2. /\ activate_task(st, next, remaining_dispatches)
            /\ slices' = slices + 1 /\ UNCHANGED scheduler_running
            /\ IF next = cpu THEN restore(IF_flag)
               ELSE task_context_switch(cpu, "body", IF_flag, next)
        BY <2>2, <2>6, <3>1, Zenon DEF task_yield
      <3>3. st = [state EXCEPT ![cpu] = "READY"] /\ next = find_next_ready(st, round_robin_cursor)
        BY Zenon
      <3>4. cpu # Boot /\ scheduler_running' = TRUE
        BY <3>2, Zenon
      <3> HIDE DEF st, next
      <3>5. CASE next = cpu
        <4>1. /\ find_next_ready(st, cpu) = cpu
              /\ activate_task(st, cpu, remaining_dispatches) /\ restore(IF_flag)
          BY <3>2, <3>3, <3>5, Zenon
        <4> QED  BY <4>1, <3>2, <3>3, <2>3, <2>6, SelfStep, Zenon
      <3>6. CASE next # cpu
        <4>1. /\ task_context_switch(cpu, "body", IF_flag, next)
              /\ slices' \in Nat /\ budget' \in Nat /\ base' \in 0 .. CounterMod - 1
              /\ slices' + remaining_dispatches - 1 = budget'
              /\ (switch_count + 1) % CounterMod = (base' + slices') % CounterMod
          BY <3>2, <3>6, <2>3
        <4>2. remaining_dispatches \in Nat \ {0} /\ next \in Tasks
          BY <2>2, <2>6, Zenon
        <4> QED  BY <4>1, <4>2, <3>2, <3>3, <3>4, <3>6, <2>1, <2>3, <2>4, DispatchStep, Zenon
      <3> QED  BY <3>5, <3>6, Zenon
    <2> QED  BY <2>5, <2>6, Zenon
  <1> QED  BY <1>1, <1>2, Zenon

(* An exit marks the slot FINISHED and counts it before it switches away. *)
LEMMA ExitStep == IInv /\ task_exit => IInv'
  <1> SUFFICES ASSUME IInv, task_exit PROVE IInv'
    BY Zenon
  <1>1. CASE ~ InTask
    <2>1. /\ pc' = "halted" /\ IF_flag' = FALSE /\ ret' = "none" /\ pc = "body"
          /\ UNCHANGED <<stack, cpu, schedVars, history>>
      BY <1>1, Zenon DEF task_exit, task_stop
    <2>2. ~ scheduler_running /\ cpu = Boot
      BY <1>1, Zenon DEF IInv, TypeOK, SchedulerAgreesWithCpu, ContextInv, InTask, Contexts
    <2> USE <2>1, <2>2 DEF schedVars, history
    <2>3. TypeOK' /\ FinishedCounted'
      BY Zenon DEF IInv, TypeOK, FinishedCounted
    <2>4. SchedulerAgreesWithCpu' /\ ContextInv'
      BY Zenon DEF IInv, SchedulerAgreesWithCpu, ContextInv, ContextSafety
    <2>5. Flags' /\ Budget' /\ Bypass'
      BY Zenon DEF IInv, Flags, Budget, Bypass, InterruptFlagIsPrivate, DispatchesCounted
    <2> QED  BY <2>3, <2>4, <2>5, Zenon DEF IInv
  <1>2. CASE InTask
    <2> DEFINE st == [state EXCEPT ![cpu] = "FINISHED"]
               next == find_next_ready(st, cpu)
    <2>0. /\ scheduler_initialized /\ scheduler_running
          /\ cpu \in Tasks /\ current_task_id = cpu
          /\ round_robin_cursor = cpu /\ state[cpu] = "RUNNING"
          /\ remaining_dispatches \in Nat /\ budget \in Nat /\ slices \in Nat
          /\ base \in 0 .. CounterMod - 1
          /\ slices + 1 + remaining_dispatches - 1 = budget
          /\ (switch_count + 1) % CounterMod = (base + (slices + 1)) % CounterMod
      BY <1>2, InTaskFacts, Zenon
    <2> USE Basics, <1>2, <2>0
    <2>1. /\ st \in [Tasks -> States] /\ st[cpu] = "FINISHED"
          /\ \A t \in Tasks : t # cpu => st[t] = state[t]
      BY Zenon DEF IInv, TypeOK, States
    <2>2. \/ next = TASK_INVALID_ID
          \/ next \in Tasks /\ next # TASK_INVALID_ID /\ st[next] = "READY"
      BY <2>1, FindNext, Zenon
    <2>3. /\ pc = "body" /\ ret' = "none" /\ finished_count' = finished_count + 1
          /\ UNCHANGED <<scheduler_initialized, mode, budget, base>>
      BY Zenon DEF task_exit
    <2>4. /\ finished_count' \in Nat
          /\ finished_count' = Cardinality({t \in Tasks : st[t] = "FINISHED"})
      <3> DEFINE F == {t \in Tasks : state[t] = "FINISHED"}
      <3>1. {t \in Tasks : st[t] = "FINISHED"} = F \cup {cpu} /\ cpu \notin F
        BY <2>1, Zenon
      <3>2. IsFiniteSet(F)
        <4>1. IsFiniteSet(Tasks)
          BY FS_Interval DEF Tasks
        <4> QED  BY <4>1, FS_Subset, Zenon
      <3>3. Cardinality(F \cup {cpu}) = Cardinality(F) + 1
        BY <3>1, <3>2, FS_AddElement, Zenon
      <3> QED  BY <3>1, <3>3, <2>3 DEF IInv, TypeOK, FinishedCounted
    <2>5. CASE remaining_dispatches = 0 \/ next = TASK_INVALID_ID
      <3>1. switch_to_bootstrap(st, cpu, "stop", IF_flag)
        BY <2>5, Zenon DEF task_exit
      <3>2. find_next_ready(st, round_robin_cursor) = TASK_INVALID_ID \/ remaining_dispatches = 0
        BY <2>5, Zenon
      <3> HIDE DEF st, next
      <3> QED  BY <3>1, <3>2, <2>1, <2>3, <2>4, BootstrapStep, Zenon
    <2>6. CASE remaining_dispatches # 0 /\ next # TASK_INVALID_ID
      <3>1. CanActivate(st, next, remaining_dispatches)
        BY <2>2, <2>6, Zenon DEF CanActivate
      <3>2. /\ activate_task(st, next, remaining_dispatches)
            /\ slices' = slices + 1 /\ UNCHANGED scheduler_running
            /\ task_context_switch(cpu, "stop", IF_flag, next)
        BY <2>6, <3>1, Zenon DEF task_exit
      <3>3. next = find_next_ready(st, round_robin_cursor)
        BY Zenon
      <3>4. cpu # Boot /\ scheduler_running' = TRUE /\ next \in Tasks /\ next # cpu
        BY <3>2, <2>1, <2>2, <2>6, Zenon
      <3> HIDE DEF st, next
      <3> QED  BY <3>2, <3>3, <3>4, <2>1, <2>3, <2>4, <2>6, DispatchStep
    <2> QED  BY <2>5, <2>6, Zenon
  <1> QED  BY <1>1, <1>2, Zenon

-----------------------------------------------------------------------------
(* Every step of the scheduler preserves the invariant. *)
LEMMA NextStep == IInv /\ [Next]_vars => IInv'
  <1> SUFFICES ASSUME IInv, [Next]_vars PROVE IInv'
    BY Zenon
  <1>1. CASE task_system_init
    BY <1>1, InitStep, Zenon
  <1>2. CASE \E e \in BOOLEAN : task_create(e)
    BY <1>2, CreateStep, Zenon
  <1>3. CASE \E b \in Budgets : task_run(b)
    BY <1>3, RunStep, Zenon
  <1>4. CASE task_yield
    BY <1>4, YieldStep, Zenon
  <1>5. CASE task_exit
    BY <1>5, ExitStep, Zenon
  <1>6. CASE task_run_return \/ task_trampoline \/ (\E v \in BOOLEAN : set_interrupt_flag(v))
    BY <1>6, LocalSteps, Zenon
  <1>7. CASE halted \/ UNCHANGED vars
    BY <1>7, LocalSteps, Zenon DEF halted
  <1> QED  BY <1>1, <1>2, <1>3, <1>4, <1>5, <1>6, <1>7, Zenon DEF Next

(* The strengthened invariant holds in every reachable state, for every    *)
(* number of task slots, counter width and set of budgets.                 *)
THEOREM Invariance == Spec => []IInv
  BY InitIInv, NextStep, PTL DEF Spec

(* Every variable of task.c keeps its type, and switch_count its width. *)
THEOREM TypeCorrect == Spec => []TypeOK
  <1>1. IInv => TypeOK
    BY Zenon DEF IInv
  <1> QED  BY <1>1, Invariance, PTL

(* current_task_id, the RUNNING slot, the cursor and scheduler_running     *)
(* always describe the context that task_context_switch left on the CPU.   *)
THEOREM SchedulerAgrees == Spec => []SchedulerAgreesWithCpu
  <1>1. IInv => SchedulerAgreesWithCpu
    BY Zenon DEF IInv
  <1> QED  BY <1>1, Invariance, PTL

(* task_context_switch never resumes a stack that was not saved, was       *)
(* already resumed, or belongs to a task that called task_exit.            *)
THEOREM ContextsAreSafe == Spec => []ContextSafety
  <1>1. IInv => ContextSafety
    BY Zenon DEF IInv, ContextInv
  <1> QED  BY <1>1, Invariance, PTL

(* The EFLAGS images saved by task_context_switch and built by task_create *)
(* give every context back its own interrupt flag.                         *)
THEOREM FlagsArePrivate == Spec => []InterruptFlagIsPrivate
  <1>1. IInv => InterruptFlagIsPrivate
    BY Zenon DEF IInv, Flags
  <1> QED  BY <1>1, Invariance, PTL

(* activate_task charges the budget of task_run and the wrapping dispatch  *)
(* counter exactly once for each dispatch.                                 *)
THEOREM BudgetIsExact == Spec => []DispatchesCounted
  <1>1. IInv => DispatchesCounted
    BY Zenon DEF IInv, Budget
  <1> QED  BY <1>1, Invariance, PTL

(* The search of find_next_ready is fair: with N slots no READY task is    *)
(* passed over N times.                                                    *)
THEOREM RoundRobin == Spec => []BoundedBypass
  <1>1. IInv => BoundedBypass
    <2> SUFFICES ASSUME IInv, NEW t \in Tasks, state[t] = "READY"
                 PROVE  waited[t] < N
      BY Zenon DEF BoundedBypass
    <2>1. Dist(round_robin_cursor, t) \in 0 .. N - 1 /\ waited[t] \in Nat
      BY DistRange, Zenon DEF IInv, TypeOK
    <2>2. waited[t] + Dist(round_robin_cursor, t) <= N - 1
      BY Zenon DEF IInv, Bypass
    <2> QED  BY <2>1, <2>2, Basics
  <1> QED  BY <1>1, Invariance, PTL

(* task_exit counts every task once. *)
THEOREM FinishedIsCounted == Spec => []FinishedCounted
  <1>1. IInv => FinishedCounted
    BY Zenon DEF IInv
  <1> QED  BY <1>1, Invariance, PTL

(* task_run tells the truth: true means that nothing is left to run, false *)
(* after a run means that the budget is used up and a task is still READY. *)
THEOREM ResultsAreHonest == Spec => RunResultHonest
  <1> DEFINE Honest ==
        /\ ret' = "true" => \A t \in Tasks : state'[t] \notin {"READY", "RUNNING"}
        /\ pc = "run" /\ ret' = "false" =>
             remaining_dispatches = 0 /\ slices = budget /\ Ready(state) # {}
  <1>1. IInv /\ [Next]_vars => [Honest]_vars
    <2> SUFFICES ASSUME IInv, Next PROVE Honest \/ UNCHANGED vars
      BY Zenon
    <2>1. ~ scheduler_running => \A t \in Tasks : state[t] # "RUNNING"
      BY Zenon DEF IInv, SchedulerAgreesWithCpu
    <2>2. LET next == find_next_ready(state, round_robin_cursor)
          IN  \/ next = TASK_INVALID_ID /\ \A t \in Tasks : state[t] # "READY"
              \/ next # TASK_INVALID_ID /\ Ready(state) # {}
      BY FindNext, Zenon DEF IInv, TypeOK, Ready
    <2>3. ASSUME NEW b \in Budgets, task_run(b) PROVE Honest
      <3>1. pc = "body" /\ (ret' = "true" =>
               /\ ~ scheduler_running /\ state' = state
               /\ find_next_ready(state, round_robin_cursor) = TASK_INVALID_ID)
        BY <2>3, Zenon DEF task_run, schedVars
      <3> QED  BY <3>1, <2>1, <2>2, Zenon
    <2>4. CASE task_run_return
      <3>1. /\ pc = "run" /\ state' = state
            /\ ret' = IF find_next_ready(state, round_robin_cursor) = TASK_INVALID_ID
                      THEN "true" ELSE "false"
        BY <2>4, Zenon DEF task_run_return, schedVars
      <3>2. ~ scheduler_running
        BY <3>1, Basics, Zenon DEF IInv, ContextInv, SchedulerAgreesWithCpu
      <3>3. Ready(state) # {} => remaining_dispatches = 0 /\ slices = budget
        BY <3>1 DEF IInv, TypeOK, Budget, DispatchesCounted
      <3> QED  BY <3>1, <3>2, <3>3, <2>1, <2>2, Zenon
    <2>5. CASE \/ task_system_init \/ (\E e \in BOOLEAN : task_create(e))
               \/ task_trampoline \/ task_yield \/ task_exit
               \/ (\E v \in BOOLEAN : set_interrupt_flag(v))
      <3>1. ret' = "none"
        BY <2>5, Zenon DEF task_system_init, task_create, task_trampoline, task_yield,
                    task_exit, set_interrupt_flag
      <3> QED  BY <3>1, Zenon
    <2> QED  BY <2>3, <2>4, <2>5, Zenon DEF Next, halted
  <1> QED  BY <1>1, Invariance, PTL DEF Spec, RunResultHonest

(* No step of a task takes a slot out of FINISHED; only task_system_init   *)
(* does, for all slots at once and from the bootstrap context.             *)
THEOREM FinishedStays == Spec => FinishedUntilReset
  <1> DEFINE Keeps ==
        \A t \in Tasks : state[t] = "FINISHED" /\ state'[t] # "FINISHED" =>
          cpu = Boot /\ \A u \in Tasks : state'[u] = "UNUSED"
  <1>1. IInv /\ [Next]_vars => [Keeps]_vars
    <2> SUFFICES ASSUME IInv, Next PROVE Keeps \/ UNCHANGED vars
      BY Zenon
    <2>1. CASE task_system_init
      BY <2>1, Basics, Zenon DEF task_system_init, schedVars, IInv, TypeOK, Contexts,
                          SchedulerAgreesWithCpu
    <2>2. ASSUME NEW e \in BOOLEAN, task_create(e) PROVE Keeps
      <3>1. CASE FreeSlots = {} \/ state' = state
        BY <2>2, <3>1, Zenon DEF task_create, schedVars
      <3>2. CASE FreeSlots # {} /\ state' # state
        <4> DEFINE id == CHOOSE t \in FreeSlots : \A u \in FreeSlots : t <= u
        <4>1. \E t \in FreeSlots : \A u \in FreeSlots : t <= u
          BY <3>2, Least, Basics, Zenon DEF FreeSlots
        <4>2. id \in FreeSlots
          BY <4>1, Zenon
        <4>3. state' = [state EXCEPT ![id] = "READY"]
          BY <2>2, <3>2, Zenon DEF task_create, schedVars
        <4> HIDE DEF id
        <4> QED  BY <4>2, <4>3, Zenon DEF FreeSlots, IInv, TypeOK
      <3> QED  BY <3>1, <3>2, Zenon
    <2>3. ASSUME NEW b \in Budgets, task_run(b) PROVE Keeps
      BY <2>3, Zenon DEF task_run, schedVars, activate_task, CanActivate, IInv, TypeOK
    <2>4. CASE task_yield
      <3> DEFINE st == [state EXCEPT ![current_task_id] = "READY"]
      <3>1. CASE ~ InTask
        BY <2>4, <3>1, Zenon DEF task_yield, schedVars
      <3>2. CASE InTask
        <4>1. \/ state' = st
              \/ \E id \in Tasks : st[id] = "READY" /\ state' = [st EXCEPT ![id] = "RUNNING"]
          BY <2>4, <3>2, Zenon DEF task_yield, switch_to_bootstrap, activate_task, CanActivate
        <4> QED  BY <4>1, <3>2, Zenon DEF InTask, IInv, TypeOK
      <3> QED  BY <3>1, <3>2, Zenon
    <2>5. CASE task_exit
      <3> DEFINE st == [state EXCEPT ![current_task_id] = "FINISHED"]
      <3>1. CASE ~ InTask
        BY <2>5, <3>1, Zenon DEF task_exit, schedVars
      <3>2. CASE InTask
        <4>1. \/ state' = st
              \/ \E id \in Tasks : st[id] = "READY" /\ state' = [st EXCEPT ![id] = "RUNNING"]
          BY <2>5, <3>2, Zenon DEF task_exit, switch_to_bootstrap, activate_task, CanActivate
        <4> QED  BY <4>1, <3>2, Zenon DEF InTask, IInv, TypeOK
      <3> QED  BY <3>1, <3>2, Zenon
    <2>6. CASE task_run_return \/ task_trampoline \/ (\E v \in BOOLEAN : set_interrupt_flag(v))
      BY <2>6, Zenon DEF task_run_return, task_trampoline, set_interrupt_flag, schedVars
    <2> QED  BY <2>1, <2>2, <2>3, <2>4, <2>5, <2>6, ZenonT(40) DEF Next, halted
  <1> QED  BY <1>1, Invariance, PTL DEF Spec, FinishedUntilReset
=============================================================================
