-------------------------------- MODULE Task --------------------------------
(***************************************************************************)
(* The cooperative round-robin scheduler of kernel/task/task.c together    *)
(* with the stack switch of boot/context_switch.S.                         *)
(*                                                                         *)
(* Every entry point runs with interrupts disabled and no interrupt        *)
(* handler calls it, so each one is a single action.  The action is taken  *)
(* by the context that owns the CPU: a task, or the bootstrap context that *)
(* calls task_run.  A context that is switched away leaves a saved stack:  *)
(* the place it continues at and the interrupt flag popfl will restore.    *)
(***************************************************************************)
EXTENDS Integers, FiniteSets

CONSTANTS TASK_MAX_TASKS,  \* number of task slots
          CounterMod,      \* modulus of the uint32_t dispatch counter
          Budgets          \* the switch budgets callers pass to task_run

ASSUME TaskAssumption == /\ TASK_MAX_TASKS \in Nat \ {0}
                         /\ CounterMod \in Nat \ {0}
                         /\ Budgets \subseteq Nat

N == TASK_MAX_TASKS
Tasks == 0 .. N - 1
TASK_INVALID_ID == N      \* any value that is not a slot number
Boot == -1                \* the context that calls task_run
Contexts == Tasks \cup {Boot}

States == {"UNUSED", "READY", "RUNNING", "FINISHED"}

(***************************************************************************)
(* Places a context continues at: the trampoline of a fresh task, ordinary *)
(* code, the tail of task_run after its switch, and the task_stop() after  *)
(* the switch of task_exit.  "none" is a stack that must not be resumed.   *)
(***************************************************************************)
Places == {"none", "trampoline", "body", "run", "stop"}
NoStack == [at |-> "none", flag |-> FALSE]

VARIABLES
  state,                  \* tasks[t].state
  stack,                  \* saved stack of each context
  current_task_id,
  round_robin_cursor,
  remaining_dispatches,
  switch_count,
  finished_count,
  scheduler_initialized,
  scheduler_running,
  cpu, pc, IF_flag,       \* who executes, where, and EFLAGS.IF
  ret                     \* what task_run returned in the last step

(***************************************************************************)
(* History variables, read by no guard: the interrupt flag each context    *)
(* chose for itself, how many times a READY task was passed over, and the  *)
(* budget, starting counter and number of dispatches of the latest run.    *)
(***************************************************************************)
VARIABLES mode, waited, budget, base, slices

schedVars == <<state, current_task_id, round_robin_cursor,
               remaining_dispatches, switch_count, finished_count,
               scheduler_initialized, scheduler_running>>
cpuVars == <<stack, cpu, pc, IF_flag>>
history == <<mode, waited, budget, base, slices>>
vars == <<schedVars, cpuVars, ret, history>>

Ready(st) == {t \in Tasks : st[t] = "READY"}

Init ==
  /\ state = [t \in Tasks |-> "UNUSED"]
  /\ stack = [c \in Contexts |-> NoStack]
  /\ current_task_id = TASK_INVALID_ID
  /\ round_robin_cursor = TASK_INVALID_ID
  /\ remaining_dispatches = 0
  /\ switch_count = 0
  /\ finished_count = 0
  /\ scheduler_initialized = FALSE
  /\ scheduler_running = FALSE
  /\ cpu = Boot /\ pc = "body" /\ IF_flag = FALSE
  /\ ret = "none"
  /\ mode = [c \in Contexts |-> FALSE]
  /\ waited = [t \in Tasks |-> 0]
  /\ budget = 0 /\ base = 0 /\ slices = 0

-----------------------------------------------------------------------------
(* Mutants of find_next_ready: the search begins at `after' itself; the    *)
(* search stops one slot short.                                            *)
find_next_ready_from_itself(st, after) ==
  LET start == IF after # TASK_INVALID_ID THEN after ELSE 0
      hit(offset) == st[(start + offset) % N] = "READY"
  IN  IF \E offset \in Tasks : hit(offset)
      THEN (start + (CHOOSE offset \in Tasks :
                       /\ hit(offset)
                       /\ \A o \in Tasks : o < offset => ~ hit(o))) % N
      ELSE TASK_INVALID_ID

find_next_ready_short(st, after) ==
  LET start == IF after # TASK_INVALID_ID THEN (after + 1) % N ELSE 0
      hit(offset) == st[(start + offset) % N] = "READY"
  IN  IF \E offset \in Tasks \ {N - 1} : hit(offset)
      THEN (start + (CHOOSE offset \in Tasks :
                       /\ hit(offset)
                       /\ \A o \in Tasks : o < offset => ~ hit(o))) % N
      ELSE TASK_INVALID_ID

(* The first READY slot at or after the one following `after', cyclically. *)
find_next_ready(st, after) ==
  LET start == IF after # TASK_INVALID_ID THEN (after + 1) % N ELSE 0
      hit(offset) == st[(start + offset) % N] = "READY"
  IN  IF \E offset \in Tasks : hit(offset)
      THEN (start + (CHOOSE offset \in Tasks :
                       /\ hit(offset)
                       /\ \A o \in Tasks : o < offset => ~ hit(o))) % N
      ELSE TASK_INVALID_ID

CanActivate(st, id, remaining) ==
  id \in Tasks /\ st[id] = "READY" /\ remaining # 0

PassedOver(st, id) ==
  [t \in Tasks |-> IF st[t] = "READY" /\ t # id
                   THEN (IF state[t] = "READY" THEN waited[t] ELSE 0) + 1
                   ELSE 0]

(* Mutant of activate_task: the budget is not charged. *)
activate_task_free(st, id, remaining) ==
  /\ state' = [st EXCEPT ![id] = "RUNNING"]
  /\ current_task_id' = id /\ round_robin_cursor' = id
  /\ remaining_dispatches' = remaining
  /\ switch_count' = (switch_count + 1) % CounterMod
  /\ waited' = PassedOver(st, id)

(* A successful activate_task(id), starting from the slot states st. *)
activate_task(st, id, remaining) ==
  /\ state' = [st EXCEPT ![id] = "RUNNING"]
  /\ current_task_id' = id
  /\ round_robin_cursor' = id
  /\ remaining_dispatches' = remaining - 1
  /\ switch_count' = (switch_count + 1) % CounterMod
  /\ waited' = PassedOver(st, id)

(* Mutants of task_context_switch: the old stack pointer is not stored;    *)
(* EFLAGS is not restored.                                                 *)
task_context_switch_unsaved(old, resume, flags, new) ==
  /\ stack' = [stack EXCEPT ![new] = NoStack]
  /\ cpu' = new /\ pc' = stack[new].at /\ IF_flag' = stack[new].flag

task_context_switch_no_popfl(old, resume, flags, new) ==
  /\ stack' = [stack EXCEPT ![old] = [at |-> resume, flag |-> flags],
                            ![new] = NoStack]
  /\ cpu' = new /\ pc' = stack[new].at /\ IF_flag' = flags

(* task_context_switch: save the old context, resume the new one. *)
task_context_switch(old, resume, flags, new) ==
  /\ stack' = [stack EXCEPT ![old] = [at |-> resume, flag |-> flags],
                            ![new] = NoStack]
  /\ cpu' = new
  /\ pc' = stack[new].at
  /\ IF_flag' = stack[new].flag

(* interrupt_state_restore at the end of an operation that did not switch. *)
restore(flags) == IF_flag' = flags /\ UNCHANGED <<stack, cpu, pc>>

(* Both operations that leave a task test this first. *)
InTask == /\ scheduler_initialized
          /\ scheduler_running
          /\ current_task_id \in Tasks
          /\ state[current_task_id] = "RUNNING"

(* cli, then hlt forever. *)
task_stop == /\ pc' = "halted" /\ IF_flag' = FALSE
             /\ UNCHANGED <<stack, cpu>>

(* Mutant of switch_to_bootstrap: current_task_id is not invalidated. *)
switch_to_bootstrap_current(st, previous, resume, flags) ==
  /\ state' = st
  /\ scheduler_running' = FALSE
  /\ task_context_switch(previous, resume, flags, Boot)
  /\ waited' = [t \in Tasks |-> IF state[t] = "READY" THEN waited[t] ELSE 0]
  /\ UNCHANGED <<current_task_id, round_robin_cursor, remaining_dispatches,
                 switch_count, slices>>

switch_to_bootstrap(st, previous, resume, flags) ==
  /\ state' = st
  /\ current_task_id' = TASK_INVALID_ID
  /\ scheduler_running' = FALSE
  /\ task_context_switch(previous, resume, flags, Boot)
  /\ waited' = [t \in Tasks |-> IF state[t] = "READY" THEN waited[t] ELSE 0]
  /\ UNCHANGED <<round_robin_cursor, remaining_dispatches, switch_count, slices>>

-----------------------------------------------------------------------------
(* task_system_init: refused while the scheduler runs, else a full reset. *)
task_system_init ==
  /\ pc = "body"
  /\ IF scheduler_running
     THEN /\ restore(IF_flag)
          /\ UNCHANGED <<schedVars, history>>
     ELSE /\ state' = [t \in Tasks |-> "UNUSED"]
          /\ stack' = [c \in Contexts |-> NoStack]
          /\ current_task_id' = TASK_INVALID_ID
          /\ round_robin_cursor' = TASK_INVALID_ID
          /\ remaining_dispatches' = 0
          /\ switch_count' = 0
          /\ finished_count' = 0
          /\ scheduler_running' = FALSE
          /\ scheduler_initialized' = TRUE
          /\ waited' = [t \in Tasks |-> 0]
          /\ budget' = 0 /\ base' = 0 /\ slices' = 0
          /\ UNCHANGED <<cpu, pc, IF_flag, mode>>
  /\ ret' = "none"

(* Mutant of FreeSlots: a finished slot is handed out again. *)
FreeSlots_finished == {t \in Tasks : state[t] \in {"UNUSED", "FINISHED"}}

(* The slots task_create may take. *)
FreeSlots == {t \in Tasks : state[t] = "UNUSED"}

(* Mutant of initial_task_eflags: a new task starts with interrupts off. *)
initial_task_eflags_off == FALSE

(* The interrupt flag in the EFLAGS image on a new stack: the creator's. *)
initial_task_eflags == IF_flag

(* task_create: the lowest UNUSED slot gets a stack with the creator's IF. *)
task_create(entryIsNull) ==
  /\ pc = "body"
  /\ IF \/ ~ scheduler_initialized \/ scheduler_running \/ entryIsNull
        \/ FreeSlots = {}
     THEN restore(IF_flag) /\ UNCHANGED <<schedVars, history>>
     ELSE LET id == CHOOSE t \in FreeSlots : \A u \in FreeSlots : t <= u
          IN  /\ state' = [state EXCEPT ![id] = "READY"]
              /\ stack' = [stack EXCEPT ![id] =
                             [at |-> "trampoline", flag |-> initial_task_eflags]]
              /\ mode' = [mode EXCEPT ![id] = IF_flag]
              /\ waited' = [waited EXCEPT ![id] = 0]
              /\ UNCHANGED <<current_task_id, round_robin_cursor,
                             remaining_dispatches, switch_count,
                             finished_count, scheduler_initialized,
                             scheduler_running, cpu, pc, IF_flag,
                             budget, base, slices>>
  /\ ret' = "none"

(* task_run up to its context switch, or its early return. *)
task_run(switch_budget) ==
  LET next == find_next_ready(state, round_robin_cursor)
      return(v) == /\ restore(IF_flag)
                   /\ ret' = v
                   /\ UNCHANGED <<schedVars, history>>
  IN  /\ pc = "body"
      /\ IF ~ scheduler_initialized \/ scheduler_running THEN return("false")
         ELSE IF next = TASK_INVALID_ID THEN return("true")
         ELSE IF switch_budget = 0 THEN return("false")
         ELSE IF ~ CanActivate(state, next, switch_budget)
         THEN /\ remaining_dispatches' = switch_budget
              /\ restore(IF_flag)
              /\ ret' = "false"
              /\ UNCHANGED <<state, current_task_id, round_robin_cursor,
                             switch_count, finished_count, history,
                             scheduler_initialized, scheduler_running>>
         ELSE /\ scheduler_running' = TRUE
              /\ activate_task(state, next, switch_budget)
              /\ task_context_switch(Boot, "run", IF_flag, next)
              /\ ret' = "none"
              /\ budget' = switch_budget /\ base' = switch_count
              /\ slices' = 1
              /\ UNCHANGED <<finished_count, scheduler_initialized, mode>>

(* The tail of task_run once a task has switched back to the bootstrap. *)
task_run_return ==
  /\ pc = "run"
  /\ pc' = "body"
  /\ ret' = IF find_next_ready(state, round_robin_cursor) = TASK_INVALID_ID
            THEN "true" ELSE "false"
  /\ UNCHANGED <<schedVars, history, stack, cpu, IF_flag>>

(* The first code of a fresh task; its entry function is the "body". *)
task_trampoline ==
  /\ pc = "trampoline"
  /\ IF current_task_id \in Tasks /\ state[current_task_id] = "RUNNING"
     THEN pc' = "body" /\ UNCHANGED <<stack, cpu, IF_flag>>
     ELSE task_stop
  /\ ret' = "none"
  /\ UNCHANGED <<schedVars, history>>

task_yield ==
  LET previous == current_task_id
      st == [state EXCEPT ![previous] = "READY"]
      next == find_next_ready(st, previous)
  IN  /\ pc = "body"
      /\ IF ~ InTask THEN restore(IF_flag) /\ UNCHANGED <<schedVars, history>>
         ELSE /\ IF next # TASK_INVALID_ID /\ remaining_dispatches # 0
                 THEN IF CanActivate(st, next, remaining_dispatches)
                      THEN /\ activate_task(st, next, remaining_dispatches)
                           /\ slices' = slices + 1
                           /\ IF next = previous
                              THEN restore(IF_flag)
                              ELSE task_context_switch(previous, "body",
                                                       IF_flag, next)
                           /\ UNCHANGED scheduler_running
                      ELSE /\ task_stop /\ state' = st
                           /\ UNCHANGED <<current_task_id, round_robin_cursor,
                                          remaining_dispatches, switch_count,
                                          scheduler_running, waited, slices>>
                 ELSE switch_to_bootstrap(st, previous, "body", IF_flag)
              /\ UNCHANGED <<finished_count, scheduler_initialized,
                             mode, budget, base>>
      /\ ret' = "none"

(* task_exit, also reached when a task's entry function returns. *)
task_exit ==
  LET previous == current_task_id
      st == [state EXCEPT ![previous] = "FINISHED"]
      next == find_next_ready(st, previous)
  IN  /\ pc = "body"
      /\ IF ~ InTask THEN task_stop /\ UNCHANGED <<schedVars, history>>
         ELSE /\ finished_count' = finished_count + 1
              /\ IF next # TASK_INVALID_ID /\ remaining_dispatches # 0
                 THEN IF CanActivate(st, next, remaining_dispatches)
                      THEN /\ activate_task(st, next, remaining_dispatches)
                           /\ slices' = slices + 1
                           /\ task_context_switch(previous, "stop",
                                                  IF_flag, next)
                           /\ UNCHANGED scheduler_running
                      ELSE /\ task_stop /\ state' = st
                           /\ UNCHANGED <<current_task_id, round_robin_cursor,
                                          remaining_dispatches, switch_count,
                                          scheduler_running, waited, slices>>
                 ELSE switch_to_bootstrap(st, previous, "stop", IF_flag)
              /\ UNCHANGED <<scheduler_initialized, mode, budget, base>>
      /\ ret' = "none"

(* A context executes cli or sti between calls (kernel_main does). *)
set_interrupt_flag(v) ==
  /\ pc = "body"
  /\ IF_flag' = v
  /\ mode' = [mode EXCEPT ![cpu] = v]
  /\ ret' = "none"
  /\ UNCHANGED <<schedVars, stack, cpu, pc, waited, budget, base, slices>>

(* The hlt loop of task_stop. *)
halted == pc = "halted" /\ UNCHANGED vars

Next ==
  \/ task_system_init
  \/ \E entryIsNull \in BOOLEAN : task_create(entryIsNull)
  \/ \E switch_budget \in Budgets : task_run(switch_budget)
  \/ task_run_return
  \/ task_trampoline
  \/ task_yield
  \/ task_exit
  \/ \E v \in BOOLEAN : set_interrupt_flag(v)
  \/ halted

Spec == Init /\ [][Next]_vars

-----------------------------------------------------------------------------
(* Every variable keeps its type; the counter stays within its width. *)
TypeOK ==
  /\ state \in [Tasks -> States]
  /\ stack \in [Contexts -> [at : Places, flag : BOOLEAN]]
  /\ current_task_id \in Tasks \cup {TASK_INVALID_ID}
  /\ round_robin_cursor \in Tasks \cup {TASK_INVALID_ID}
  /\ remaining_dispatches \in Nat
  /\ switch_count \in 0 .. CounterMod - 1
  /\ finished_count \in Nat
  /\ scheduler_initialized \in BOOLEAN
  /\ scheduler_running \in BOOLEAN
  /\ cpu \in Contexts
  /\ pc \in Places \cup {"halted"}
  /\ IF_flag \in BOOLEAN
  /\ ret \in {"none", "true", "false"}
  /\ mode \in [Contexts -> BOOLEAN]
  /\ waited \in [Tasks -> Nat]
  /\ budget \in Nat /\ base \in 0 .. CounterMod - 1 /\ slices \in Nat

(* The scheduler's bookkeeping describes the CPU: a task executes exactly  *)
(* while scheduler_running is set, it is current_task_id, it is the only   *)
(* slot marked RUNNING, and the round-robin cursor stands on it.           *)
SchedulerAgreesWithCpu ==
  /\ scheduler_running <=> cpu \in Tasks
  /\ scheduler_running => /\ current_task_id = cpu
                          /\ round_robin_cursor = cpu
                          /\ state[cpu] = "RUNNING"
  /\ ~ scheduler_running => current_task_id = TASK_INVALID_ID
  /\ \A t \in Tasks : state[t] = "RUNNING" => t = cpu

(* A context switch only ever resumes a stack that was saved and not yet   *)
(* resumed, never the stack of a task that exited, and the only way into   *)
(* task_stop is task_exit called by the bootstrap context.                 *)
ContextSafety ==
  /\ pc \notin {"none", "stop"}
  /\ pc = "halted" => cpu = Boot
  /\ \A t \in Tasks : state[t] = "READY" => stack[t].at \in {"trampoline", "body"}
  /\ scheduler_running => stack[Boot].at = "run"

(* No context sees its interrupt flag changed by another: when a context   *)
(* executes, IF is the value it last chose itself, or the value its        *)
(* creator had when task_create built its stack.                           *)
InterruptFlagIsPrivate == pc # "halted" => IF_flag = mode[cpu]

(* task_run dispatches at most its budget, every dispatch takes exactly    *)
(* one unit of the budget and is counted once in switch_count (mod 2^32).  *)
DispatchesCounted ==
  scheduler_running \/ pc = "run" =>
    /\ slices + remaining_dispatches = budget
    /\ switch_count = (base + slices) % CounterMod

(* Round robin: no READY task is passed over N times or more, also across  *)
(* several task_run calls, because the cursor survives between them.       *)
BoundedBypass == \A t \in Tasks : state[t] = "READY" => waited[t] < N

(* finished_count is the number of FINISHED slots since the last reset. *)
FinishedCounted ==
  finished_count = Cardinality({t \in Tasks : state[t] = "FINISHED"})

(* task_run returns true only when no task is left to run, and false after *)
(* running tasks only when the budget is spent and some task is READY.     *)
RunResultHonest ==
  [][/\ ret' = "true" => \A t \in Tasks : state'[t] \notin {"READY", "RUNNING"}
     /\ pc = "run" /\ ret' = "false" =>
          remaining_dispatches = 0 /\ slices = budget /\ Ready(state) # {}]_vars

(* A finished task never runs again and its slot is not handed out again   *)
(* until a reset, which only the bootstrap context can perform.            *)
FinishedUntilReset ==
  [][\A t \in Tasks : state[t] = "FINISHED" /\ state'[t] # "FINISHED" =>
       cpu = Boot /\ \A u \in Tasks : state'[u] = "UNUSED"]_vars
=============================================================================
