------------------------------- MODULE TaskFlow -------------------------------
(***************************************************************************)
(* The end of kernel_main and run_task_flow of kernel/kernel.c: the        *)
(* bootstrap context waits for the timer, creates the producer, consumer   *)
(* and timer-observer tasks and runs them.  Composed from the scheduler    *)
(* (Task), the message queues (Ipc) and the timer interrupt.  Interrupts   *)
(* arrive between any two steps of the context that owns the CPU while its *)
(* interrupt flag is set, also between the test of a wait loop and its     *)
(* hlt; a context that has executed hlt continues only after one.          *)
(***************************************************************************)
EXTENDS Task, Ipc

CONSTANTS TASK_FLOW_MESSAGES, PIT_TEST_TICKS, TASK_FLOW_BUDGET,
          MaxStray,    \* bound: timer interrupts while no context is halted
          MaxKeys      \* bound: keyboard interrupts that end a hlt

(* There is room for the tasks, the endpoint and the messages, and the     *)
(* budget is out of reach: with the kernel's constants it takes more than  *)
(* 230 keys pressed while the observer halts the CPU to spend it.          *)
ASSUME FlowAssumption ==
  /\ TASK_FLOW_MESSAGES \in Nat \ {0} /\ PIT_TEST_TICKS \in Nat
  /\ MaxStray \in Nat /\ MaxKeys \in Nat
  /\ TASK_MAX_TASKS >= 3 /\ IPC_MAX_ENDPOINTS >= 1 /\ IPC_PAYLOAD_MAX >= 1
  /\ 0 .. TASK_FLOW_MESSAGES - 1 \subseteq Byte /\ Indices \subseteq Byte
  /\ Tasks \subseteq Senders /\ NULL \notin CallerMessage
  /\ TASK_FLOW_BUDGET \in Budgets /\ TASK_FLOW_BUDGET < CounterMod
  /\ 2 * (TASK_FLOW_MESSAGES + 1) + 1 + PIT_TEST_TICKS + MaxKeys <= TASK_FLOW_BUDGET

TASK_FLOW_MIN_SWITCHES == 2 * (TASK_FLOW_MESSAGES + 1) + PIT_TEST_TICKS

VARIABLES
  tick_count, irq0_count,       \* pit.c and irq.c counters
  stray, keys,                  \* interrupts used from the two bounds
  boot_at,                      \* where kernel_main or run_task_flow stands
  tick_start, irq_start,        \* locals of kernel_main
  entry,                        \* tasks[t].entry
  at,                           \* where the body of each task stands
  sequence,                     \* loop counters of producer and consumer
  producer_task_id, task_flow_tick_start, task_flow_irq_start,
  produced_messages, consumed_messages, task_flow_failed, finished

task_flow_endpoint == 0
Bodies == {"producer", "consumer", "observer"}

interruptVars == <<tick_count, irq0_count, stray, keys>>
flowVars == <<producer_task_id, task_flow_tick_start, task_flow_irq_start,
              produced_messages, consumed_messages, task_flow_failed, finished>>
bodyVars == <<entry, at, sequence>>
bootVars == <<boot_at, tick_start, irq_start>>
systemVars == <<vars, ipcVars, interruptVars, bootVars, bodyVars, flowVars>>

(* The counters are zero: no interrupt is taken before kernel_main's sti. *)
FlowInit ==
  /\ Init /\ IpcInit
  /\ tick_count = 0 /\ irq0_count = 0 /\ stray = 0 /\ keys = 0
  /\ boot_at = "sti" /\ tick_start = 0 /\ irq_start = 0
  /\ entry = [t \in Tasks |-> "none"]
  /\ at = [t \in Tasks |-> "none"]
  /\ sequence = [b \in {"producer", "consumer"} |-> 0]
  /\ producer_task_id = TASK_INVALID_ID
  /\ task_flow_tick_start = 0 /\ task_flow_irq_start = 0
  /\ produced_messages = 0 /\ consumed_messages = 0
  /\ task_flow_failed = FALSE /\ finished = {}

-----------------------------------------------------------------------------
(* ipc_self_test ends with a fresh endpoint; later kernel_main reads the   *)
(* counters and enables interrupts.                                        *)
boot_sti ==
  /\ boot_at = "sti" /\ cpu = Boot
  /\ set_interrupt_flag(TRUE)
  /\ ipc_endpoint_create
  /\ tick_start' = tick_count /\ irq_start' = irq0_count
  /\ boot_at' = "wait_ticks"
  /\ UNCHANGED <<interruptVars, bodyVars, flowVars>>

(* The two loads of its wait loop; a hlt follows when one is too small. *)
boot_wait ==
  /\ boot_at \in {"wait_ticks", "wait_irqs"}
  /\ boot_at' = IF boot_at = "wait_ticks"
                THEN IF tick_count - tick_start < PIT_TEST_TICKS
                     THEN "hlt" ELSE "wait_irqs"
                ELSE IF irq0_count - irq_start < PIT_TEST_TICKS
                     THEN "hlt" ELSE "reset"
  /\ UNCHANGED <<vars, ipcVars, interruptVars, tick_start, irq_start,
                 bodyVars, flowVars>>

boot_hlt ==
  /\ boot_at = "hlt"
  /\ boot_at' = "halted"
  /\ UNCHANGED <<vars, ipcVars, interruptVars, tick_start, irq_start,
                 bodyVars, flowVars>>

boot_reset ==
  /\ boot_at = "reset" /\ cpu = Boot
  /\ task_system_init
  /\ produced_messages' = 0 /\ consumed_messages' = 0
  /\ finished' = {} /\ task_flow_failed' = FALSE
  /\ boot_at' = "create_producer"
  /\ UNCHANGED <<ipcVars, interruptVars, tick_start, irq_start, bodyVars,
                 producer_task_id, task_flow_tick_start, task_flow_irq_start>>

Created == CHOOSE t \in Tasks : state[t] # "READY" /\ state'[t] = "READY"

boot_create(body, here, next, start) ==
  /\ boot_at = here /\ cpu = Boot
  /\ task_create(FALSE)
  /\ entry' = [entry EXCEPT ![Created] = body]
  /\ at' = [at EXCEPT ![Created] = start]
  /\ producer_task_id' = IF body = "producer" THEN Created ELSE producer_task_id
  /\ boot_at' = next
  /\ UNCHANGED <<ipcVars, interruptVars, tick_start, irq_start, sequence,
                 task_flow_tick_start, task_flow_irq_start, produced_messages, consumed_messages,
                 task_flow_failed, finished>>

boot_run ==
  /\ boot_at = "run" /\ cpu = Boot
  /\ task_run(TASK_FLOW_BUDGET)
  /\ boot_at' = "running"
  /\ UNCHANGED <<ipcVars, interruptVars, tick_start, irq_start, bodyVars, flowVars>>

boot_check ==
  /\ boot_at = "running" /\ cpu = Boot
  /\ task_run_return
  /\ boot_at' = "check"
  /\ UNCHANGED <<ipcVars, interruptVars, tick_start, irq_start, bodyVars, flowVars>>

run_task_flow ==
  \/ boot_sti \/ boot_wait \/ boot_hlt \/ boot_reset
  \/ boot_create("producer", "create_producer", "create_consumer", "send")
  \/ boot_create("consumer", "create_consumer", "create_observer", "receive")
  \/ boot_create("observer", "create_observer", "run", "read_ticks")
  \/ boot_run \/ boot_check

-----------------------------------------------------------------------------
(* A step of a task's body is taken by the task that owns the CPU. *)
InBody(body, places) ==
  /\ cpu \in Tasks /\ pc = "body"
  /\ entry[cpu] = body /\ at[cpu] \in places

Goto(place) == at' = [at EXCEPT ![cpu] = place] /\ UNCHANGED entry

(* prepare_message fills the whole payload, past the length sent. *)
FlowMessage == [sender |-> current_task_id, length |-> 1,
                payload |-> [i \in Indices |->
                               IF i = 0 THEN sequence["producer"] ELSE i]]

producer_send ==
  /\ InBody("producer", {"send"})
  /\ ipc_send(task_flow_endpoint, FlowMessage)
  /\ produced_messages' = produced_messages + (IF ok' THEN 1 ELSE 0)
  /\ Goto(IF ok' THEN "sent" ELSE "retry")
  /\ UNCHANGED <<vars, interruptVars, bootVars, sequence, producer_task_id,
                 task_flow_tick_start, task_flow_irq_start, consumed_messages,
                 task_flow_failed, finished>>

(* What the consumer demands of message number sequence["consumer"]. *)
Expected(m) == /\ m.sender = producer_task_id
               /\ m.length = 1
               /\ m.payload[0] = sequence["consumer"]
               /\ \A i \in Indices : i >= 1 => m.payload[i] = 0

consumer_receive ==
  /\ InBody("consumer", {"receive"})
  /\ ipc_receive(task_flow_endpoint, FALSE)
  /\ task_flow_failed' = (task_flow_failed \/ (ok' /\ ~ Expected(out')))
  /\ consumed_messages' = consumed_messages
                            + (IF ok' /\ Expected(out') THEN 1 ELSE 0)
  /\ Goto(IF ~ ok' THEN "retry" ELSE IF Expected(out') THEN "sent" ELSE "return")
  /\ UNCHANGED <<vars, interruptVars, bootVars, sequence, producer_task_id,
                 task_flow_tick_start, task_flow_irq_start, produced_messages,
                 finished>>

(* The task_yield after a message, or after a failed attempt at one. *)
exchange_yield(body, again) ==
  /\ InBody(body, {"sent", "retry"})
  /\ task_yield
  /\ LET n == sequence[body] + (IF at[cpu] = "sent" THEN 1 ELSE 0)
     IN  /\ sequence' = [sequence EXCEPT ![body] = n]
         /\ Goto(IF n < TASK_FLOW_MESSAGES THEN again ELSE "finish")
  /\ UNCHANGED <<ipcVars, interruptVars, bootVars, flowVars>>

(* Set the finished flag, then task_exit (directly or by returning). *)
body_finish(body) ==
  /\ InBody(body, {"finish", "return"})
  /\ finished' = IF at[cpu] = "finish" THEN finished \cup {body} ELSE finished
  /\ task_exit
  /\ Goto("exited")
  /\ UNCHANGED <<ipcVars, interruptVars, bootVars, sequence, producer_task_id,
                 task_flow_tick_start, task_flow_irq_start, produced_messages,
                 consumed_messages, task_flow_failed>>

observer_read_ticks ==
  /\ InBody("observer", {"read_ticks"})
  /\ task_flow_tick_start' = tick_count
  /\ Goto("read_irqs")
  /\ UNCHANGED <<vars, ipcVars, interruptVars, bootVars, sequence,
                 producer_task_id, task_flow_irq_start, produced_messages,
                 consumed_messages, task_flow_failed, finished>>

observer_read_irqs ==
  /\ InBody("observer", {"read_irqs"})
  /\ task_flow_irq_start' = irq0_count
  /\ Goto("check_ticks")
  /\ UNCHANGED <<vars, ipcVars, interruptVars, bootVars, sequence,
                 producer_task_id, task_flow_tick_start, produced_messages,
                 consumed_messages, task_flow_failed, finished>>

(* The two loads of the while condition, and the hlt of its body: a tick   *)
(* in between does not end the hlt.                                        *)
observer_check ==
  /\ InBody("observer", {"check_ticks", "check_irqs"})
  /\ Goto(IF at[cpu] = "check_ticks"
          THEN IF tick_count - task_flow_tick_start < PIT_TEST_TICKS
               THEN "hlt" ELSE "check_irqs"
          ELSE IF irq0_count - task_flow_irq_start < PIT_TEST_TICKS
               THEN "hlt" ELSE "finish")
  /\ UNCHANGED <<vars, ipcVars, interruptVars, bootVars, sequence, flowVars>>

observer_hlt ==
  /\ InBody("observer", {"hlt"})
  /\ Goto("halted")
  /\ UNCHANGED <<vars, ipcVars, interruptVars, bootVars, sequence, flowVars>>

observer_yield ==
  /\ InBody("observer", {"woken"})
  /\ task_yield
  /\ Goto("check_ticks")
  /\ UNCHANGED <<ipcVars, interruptVars, bootVars, sequence, flowVars>>

first_run ==
  /\ task_trampoline
  /\ UNCHANGED <<ipcVars, interruptVars, bootVars, bodyVars, flowVars>>

task_step ==
  \/ first_run
  \/ producer_send
  \/ exchange_yield("producer", "send")
  \/ consumer_receive
  \/ exchange_yield("consumer", "receive")
  \/ observer_read_ticks \/ observer_read_irqs \/ observer_check
  \/ observer_hlt \/ observer_yield
  \/ \E body \in Bodies : body_finish(body)

-----------------------------------------------------------------------------
ObserverHalts == InBody("observer", {"halted"})
Halting == boot_at = "halted" \/ ObserverHalts

(* An interrupt returns to the instruction after hlt. *)
Wake == /\ boot_at' = IF boot_at = "halted" THEN "wait_ticks" ELSE boot_at
        /\ IF ObserverHalts THEN Goto("woken") ELSE UNCHANGED <<entry, at>>
        /\ UNCHANGED <<tick_start, irq_start>>

(* irq_dispatch(0) with pit_handle_irq: interrupts are off until iret. *)
irq0 ==
  /\ IF_flag = TRUE /\ boot_at # "check"
  /\ Halting \/ stray < MaxStray
  /\ irq0_count' = irq0_count + 1
  /\ tick_count' = tick_count + 1
  /\ stray' = IF Halting THEN stray ELSE stray + 1
  /\ Wake
  /\ UNCHANGED <<vars, ipcVars, keys, sequence, flowVars>>

(* irq_dispatch(1): what matters here is only that it ends a hlt. *)
irq1 ==
  /\ IF_flag = TRUE /\ Halting /\ keys < MaxKeys
  /\ keys' = keys + 1
  /\ Wake
  /\ UNCHANGED <<vars, ipcVars, tick_count, irq0_count, stray, sequence, flowVars>>

(* kernel_main goes on after run_task_flow; a hlt waits for an interrupt. *)
done == (boot_at = "check" \/ Halting) /\ UNCHANGED systemVars

FlowNext == run_task_flow \/ task_step \/ irq0 \/ irq1 \/ done

(* The CPU executes, and the timer keeps ticking while a hlt waits: a tick *)
(* that came between the test and the hlt is not the last one.             *)
Fairness == /\ WF_systemVars(run_task_flow \/ task_step)
            /\ WF_systemVars(Halting /\ irq0)

FlowSpec == FlowInit /\ [][FlowNext]_systemVars /\ Fairness

-----------------------------------------------------------------------------
(* The consumer follows the producer one message behind at most: the ring  *)
(* holds exactly the messages produced and not consumed, and never two.    *)
Lockstep ==
  /\ consumed_messages <= produced_messages
  /\ ~ task_flow_failed =>
       ipc_pending(task_flow_endpoint) = produced_messages - consumed_messages
  /\ produced_messages <= consumed_messages + 1

(* The dispatches a flow takes: one more than the messages for each side,  *)
(* and for the observer one more than the interrupts that ended its hlt.   *)
(* TASK_FLOW_BUDGET is out of reach unless hundreds of keys are pressed.   *)
DispatchBound ==
  switch_count <= 2 * (TASK_FLOW_MESSAGES + 1) + 1 + PIT_TEST_TICKS + keys

(* Whenever the interrupts arrive, run_task_flow finds every condition it  *)
(* tests satisfied, other than the lower bound on the dispatch count, and  *)
(* the dispatches stay within DispatchBound.                               *)
FlowConditions ==
  boot_at = "check" =>
    /\ ret = "true"
    /\ ~ task_flow_failed
    /\ finished = Bodies
    /\ produced_messages = TASK_FLOW_MESSAGES
    /\ consumed_messages = TASK_FLOW_MESSAGES
    /\ ipc_pending(task_flow_endpoint) = 0
    /\ ipc_rejected_count(task_flow_endpoint) = 0
    /\ finished_count = 3
    /\ current_task_id = TASK_INVALID_ID
    /\ switch_count <= TASK_FLOW_BUDGET /\ DispatchBound
    /\ tick_count - task_flow_tick_start >= PIT_TEST_TICKS
    /\ irq0_count - task_flow_irq_start >= PIT_TEST_TICKS

(* The lower bound run_task_flow asserts on the number of dispatches       *)
(* (kernel.c:538), for a flow in which all three tasks finished.           *)
MinimumSwitches ==
  boot_at = "check" /\ finished = Bodies =>
    switch_count >= TASK_FLOW_MIN_SWITCHES

(* The flow ends: no context waits for ever, whenever the interrupts come, *)
(* even if the tick a loop waits for comes after its test and before its   *)
(* hlt: the next tick ends the hlt, and the counters are tested again.     *)
(* This needs the observer to run with the interrupt flag its creator had. *)
FlowEnds == <>(boot_at = "check")
================================================================================
