--------------------------------- MODULE Irq ----------------------------------
(***************************************************************************)
(* Interrupt dispatch (kernel/arch/x86/irq.c, pic.c, pit.c, interrupt.c),  *)
(* its set-up by kernel_main, and the status snapshot that foreground code *)
(* takes while interrupts are on (kernel/diag/system_status.c).  The two   *)
(* interrupt controllers, the timer and the keyboard controller are        *)
(* external.  An interrupt handler runs with interrupts off up to its iret *)
(* and is one action; a request that the CPU sees is taken before the next *)
(* foreground step.                                                        *)
(***************************************************************************)
EXTENDS Integers, FiniteSets

CONSTANTS CounterMod,   \* 2^32: modulus of the counters
          MaxBurst,     \* bound: timer edges during one round of the foreground
          MaxBytes      \* bound: bytes waiting in the keyboard controller

ASSUME IrqAssumption ==
  CounterMod \in Nat /\ MaxBurst \in Nat /\ MaxBytes \in Nat /\ MaxBurst < CounterMod

IRQ_COUNT == 16
Irqs == 0 .. IRQ_COUNT - 1
PIC_SLAVE_IRQ_BASE == 8
Cascade == 2
Spurious == 7
Master == 0 .. 7
Slave == 8 .. 15
NoHandler == "none"

VARIABLES handlers, counts,           \* irq.c
          master_mask, slave_mask,    \* pic.c: the lines masked on each chip
          tick_count, configured_frequency_hz,   \* pit.c
          imr, irr, isr,              \* the controllers' registers, by line
          withdrawn,                  \* the line dropped after the CPU saw it
          bytes,                      \* bytes in the keyboard controller
          burst,                      \* timer edges in this round
          IF_flag, stage,                \* the CPU: interrupt flag, foreground place
          snapshot,                   \* local of system_status_read
          since,                      \* history: tick_count when the read began
          served                      \* history: the line the last step served

softVars == <<handlers, counts, master_mask, slave_mask, tick_count,
              configured_frequency_hz>>
picVars == <<imr, irr, isr, withdrawn>>
statusVars == <<snapshot, since>>
irqVars == <<softVars, picVars, bytes, burst, IF_flag, stage, statusVars, served>>

(* kernel_main has executed cli and idt_init.  What the firmware and the   *)
(* loader left is unknown: the masks, the requests latched so far, and the *)
(* bytes nobody has read.                                                  *)
IrqInit ==
  /\ handlers = [i \in Irqs |-> NoHandler] /\ counts = [i \in Irqs |-> 0]
  /\ master_mask = Master /\ slave_mask = Slave
  /\ tick_count = 0 /\ configured_frequency_hz = 0
  /\ imr \in {{}, Irqs} /\ irr \in SUBSET {0, 1} /\ isr = {} /\ withdrawn = FALSE
  /\ bytes \in 0 .. MaxBytes /\ burst = 0
  /\ IF_flag = FALSE /\ stage = "int3"
  /\ snapshot = [pit_ticks |-> 0, irq0_count |-> 0] /\ since = 0
  /\ served = IRQ_COUNT

-----------------------------------------------------------------------------
(* A non-specific EOI ends the request of the highest priority in service. *)
Highest(lines) == {i \in lines : \A j \in lines : i <= j}

(* Mutant of pic_send_eoi: only the slave is told. *)
pic_send_eoi_slave(service, irq) ==
  service \ (IF irq >= PIC_SLAVE_IRQ_BASE THEN Highest(service \cap Slave) ELSE {})

pic_send_eoi(service, irq) ==
  service \ (Highest(service \cap Master)
               \cup IF irq >= PIC_SLAVE_IRQ_BASE THEN Highest(service \cap Slave)
                    ELSE {})

(* What the registered handlers do; the keyboard's reads at most one byte, *)
(* and the controller raises its line again for the next one.              *)
pit_handle_irq == tick_count' = (tick_count + 1) % CounterMod
keyboard_read == bytes' = IF bytes > 0 THEN bytes - 1 ELSE 0

irq_dispatch(irq, service) ==
  /\ counts' = [counts EXCEPT ![irq] = (@ + 1) % CounterMod]
  /\ IF handlers[irq] = "pit_handle_irq" THEN pit_handle_irq ELSE UNCHANGED tick_count
  /\ IF handlers[irq] = "keyboard_handle_irq" THEN keyboard_read ELSE UNCHANGED bytes
  /\ isr' = pic_send_eoi(service, irq)

(* The line whose vector the CPU would get: the slave's go through line 2. *)
Deliverable ==
  LET open(i) == /\ i \in irr \ imr
                 /\ i \in Slave => Cascade \notin imr
      rank(i) == IF i \in Slave THEN Cascade ELSE i
  IN  {i \in Irqs : /\ open(i)
                    /\ \A j \in isr : rank(i) < rank(j)
                    /\ \A j \in Irqs : open(j) => rank(i) < rank(j) \/ i <= j}

(* A line that dropped after the CPU saw it is answered with line 7, which *)
(* is then not in service.                                                 *)
Acceptable == IF Deliverable = {} /\ withdrawn THEN {Spurious} ELSE Deliverable

(* irqN stub, interrupt_common_entry, interrupt_dispatch with a vector of  *)
(* 32 to 47, iret.  An interrupt ends a hlt.                               *)
interrupt ==
  \E irq \in Acceptable :
    LET real == irq \in Deliverable
        service == isr \cup (IF ~ real THEN {}
                             ELSE IF irq \in Slave THEN {irq, Cascade} ELSE {irq})
    IN  /\ IF_flag
        /\ irq_dispatch(irq, service)
        /\ irr' = (irr \ (IF real THEN {irq} ELSE {}))
                    \cup (IF bytes' \in 1 .. bytes - 1 THEN {1} ELSE {})
        /\ withdrawn' = FALSE
        /\ stage' = IF stage = "halted" THEN "loop" ELSE stage
        /\ served' = irq
        /\ UNCHANGED <<handlers, master_mask, slave_mask, configured_frequency_hz,
                       imr, burst, IF_flag, statusVars>>

-----------------------------------------------------------------------------
(* A foreground step: no interrupt is waiting that the CPU would take. *)
ForegroundStep(here, there) ==
  /\ stage = here /\ stage' = there
  /\ ~ IF_flag \/ Acceptable = {}
  /\ served' = IRQ_COUNT
  /\ UNCHANGED <<isr, bytes>>

(* The stages of kernel_main that boot_fail (and stop) on a failed check. *)
Check(ok, next) == IF ok THEN next ELSE "failed"

(* interrupt_dispatch of a breakpoint, the one exception that returns. *)
boot_int3 ==
  /\ ForegroundStep("int3", "irq_init")
  /\ UNCHANGED <<softVars, imr, irr, withdrawn, burst, IF_flag, statusVars>>

(* pic_init: ICW1 also clears the requests latched so far, and a line that *)
(* is already high then requests nothing.  The masks are written last.     *)
pic_init == /\ master_mask' = Master /\ slave_mask' = Slave
            /\ imr' = master_mask' \cup slave_mask'
            /\ irr' = {} /\ withdrawn' = FALSE

pic_get_mask == master_mask \cup slave_mask

(* irq_init, then the test of pic_get_mask. *)
irq_init ==
  /\ pic_init
  /\ ForegroundStep("irq_init", Check(master_mask' \cup slave_mask' = Irqs, "pit"))
  /\ handlers' = [i \in Irqs |-> NoHandler]
  /\ counts' = [i \in Irqs |-> 0]
  /\ UNCHANGED <<tick_count, configured_frequency_hz, burst, IF_flag, statusVars>>

PIT_INPUT_HZ == 1193182
PIT_MAX_DIVISOR == 65535

(* pit_configure, then the test of pit_frequency_hz. *)
pit_configure(requested_hz) ==
  LET divisor == PIT_INPUT_HZ \div requested_hz
      ok == requested_hz # 0 /\ divisor \in 1 .. PIT_MAX_DIVISOR
  IN  /\ tick_count' = IF ok THEN 0 ELSE tick_count
      /\ configured_frequency_hz' = IF ok THEN PIT_INPUT_HZ \div divisor
                                    ELSE configured_frequency_hz
      /\ ForegroundStep("pit", Check(ok /\ configured_frequency_hz' = requested_hz,
                                 "register_timer"))
      /\ UNCHANGED <<handlers, counts, master_mask, slave_mask, imr, irr,
                     withdrawn, burst, IF_flag, statusVars>>

irq_register_handler(irq, handler, here, there) ==
  LET ok == irq \in Irqs /\ handler # NoHandler /\ handlers[irq] = NoHandler
  IN  /\ ForegroundStep(here, Check(ok, there))
      /\ handlers' = IF ok THEN [handlers EXCEPT ![irq] = handler] ELSE handlers
      /\ UNCHANGED <<counts, master_mask, slave_mask, tick_count,
                     configured_frequency_hz, imr, irr, withdrawn, burst,
                     IF_flag, statusVars>>

(* With enabled true, pic_set_mask(irq, false): only the line's chip is written. *)
irq_set_enabled(irq, here, there) ==
  /\ ForegroundStep(here, Check(irq \in Irqs, there))
  /\ master_mask' = IF irq < PIC_SLAVE_IRQ_BASE THEN master_mask \ {irq} ELSE master_mask
  /\ slave_mask' = IF irq < PIC_SLAVE_IRQ_BASE THEN slave_mask ELSE slave_mask \ {irq}
  /\ imr' = IF irq < PIC_SLAVE_IRQ_BASE THEN (imr \cap Slave) \cup master_mask'
            ELSE (imr \cap Master) \cup slave_mask'
  /\ UNCHANGED <<handlers, counts, tick_count, configured_frequency_hz, irr,
                 withdrawn, burst, IF_flag, statusVars>>

boot_check_mask ==
  /\ ForegroundStep("check_mask", Check(pic_get_mask = Irqs \ {0, 1}, "sti"))
  /\ UNCHANGED <<softVars, imr, irr, withdrawn, burst, IF_flag, statusVars>>

boot_sti ==
  /\ ForegroundStep("sti", "loop")
  /\ IF_flag' = TRUE
  /\ UNCHANGED <<softVars, imr, irr, withdrawn, burst, statusVars>>

boot == \/ boot_int3 \/ irq_init \/ pit_configure(100)
        \/ irq_register_handler(0, "pit_handle_irq", "register_timer", "register_keyboard")
        \/ irq_register_handler(1, "keyboard_handle_irq", "register_keyboard", "enable_timer")
        \/ irq_set_enabled(0, "enable_timer", "enable_keyboard")
        \/ irq_set_enabled(1, "enable_keyboard", "check_mask")
        \/ boot_check_mask \/ boot_sti

-----------------------------------------------------------------------------
(* The foreground halts, or calls system_status_read.  Of what it reads    *)
(* interrupts change the two counters of the timer, modelled here, and the *)
(* keyboard's count of dropped characters, one load that nothing else in   *)
(* the snapshot depends on; the totals of the allocators and of the        *)
(* scheduler only change in the foreground.                                *)
main_loop_hlt == /\ ForegroundStep("loop", "halted")
            /\ burst' = 0
            /\ UNCHANGED <<softVars, imr, irr, withdrawn, IF_flag, statusVars>>

status_begin == /\ ForegroundStep("loop", "first")
                /\ burst' = 0
                /\ since' = tick_count
                /\ UNCHANGED <<softVars, imr, irr, withdrawn, IF_flag, snapshot>>

(* Mutant of StatusOrder: the interrupt count is read first. *)
StatusOrder_swapped == <<"irq0_count", "pit_ticks">>

(* The order in which the two counters are read. *)
StatusOrder == <<"pit_ticks", "irq0_count">>

status_read(n, here, there) ==
  /\ ForegroundStep(here, there)
  /\ snapshot' = [snapshot EXCEPT ![StatusOrder[n]] =
                    IF StatusOrder[n] = "pit_ticks" THEN tick_count ELSE counts[0]]
  /\ UNCHANGED <<softVars, imr, irr, withdrawn, burst, IF_flag, since>>

(* The copy to the caller; the locals are gone. *)
status_return == /\ ForegroundStep("return", "loop")
                 /\ snapshot' = [pit_ticks |-> 0, irq0_count |-> 0] /\ since' = 0
                 /\ UNCHANGED <<softVars, imr, irr, withdrawn, burst, IF_flag>>

system_status_read == \/ status_begin
                      \/ status_read(1, "first", "second")
                      \/ status_read(2, "second", "return")
                      \/ status_return

-----------------------------------------------------------------------------
(* The devices.  A timer edge finds its request still latched (and is lost) *)
(* or latches it; its line may drop again before the CPU acknowledges it.   *)
Device == UNCHANGED <<softVars, imr, isr, IF_flag, stage, statusVars, served>>

timer_edge == /\ burst < MaxBurst
              /\ burst' = burst + 1
              /\ irr' = irr \cup {0}
              /\ Device /\ UNCHANGED <<bytes, withdrawn>>

timer_drop == /\ 0 \in Deliverable
              /\ irr' = irr \ {0} /\ withdrawn' = IF_flag
              /\ Device /\ UNCHANGED <<bytes, burst>>

(* The line rises with the first byte and stays high until it is read. *)
key_byte == /\ bytes < MaxBytes
            /\ bytes' = bytes + 1
            /\ irr' = IF bytes = 0 THEN irr \cup {1} ELSE irr
            /\ Device /\ UNCHANGED <<burst, withdrawn>>

(* A device nobody enabled. *)
disk_edge == /\ 14 \notin irr
             /\ irr' = irr \cup {14}
             /\ Device /\ UNCHANGED <<bytes, burst, withdrawn>>

cpu == interrupt \/ boot \/ main_loop_hlt \/ system_status_read

IrqNext == cpu \/ timer_edge \/ timer_drop \/ key_byte \/ disk_edge
        \/ (stage = "halted" /\ UNCHANGED irqVars)

(* The CPU executes; nothing is assumed of the devices. *)
IrqSpec == IrqInit /\ [][IrqNext]_irqVars /\ WF_irqVars(cpu)

-----------------------------------------------------------------------------
Since(n) == (n + CounterMod - since) % CounterMod

(* Timer interrupts between the loads of system_status_read may make its   *)
(* two counters differ, but only in one direction and by no more than the  *)
(* interrupts that came: the ticks reported never exceed the interrupts    *)
(* reported, and both lie between the count at the call and at the return. *)
SnapshotConsistent ==
  stage = "return" =>
    /\ Since(snapshot.pit_ticks) <= Since(snapshot.irq0_count)
    /\ Since(snapshot.irq0_count) <= Since(counts[0])
    /\ Since(counts[0]) <= burst

(* No byte waits in the keyboard controller when irq_init writes ICW1. *)
ControllerDrained == [](stage = "irq_init" => bytes = 0)

(* Requests of the two enabled lines are served, whatever arrives during   *)
(* the set-up, however they overlap, and although a dropped line makes the *)
(* dispatcher end a request that is not in service: every byte is followed *)
(* by a keyboard interrupt and, once the flag is set, every latched tick   *)
(* by a timer interrupt, unless its own line drops first.  For the         *)
(* keyboard this depends on an empty controller at irq_init, since         *)
(* keyboard_init never reads the data port: otherwise no keyboard          *)
(* interrupt is ever taken.                                                *)
RequestsServed ==
  /\ ControllerDrained => ((bytes > 0) ~> (served = 1))
  /\ ~ ControllerDrained => [](served # 1)
  /\ (0 \in irr /\ IF_flag) ~> (served = 0 \/ withdrawn)
===============================================================================
