# A TLA+ development of ARM_M_TLM

ARM_M_TLM is a SystemC/TLM-2 virtual platform of an ARM Cortex-M core: a CPU that
fetches, decodes and executes Thumb instructions, a bus, a memory, an interrupt
controller with a SysTick timer, a trace port, a GDB server and a UART. This
directory holds TLA+ models of its stateful parts, the TLC runs that check them
on small instances, and TLAPS proofs about them. Paths below are relative to the
repository's `src/`.

## The system

| Component | State | Operations | Interacts with |
|---|---|---|---|
| CPU (`cpu/CPU.cpp`, `cpu/Registers.h`) | core registers, banked stack pointers, CONTROL, PRIMASK, one pending flag per exception kind, one slot for the number of an external interrupt, DMI caches, debug flags | `cpu_thread` (check exceptions, fetch, execute, wait 1 ns), exception entry and return, `b_transport` on `irq_line`, debug accesses | bus (fetch, data), NVIC (`irq_line`), GDBServer (run control) |
| Execute (`cpu/Execute.cpp`) | IT state (in Registers), exclusive monitor, its own DMI cache | one `execute_*` per instruction group | registers, CPU (`request_svc`, `try_exception_return`), bus |
| Instruction (`cpu/Instruction.cpp`) | none | decoding by an ordered list of masks | Execute |
| NVIC (`peripherals/NVIC.cpp`) | ISER, ISPR, ICSR, SysTick registers, a sequence number, two waits of `systick_thread` | register reads and writes, `trigger_*`, `update_interrupt_state`, the SysTick thread | bus, CPU |
| Memory (`memory/Memory.cpp`) | one array for FLASH and SRAM | HEX loading, transport, DMI grants | bus |
| BusCtrl (`bus/BusCtrl.cpp`) | device table | decode, translate, forward, restore | all |
| GDBServer (`debug/GDBServer.cpp`) | connection, run-control flags under a mutex, breakpoints | a server thread: packets, continue, step, breakpoints; `wait_for_continue` called by `cpu_thread` | CPU from another OS thread |
| InteractiveUART (`peripherals/InteractiveUART.cpp`) | 16 registers, receive queue, an input OS thread | register accesses, receive, interrupt check | `irq_socket`; not instantiated by Simulator |
| Trace, Log, Performance | output and counters | | |
| Simulator, main | construction and wiring | | all |

Hard behaviour: the SystemC kernel is cooperative, so another process runs
exactly where a process waits, and `cpu_thread` waits *inside* exception entry,
exception return and instructions; state read before such a wait is used after
it. The pending flag of an exception is cleared only after the entry, waits
included. The interrupt number travels through one slot. The SysTick thread
sleeps in two places and only one of them can be woken. Exceptions nest without
any record of the active one. The GDB server and the UART are real OS threads.

What makes each component correct:

* **CPU**: a return gives back the context its entry interrupted, at any depth, on
  either stack; IPSR names the innermost exception; no stack is leaked; an
  EXC_RETURN value never lives outside its handler; NMI is taken; a missing
  vector escalates.
* **NVIC**: no pending interrupt disappears or is held back but by a lower one; the lowest number goes first; a
  running timer is always scheduled and ticks for ever; COUNTFLAG belongs to an
  enabled timer.
* **Composition**: each side keeps what the other assumes; no interrupt is entered
  that was not sent, or twice; ticks and interrupts are served.
* **Decoder and dispatch**: each instruction is decoded to what it was assembled
  from, whatever stands around it and on every core that has it, and reaches the
  code that computes it.
* **Execution**: conditions decide what the integers call for; two instructions
  that must agree do; calls nest; an IT block runs what the architecture says; what
  is stored is loaded back; a store-exclusive is exclusive.
* **Memory and bus**: every path (three cached direct pointers, the bus, the
  debugger) shows one memory, filled as the HEX file says.
* **Run control**: a reported stop holds the target until it is released; a resume
  is not lost; a step stops again.

## Modules

| Module | Models |
|---|---|
| `CortexM` | exception numbers, the order of `check_pending_exceptions`, EXC_RETURN, and `ReceiveException`: what `CPU::b_transport` does when a number arrives on `irq_line` |
| `CPU` | `cpu_thread` with exception entry and return and the banked registers |
| `ContextNesting` | abstract specification: exceptions push and pop whole contexts |
| `CPUInv` | the inductive invariant of `CPU` |
| `CPUProofs` | proofs about `CPU`, and that it implements `ContextNesting` |
| `NVIC` | the interrupt controller and the SysTick thread |
| `NVICProofs` | proofs about `NVIC` |
| `ExceptionSystem` | CPU and NVIC composed over the shared variable `irq` |
| `SystemProofs` | proofs about `ExceptionSystem`: it implements `CPU` and `NVIC` |
| `Decode` | `decode` with the ordered tests of both lengths, on every core |
| `Dispatch` | the switch of `execute_instruction`, and the types it has no case for |
| `Thumb` | a reference assembler, written from the bit patterns in the decoder's comments |
| `Pipeline` | fetch, decode and dispatch over a program, from address to address |
| `PipelineProofs` | proofs about `Pipeline`: programs of every length, the agreement of cores, what reaches no handler |
| `Alu` | sums, shifts, conditions, saturation and lanes, at any word length |
| `Execute` | the handlers, one action each, on registers, flags, IT state, monitor and memory |
| `ThumbPrograms`, `ThumbIdentities` | programs for `Execute` and what they must compute |
| `ExecuteProofs` | proofs about the sums, differences, flags and conditions of `Alu`, and about the programs of `ThumbPrograms` that compute in registers, one lemma for each kind of instruction |
| `TransferProofs` | the same for the programs of `ThumbPrograms` and `ThumbIdentities` that load and store: addressing modes, exclusive accesses, subroutines |
| `MemoryBus` | Memory, BusCtrl, the HEX loader, the direct pointers and the debugger's memory packets |
| `FlatMemory` | abstract specification: regions of bytes |
| `MemoryProofs` | proofs about `MemoryBus`, and that it implements `FlatMemory` |
| `DebugControl` | run control: the simulation thread, the server thread and a client |
| `RunControl` | abstract specification: a stopped target stays until it is released |
| `DebugProofs` | proofs about `DebugControl`, and that it implements `RunControl` |
| `MC*` | the instances TLC checks |

### CPU

`irq` is the interface between CPU and NVIC: the six `m_*_pending` flags as a set
and the slot `m_pending_external_exception`. The steps of `cpu_thread` are cut
where it waits and `irq` is read before or written after:

| phase | code | action that leaves it |
|---|---|---|
| `check` | top of the loop | `CheckPendingExceptions(f)` picks the first flag and, for an interrupt, reads the slot; `NothingPending` |
| `stacking` | `push_exception_stack_frame` | `Stacking`: the frame, SP, LR, IPSR, SPSEL |
| `vectoring` | the read of the vector | `Vectoring`: PC or escalation to HardFault, then the flag is cleared |
| `execute` | `fetch_instruction` | one instruction |

Other waits (between the words of a frame, inside an instruction) need no phase
of their own: other processes change only `irq`, and between two cuts the CPU
neither reads nor writes it. `Raise(e)`, the arrival of an exception, is enabled
in all phases. Instructions that matter to exceptions are actions of their own
(`BxLr`, `PopPc`, `PushLr`, `BranchLink`, `Svc`, `MsrPsp`, `MsrControl`,
`SetPrimask`, `DeviceStore`); all others are `Plain`, which changes PC and the
scratch registers in any way. `activations` is a history variable: one record per
exception entered and not yet returned from, with the context it interrupted.

Abstractions: words are small naturals; R0-R3 and R12, which are stacked and
unstacked alike, are one word, so a frame has four words; xPSR is its IPSR field;
an address counts words; EXC_RETURN values are scaled to eight bits. The IT state
is not part of the modelled context.

Assumed of the program, as the calling convention has it: it sets PSP up in
Thread mode on the main stack before it selects it, a handler does not write the
stack pointers by MSR, pushes at most one word (its LR) and pops it before it
returns, and does not overwrite other frames. Thread code that pushes, and an
RTOS that switches stacks, are not modelled.

### NVIC

Every access of a register is atomic, because `b_transport` does not wait; it ends
with `UpdateInterruptState`. `SysTickWake` is the event firing, `SysTickTimeout`
the end of the delay. `stale` says that `m_systick_seq` has moved since the thread
sampled it. `Access` forbids a register access between a notification with
`SC_ZERO_TIME` and its delta cycle: every access of the CPU costs time.

### ExceptionSystem

`Core` is the CPU away from the NVIC, `Store` joins one store of the CPU with one
register write of the NVIC, `SysTickThread` runs at any wait of the CPU.
`ImplementsCPU` and `ImplementsNVIC` say that the composition is a legal execution
of each component specification, whose environment is thereby justified: `Raise`
and `DeviceStore` of CPU allow all that NVIC does, and `CpuSide` of NVIC allows
all that CPU does. `owed` is a history variable: interrupts sent and not entered.

### Decode, Dispatch and Pipeline

`Decode16` and `Decode32` are the cascades of mask tests of `decode`, in their order,
as `CASE` or as sequences of conditionals; a core enters through `SupportsV7` and
`SupportsV7E`, the two switches all feature macros used there reduce to. A result is
a record with the fields execution reads. `Handler(core, type)` is the member that
`execute_instruction` calls, with the cases that fall through listed where the
code puts them; `Ignored` has the types that decode produces and no core handles. A step of `Pipeline` is one iteration of `cpu_thread`: fetch, decode,
dispatch, advance by the length or branch. `Thumb` pairs instructions with encodings
and knows nothing of the masks: the decoder is compared with something that was not
derived from it. `ProgramsAssumption` says what a program is: halfwords whose last
instruction ends where they do, so that fetching never runs out of them half-way.

### Execute

`Runs(handler)` is the gate of every handler: the instruction at PC, not skipped by
the IT block, dispatched to it. `Finish` lets `cpu_thread` move PC, `Leave` is a
handler that reports a new one. `Alu` computes carry and overflow from truncated
results, as the code does. Memory is a function from addresses to bytes, which
`MemoryBus` implements. Where the code's value is undefined (`LSR` and `ASR` by
an immediate 0) the result is any of those a build can give.

`ThumbPrograms` states what programs must compute over integers, never over flags:
a compare and a condition against `<` and `<=`, two-word sums against sums,
calls against multiplication, IT blocks against ITSTATE as the architecture keeps
it. `ThumbIdentities` states that two computations of one value agree. A program is
laid from address 0 (`Laid`) and bears the name it was built from; `NamesAssumption`
ties `Programs` to the names of the module.

### MemoryBus

`store` is `m_memory`, in which SRAM follows FLASH. `dmi[u]` is the direct pointer of
a user: instruction fetch, the CPU's word accesses, and loads and stores. An access
uses its pointer if that covers it, else asks for a new one, else goes through the
bus. `reply` separates accesses: the answer is taken before the next one begins.
`HandleReadMemory` and `HandleWriteMemory` are the `m` and `M` packets, byte by byte.
An access that leaves its region is allowed and only its part inside is promised,
because the store goes on behind FLASH.

### DebugControl

One step of the model makes at most one access to shared state. `cpu` and `server`
are program counters:

| thread | phases | code |
|---|---|---|
| simulation | `poll`, `boot`, `stillborn` | `wait_for_connection`, with its timeout, and the pause at start |
| | `top`, `parking`, `locking`, `waiting`, `unparking` | the pause test of `cpu_thread` and `wait_for_continue` |
| | `running`, `hit`, `execute`, `executed`, `stepped`, `unstep`, `pause` | breakpoints, the instruction, the end of a step |
| server | `accept`, `accepted`, `hello`, `closing`, `closed` | the session |
| | `receive`, `edit`, `lock`, `mode`, `unpause` | one packet |

`mutex` is `m_debug_mutex`; a section that holds it over several accesses to unlocked
state is several steps. `Wake` is the condition variable, notified or spurious.
`released` is a history variable: no reported stop is in force. The client is the
environment and speaks the remote protocol.

## Runs

| Run | Expected | What it shows |
|---|---|---|
| `CpuContext` | pass | with two nested activations, functions called from handlers, an unvectored SVCall, NMI and SysTick at any wait, PendSV and IRQ1 from stores: context, IPSR, stacks, EXC_RETURN, the refinement of `ContextNesting`, and the inductive invariant |
| `CpuProgress` | pass | NMI is taken; a missing vector ends in HardFault |
| `Nvic` | pass | safety of the controller and the timer with IRQ0-IRQ2, and that a steady timer ticks |
| `System` | pass | the composition, its refinements, and that ticks and interrupts are served |
| `NvicReprogram` | violation | a timer reprogrammed during its period dies |
| `SystemLostIrq` | violation | a second interrupt overwrites the first in the slot |
| `Pipeline` | pass | what `Thumb` assembles for M0+, M3 and M4 (all but the encodings that cannot be decoded, see below) is decoded as assembled, dispatched, and decoded alike by later cores |
| `PipelineM4` | violation | on M4 the T32 register forms of data processing run the handler of the parallel additions, which ignores them |
| `Execute` | pass | conditions, wide arithmetic, calls, IT blocks, transfers, identities and exclusive sequences on boundary values; every program ends |
| `Memory` | pass | the refinement of `FlatMemory` over every order of accesses, and the image of HEX files |
| `Debug` | pass | the refinement of `RunControl` over every interleaving of two threads and a client; a resume that finds the CPU waiting is served |
| `DebugLostStep` | violation | a step between a stop reply and the CPU's wait is forgotten |

The violations are disagreements between the code and its comments or README,
quoted in `PROJECT.json`. Others were met and are not checked; the models follow the
code in each of them.

* Exceptions: PRIMASK is written and never consulted (`cpu/CPU.cpp:328`); any
  exception preempts NMI (`cpu/CPU.cpp:331`); PendSV is commented as lowest priority
  and tested before external interrupts (`cpu/CPU.cpp:359`); a tick that arrives while
  SysTick is being entered is merged with it (`cpu/CPU.cpp:368`; `TickIsTaken` leaves
  it out); the IT state is neither
  stacked nor cleared, and the exclusive monitor survives entry and return.
* NVIC: IRQ0 is never delivered, and while it is enabled and pending it holds back all
  other interrupts, because its number means "none" (`peripherals/NVIC.cpp:317`;
  `README.md:355` speaks of IRQ0-IRQ31); a write of STK_CTRL
  keeps COUNTFLAG though the comment says it is cleared (`peripherals/NVIC.cpp:172`);
  ICSR keeps reporting a PendSV that was taken (`peripherals/NVIC.cpp:121`); two
  interrupts pended by one write need a second write (`peripherals/NVIC.cpp:315`).
* Decoder: SMULL is looked for with 1111 in a field where its encoding has none; the
  offset of a 32-bit conditional branch misplaces its top bits; SXTH.W and its
  kin are not decoded on M4; SSAT and USAT with ASR not on M3; the space of CBZ on M0
  decodes as ADD SP or PUSH; LDRB, LDRH, LDRSB and LDRSH literal, LDRSB and LDRSH with
  write-back, SEV.W, WFE.W, the coprocessor and most DSP types have no case in the
  dispatch (`Ignored` in `Dispatch` is the whole list). `Thumb` has no line for the
  encodings that cannot be decoded, and `AssembledIsHandled` names `Unhandled`: of what
  `Thumb` assembles, only LDRSB and LDRSH with write-back are not executed.
* Execution: MOV, logic and MUL clear C and V; a 16-bit shift by 0 clears C; ADD and
  MOV to PC are undone by `cpu_thread`; STM with its base in the list does not write
  it back; T32 LDM and STM always do; post-indexed LDRD and STRD never; LDM of PC does
  not look for EXC_RETURN; ordinary stores leave the monitor alone; the borrow of the
  16-bit SBC is tested against a sum that wraps (`LostBorrow` in `WideArithmetic`);
  SDIV of the least integer by -1 is a signed overflow of the host, and no start does it; SSAT and
  USAT shift logically; ASX and SAX do not exchange lanes; UQSUB and UHSUB lose the
  borrow (left out of `LaneNames`); GE is never set; instructions in IT blocks set
  flags; the IT masks 5, 9, 10 and 11 are ignored.
* Memory: an access or a record that crosses the end of flash goes on in SRAM; Flash
  is called read-only (`memory/Memory.cpp:216`) and `b_transport` writes it; the
  checksum of a HEX record is not compared; address + size - 1 wraps at the top of
  the address space (excluded by `Begin`).
* Debugger: continue at a breakpoint hits it again (`cpu/CPU.cpp:75`); a disconnection
  does not notify a CPU that waits (`debug/GDBServer.cpp:161`); a client that
  reconnects is told of a stop while the CPU runs; `m_breakpoints` is unprotected;
  Ctrl-C and a second packet in one `recv` are dropped.

### Bounds

* `MaxNest` bounds the activations on the stacks (2 in all runs). The code has no
  bound; the guard is on the environment: `Room` lets an exception arrive only if
  the stack still has room for it and for all it can cause, so that the bound
  never blocks `cpu_thread`. Two activations contain every kind of entry: from
  Thread mode on either stack, and from Handler mode. The proofs hold for all
  depths.
* `Code` has two addresses, and EXC_RETURN values are three distinct words, so that
  a wrong LR or PC is visible; `Values` has one word; contexts of different
  activations differ by LR, PSR and SP.
* Interrupts 0, 1 and 2 in `Nvic`: IRQ0, which the code treats as none, and two to
  order. Interrupts 1 and 2 in `System`: two that compete for the slot.
* `Loads` is zero and one nonzero value: the count matters only in being zero.
* `CpuContext` uses `VIEW LiveView`: memory words below the stack pointers are dead.
  No action reads a word below the stack pointer of its stack before `Stacking` or
  `PushLr` has written it, so states that differ only there have the same future.

* `Pipeline`: M0+, M3 and M4 stand for the three values of the two switches (M0, and
  M7, M33, M55, differ from them in neither). Programs of one instruction have every
  form with both ends of every field; three in a row come from forms whose halfwords
  resemble each other; every 16-bit word stands alone before a zero.
* `Execute`: words of 8 bits, halfwords of 4 and bytes of 2. The handlers are the same
  at any length; what matters is that carries leave the word, that bytes and halfwords
  differ from it, and that shift amounts go beyond its length. `Corners` has both
  ends of the signed and the unsigned range and values between.
* `Memory`: flash of three bytes, SRAM of two, a gap, a peripheral beyond the window,
  words of two bytes: small enough for every store, and each access can be
  inside, across the end of, or outside each region. The proof holds for all sizes.
* `Debug`: two sessions, so that one begins in every state the other left behind; two
  addresses, one of which can carry a breakpoint; two unread packets. The proof of
  the refinement holds for all numbers; the liveness properties are checked here only.

### Fairness

`FairSpec` of CPU and of ExceptionSystem assumes weak fairness of the whole of
`cpu_thread` only: the kernel resumes it after every wait, each of which is for a
finite time, and it always has a next step. No instruction is fair on its own: the
program may loop. `FairSpec` of NVIC assumes that a notified event fires and a
delay ends. No arrival, store or tick is assumed to happen. `Spec` of
DebugControl assumes weak fairness of each of the two threads as a whole, which the
operating system gives; a client may stop talking, a time-out and a spurious wake-up
need not happen, and the mutex may be taken whenever it is found free by its thread.
`Spec` of Execute assumes that `cpu_thread` goes on.

## Proofs

TLAPS proves, for all constants that satisfy the named assumptions
(`CodeAssumption`, `VectorAssumption`, `StackAssumption` of CPU; `IrqAssumption`,
`LoadAssumption`, `FlagAssumption` of NVIC; `MemoryAssumption` of MemoryBus;
`DebugAssumption` of DebugControl; `SystemAssumption` of ExceptionSystem;
`CoresAssumption` and `ProgramsAssumption` of Pipeline: in a program each stretch of
memory belongs to at most one instruction; `WordBitsAssumption`, `PowerAssumption` and
`BytesAssumption` of Alu, the last two facts about powers of two that the provers do not
know; `ExecuteAssumption` and `InitialAssumption` of Execute: the registers start with
words, which takes eight bits; `NamesAssumption` of ThumbPrograms and
`ExclusivesAssumption` of ThumbIdentities: what the programs are called; `RamAssumption`
and `CallsAssumption`: memory has the bytes they transfer and the 32 bytes of their stack,
and the recursive program starts with a counter for which those suffice). The names of types are put together from an operation
and a form, and the provers do not know that strings so made are told apart:
`IgnoredAssumption` and `SpellingAssumption` of Dispatch, `TypesAssumption` and
`TransfersAssumption` of ThumbPrograms, and a part of `ExclusivesAssumption` and of
`CallsAssumption`, are facts of that kind about the tables of the model, without constants. TLC evaluates every
assumption in a run:

* `CPUProofs`: `Spec => []IInv`, and from it `TypeOK`, `IpsrNamesInnermost`,
  `StacksBalanced`, `NoStrayExcReturn`, `ReturnRestoresContext`, and
  `ImplementsNesting`, the refinement of `ContextNesting`.
* `NVICProofs`: `TypeOK`, `SeenTimerIsScheduled`, `CountflagOnlyWhenEnabled`,
  `PendingIrqNotLost`, `LowestNumberFirst`.
* `DebugProofs`: `TypeOK`, `IInv`, and `HeldUntilReleased`, the refinement of
  `RunControl`.
* `MemoryProofs`: `TypeOK`; `ImplementsFlat`, the refinement of `FlatMemory`; and, for a
  HEX file whose records fit in their regions (`RecordsFit`), `LoadedImage`.
* `SystemProofs`: `SlotInv`, `NoSpuriousIrq`, and the refinements `ImplementsCPU` and
  `ImplementsNVIC`.
* `PipelineProofs`: `TypeOK`, `CoresAgree` for all halfwords, and for every stream of
  instructions that PC stays at their starts (`StreamInvariant`), that each is read with
  its own halves (`ReadWholeCorrect`), and `DecodedAsAssembled`, given that each encoding
  alone is decoded as it was assembled (`Assembled`). For all halfwords, an instruction falls
  into the default of the dispatch exactly if its type is in `Ignored`
  (`OnlyIgnoredCorrect`), and so `AssembledIsHandled`, given that no encoding alone is
  decoded to one of those (`Executable`).
* `ExecuteProofs`: for words of every length, the carry and overflow that the code computes
  from truncated results are those of the exact sum or difference (`AddExact`,
  `AddCarryExact`, `SubtractExact`, `SubtractCarryExact`), the 16-bit SBC is wrong for
  exactly one pair of operands (`SubtractCarryLosesOneBorrow`), and the conditions
  after a comparison order its operands (`ConditionsOrder`). The four flags together tell
  the sign and size of the exact result (`SumFlagsExact`, `DifferenceFlagsExact`), and
  SDIV with MLS divides (`SignedQuotient`). For all operands, `ComparesDecide`,
  `BlocksFollowItState` and `WideArithmetic`, with the two theorems on numbers of two words
  that the third rests on, `PairSum` and `PairDifference`.
* `TransferProofs`: for words of every length, all operands and any memory that holds the
  addresses, `TransfersRoundTrip`, `StoresAreExclusive` and `CallsReturn`.

**The CPU argument.** That a return restores the context says nothing about where
the context was kept. `IInv` does: `LayoutInv` places the frame of every activation
(the first on the stack of the interrupted thread, each next one directly below
what the handler before has pushed), `FramesIntact` says that memory still holds
each context there, `ContextInv` relates each context to the activation it
interrupted (its IPSR, its LR, its stack), and `RegisterInv` ties LR, IPSR, MSP and
PSP to the innermost activation. `Stacking` writes only below all live frames;
`PushLr` too; a return reads exactly the frame of the innermost activation, because
LR or the popped word is its EXC_RETURN value and the stack pointer is back at its
frame. `StackAssumption` gives every activation its frame and one pushed word.
The refinement then needs only that entry appends the interrupted context, return
takes the last one, and everything else keeps IPSR and the list.

**The NVIC argument.** `RunningTimerIsEnabled` (a delay that will not be ignored
belongs to an enabled timer) strengthens the two timer invariants. `WaitsInOrder` says
why an enabled and pending interrupt has not been sent, and is inductive: only a write
changes the slot, or what is enabled and pending, and each write ends with
`update_interrupt_state`. The action properties follow from `UpdateEffect`: whatever was
written, at most the least enabled pending interrupt leaves ISPR, it is then in the slot,
and none is left behind otherwise. That `CHOOSE` finds a least one rests on the
well-foundedness of the natural numbers.

**The run-control argument.** That no instruction is executed during a stop does not
follow from `paused`: `cpu_thread` sets it after it has reported the stop, and the
server clears it without cpu_thread's knowledge. `Held` says where `cpu_thread` can be
while a stop is in force (on its way to `wait_for_continue`, or in it), that from the
top of the loop on `paused` is set, that in the wait no request is there, and that
the server has not begun to resume. `SessionPhases` keeps `m_debug_mode` from being
found false. `HeldSimulation` and `HeldServer` go through the steps of the threads;
`StepControl` then needs only that `Execute` and the search for a breakpoint are in
none of those places.

**The memory argument.** `TypeOK` carries it: a cached pointer is always none, that of
flash or that of SRAM, whole. `Offset` maps the mapped addresses one to one into the
store (`OffsetRange`, `RegionApart`, `SameDistance`), and an address a pointer covers
is found at the same offset (`DirectOffset`). `ReadAnswers` and `WriteStores` say so of
all three ways of an access, and each kind of access then maps to one of `FlatMemory`
(`ReadFlat`, `WriteFlat`, `ReadPacketFlat`, `WritePacketFlat`).

**The system argument.** `SlotInv` says that a set interrupt flag stands for the
interrupt in the slot, and that this one is still owed its handler: a later interrupt
replaces the slot and sets the flag again, and taking the flag takes the slot's. With
it an entry always finds its interrupt in `owed`. `AccessSends` says what a register
access leaves on `irq`: nothing, PendSV, an interrupt the NVIC had pending, or both, so that
each access is an environment step of `CPU`; and every step of the CPU
only takes from `irq`, which `NVIC` allows. The bound on nesting in the composition
is the `Room` of `CPU`.

**The arithmetic argument.** A sum or difference of two words is cut once at most
(`LowIs`), so the truncated result differs from the exact one by nothing or by the
number of words. The rule of signs for the overflow then follows by cases over the
halves that the operands and the result lie in (`SumOverflow`, `DifferenceOverflow`).

**The loader argument.** A byte of memory may be written by several records, and its
address depends on the last extended record before. `LoadInv` says that the byte is
what the last record before the current line says of it, and otherwise zero, and that
the base is that of the last extended record; one line adds itself as the last one
(`LoadData`, `LoadExtended`, or a record that is skipped).

**The pipeline argument.** That an instruction is decoded as it was assembled needs that
decode never starts at a second half. `StreamInvariant` keeps PC at the start of an
instruction or at the end of the program: each iteration advances PC by the length that
the first halfword shows, which is that of the instruction there, and a branch goes to a
start. So decode gets the instruction's own halfwords, and what holds for one encoding
holds in every stream. `CoresAgree` goes through the groups of patterns that decode
tries: a later core has at least the features of an earlier one, and outside the space of
CBZ and CBNZ a pattern they guard takes nothing that an earlier core decodes.

That every type has either a handler or a place in `Ignored` (`Known`) is shown along
decode, group by group: one lemma for each table or arm says which types it can give,
and which of the two each of them has, on the cores that enter it. What the code joins
from parts (an operation and a form, a prefix and a lane pattern) ranges over products
of tables, and `SpellingAssumption` says where those lie. No type has both
(`IgnoredAssumption`). For this the halfwords are arbitrary: a program need not be
assembled from anything, and data may stand between instructions.

**The execution argument.** The programs run straight on but for the branches and skips
that are their subject, so the inductive invariant is given position by position
(`DecideInv`, `ItInv`, `WideInv`): at each value of PC it says what the registers, the
flags and the IT state hold, in terms of the operands. There is a lemma for each kind of
instruction that says what it changes, and one step per position. What remains is
arithmetic and is proved apart:

* In `ComparesDecide`, `SumFlagsExact` and `DifferenceFlagsExact` turn the condition that
  `check_condition` evaluates into the order of the operands as integers.
* In `BlocksFollowItState`, the slot the code counts up to and the shifted bits of ITSTATE
  are compared for each mask in `ItLength`. The instructions in the block set no flags, so the
  condition that was evaluated when the block was entered still holds.
* In `WideArithmetic`, a number of two words is its high word times `2^WordBits` plus its
  low one. The low words are cut, and what is lost is in the carry; the high words,
  with it, are cut once more (`PairSum`, `PairDifference`). Products are cut to two words
  once at the end (`Truncates`), which is why the halves of UMLAL and SMLAL may be added
  before. SDIV truncates to zero, so the remainder that MLS computes, itself cut to a word
  (`LowLoses`), is smaller than the divisor. `InitialAssumption` keeps the sum of
  SMLAL from leaving two words. `ExecuteDivide` does not divide the smallest number by -1,
  which is undefined in C++ (see above), so the theorem says nothing of that case; for the
  16-bit SBC, the property itself leaves out the lost borrow.
* In `TransfersRoundTrip` (`TransferFor`) the twelve addressing modes come down to one lemma
  for a store and one for a load (`StoreAccesses`, `LoadAccesses`): which address is
  accessed and which base is left. A load is a sum of bytes, of which `Store` wrote
  as many as the size has; `StoredIs` puts them together again, by quotients and
  remainders of powers of a byte, to what was stored, cut to its size.
* In `StoresAreExclusive` (`ExclusiveStage`) each position of the nine sequences says what
  the monitor holds: the place and size of the last exclusive load, or nothing after a
  store, a CLREX or a program's start. A store-exclusive compares all three, so only
  the sequences whose last exclusive access is the matching load store. The loop that
  retries never does so here, because nothing comes between its load and its store.
* In `CallsReturn` (`CallInv`) the programs loop and recurse, so a position alone does not
  say what the registers hold. For the loop, `Turning` relates them: R4 is R0 times what R1
  has counted down so far, modulo `2^WordBits`. For the recursion, `RecursiveStage` says how
  deep it is (`Deep(d)`): `Frames` describes the d frames on the stack, each R4 and a return
  address, the innermost ones into the subroutine and the outermost into the caller, and R2 is
  the product for the calls that have returned. What a prologue stores is found again because
  `StoreAll` puts the registers of a list one word after the other in ascending order
  (`Place`), and two stores to different words do not meet (`StoreAllHolds`). PC is popped
  like any other register, with bit 0 cleared afterwards. The addresses of the instructions
  follow from their lengths (`Follows`, `At`), and the programs that share a loop or a
  caller share the lemmas about it. The invariant also keeps R5 to R12 and all memory
  below the stack, which the subroutine must not touch at any depth.

Only model-checked:

* `Assembled` and `Executable`, the hypotheses of `DecodedAsAssembledCorrect` and
  `AssembledIsHandledCorrect`, for the encodings of the runs: they are about fixed bit
  patterns, which the provers do not compute.
* `TypeOK` of Execute: results of UBFX, BFI, RBIT and the rest are sums over sets of bits, whose
  bounds need induction over data. Its last part, that PC stays in the code, is proved for
  the programs of `CallsReturn` only.
* `AlternativesAgree`, which compares folds over sets of bits.
* Liveness (`NmiIsTaken`, `UnvectoredEscalates`, `SteadyTimerTicks`, `TickIsTaken`,
  `SlotIsServed`, `WaitingIsResumed`, `WaitingStepStops`, `Terminates`), which needs
  fairness and ENABLED.

## Not modelled

* InteractiveUART: `CMakeLists.txt` does not compile it and nothing instantiates it.
  What calls it, and beside which devices, cannot be read off the repository.
* Trace, Log, Performance and `main` keep no state that behaviour depends on;
  Simulator is construction code except for the wait for the debugger.
* The framing, acknowledgement and checksums of remote packets, registers by `g`,
  `G`, `p`, `P`, and queries, which are answered one at a time and change no run-control
  state.
* MRS and the barriers, which only copy a register or wait; the disassembly that
  execution logs.
* `CPU` has no IT state and no monitor, and `Execute` no exceptions. The
  register part of an instruction cannot tell that it was interrupted between
  instructions, as `ReturnRestoresContext` says for the registers that are stacked;
  for the IT state and the monitor it can (see above).
* Addresses in CPU count words, so the clearing of bit 0 (`& ~1`) is in `Execute`
  only. Failing bus accesses, which the CPU logs and ignores, answer zeros in
  `MemoryBus`.

## Plan

Next to be proved, encoding by encoding: `Assembled` and `Executable`, which would free
`DecodedAsAssembledCorrect` and `AssembledIsHandledCorrect` of their hypotheses.

What is left to model, in this order:

1. Exceptions between the instructions of `Execute`: the IT state and the monitor as
   part of the context that CPU preserves or does not.
2. Framing of the remote protocol: acknowledgements, retransmission, several packets
   in one `recv`.
3. The UART, once a platform contains it.
