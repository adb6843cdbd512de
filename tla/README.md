# Virtual Micral N: a verification project

The repository emulates a Micral N of 1973: an Intel 8008, the cards around it on a
backplane (the Pluribus), a console, a serial line and a disk. This directory holds
TLA+ modules translated from its C++ sources, the TLC configurations that check them
and TLAPS proofs. `PROJECT.json` lists, for every definition, the lines it stands for.

## 1. The system

Everything happens in one thread (two in the command line), in a discrete-event loop. A
`Schedulable` (clock, CPU, one-shot signal or action) has a date; the `Scheduler` runs the
earliest one. A device that is run sets signals (`OwnedSignal`) and values (`OwnedValue`)
that it owns; setting one calls the subscribers of the signal at once, in the order of
subscription, and these may set other signals and move the dates of other devices, while the
first is still being stepped. The difficulty is there: not in threads, but in callbacks that
run in the middle of another device's step, in edges with the same date, and in state
latched on one edge and used on another.

| component | state | operations | talks to |
|---|---|---|---|
| Scheduler (`emulation_core`) | the pool, its sorted prefix, the date | `add`, `step`, `change_schedule` | every device |
| DoubleClock, Clock | next edge | `step` | CPU, cards |
| CPU8008, AddressStack, GeneralAddressRegister | T-state, cycle, decoded instruction, registers, flags, ring of PCs | two clock phases, READY, interrupt, data pins | Processor Card |
| InterruptController, AutomaticStart, InterruptCircuit | requests, mask, enable, protection, interrupt applied | phase 1, T'3, SYNC, changes of the CPU state | CPU pin, bus lines |
| ProcessorCard | T1I flag | jams the RST, drives T lines and READY | Pluribus, CPU |
| ConsoleCard | mode, step mode, trap, substitution, pending INIT | keys, SYNC, phase 2 | READY, SUB, MD bus, INIT |
| DataOnMDBusHolder, IOCommunicator | latched data, ownership of the bus | T2, T3, SUB | MD bus, READY |
| MemoryCard, MemoryPage | memory, masked ROM | T2, T'3, phase 2 | MD bus |
| IOCard, SerialCard | terminals, acknowledgements, input queue | INP, OUT, SYNC | TTY |
| StackChannelCard | memory, pointer, counter, handshake | push, pop, T3, transfer, LOAD, count | disk controller |
| DiskControllerCard, DiskReader, VirtualDisk | status, direction, track, sector, index | four commands, transfer, end | channel |
| cli (TextInput, VirtualTTY) | a string shared by two threads, what waits to be sent, what is printed | read a line, step, flush, emit, print | SerialCard |
| disassembler | an address in a file | print a line | |
| Simulator, gui, recorders | | build, run, display | |

What makes each of them right:

- *Scheduler*: the earliest device runs, nothing scheduled is ever lost by a swap in the
  unsorted part of the pool, the device being stepped stays where the reference points.
- *CPU*: every opcode has its T-states and cycles, whatever WAITs and interrupts; an
  interrupt is taken between instructions and never forgotten; whole instructions do what
  the instruction set says, with the right bus cycles; a jammed instruction leaves PC.
- *Interrupts*: a request is kept until its RST is jammed, the CPU and the controller
  agree on which interrupt is in progress, the mask is what the program wrote, INIT works.
- *Channel and disk*: the bytes of a sector arrive once, in order, as many as asked; a
  transfer ends, and the program learns it.
- *MD bus and console*: one owner at a time, one step per press of ADVANCE.
- *Memory*: a flat array behind a boot ROM that goes once; one card at an address.
- *Serial line and keyboard*: no character lost, repeated or reordered, either way, and
  the status the program polls is true.
- *Disassembler and disk image*: the listing has the bytes that the CPU fetches; the
  checksum is the one the program computes from what it reads.

## 2. The modules

### Scheduler
`EventLoop.tla` is the abstract specification: a set of dates, the earliest is run.
`Scheduler.tla` is `Scheduler.cpp`: `pool` is the vector of entries with their cached
dates, `scheduled_count` the length of the sorted prefix. `step` is cut in `BeginStep`
and `EndStep` because callbacks run in between: `Launch` (a one-shot) and `Retime` (the
CPU's date moved by the clock) call `ChangeSchedule` while `stepping` is set. `std::sort`
is not stable, so a sort is any sorted permutation of the prefix.
`SchedulerProperties.tla` states the properties and the refinement mapping;
`SchedulerProofs.tla` proves them. `SchedulerMC.tla` adds the fairness and `patient`,
under which liveness is checked.

### CPU
`Instructions8008.tla` is the decoding table and the actions of every cycle.
`CPUControl.tla` is the sequencing of `CPU8008.cpp`: `phase` is the next clock edge or
event the CPU acts on, so READY and the interrupt line may move between any two edges.
`ALU8008.tla` and `AddressStack.tla` are the arithmetic and the ring of program counters;
`CPU8008.tla` adds the registers, flags, memory and bus to the actions of `CPUControl`.
`Isa8008.tla` is the abstract specification, one instruction per step, written from what
the program must see; `CPU8008Properties.tla` maps the CPU to it: the state at the last
completed instruction (`done`) with its bus cycles. `CPU8008MC.tla` has the values of the
run; `CPU8008Proofs.tla` proves the sequencing and then the refinement, from what
`InstructionProofs.tla` proves of the tables.

### Interrupts
`Interrupts.tla` EXTENDS `CPUControl` and adds the cards around the CPU. Each action of
the CPU is conjoined with the handlers that its edge calls, in their order:
`OnPhase1` (automatic start, then controller), `CardsEnterState` (acknowledgements,
protection, T'3 and the decoding of MAS, DMS, REI and OUT 17 on the bus), `CardsDataIn`
and `CardsPhase22` (the jam, on both falling edges of phase 2), `CardsSyncFalls` (the
mask). `PressInterrupt`, `RtcTicks`, `ConsoleHolds` and `ConsoleAdvances` are the world
outside. `clash` is the exception of `OwnedSignal` when two owners meet.
`InterruptsProofs.tla` proves its invariants and action properties.

### Channel and disk
`ChannelDisk.tla` is the Channel card, the disk controller and the wires between them.
The program's commands are actions that happen at the fall of T2; `T3Falls` starts the
handshake of a byte; a `ScheduledSignal` is idle, launched or high, and its rise is an
action of its own (`AvailableData`, `ChangePointer`, `ChangeCounter`). The pulses last
100 ns and the falls of T2 and T3 are more than 1 us apart, which is why the commands
find them idle (`Quiet`, also an assertion of `launch`). A byte is the place it comes
from. `SectorCopy.tla` is the abstract specification: a head that copies bytes to a
pointer while a count lasts; `ChannelDiskProofs.tla` proves that the cards implement it.
`SectorCopy` keeps what the code decides, such as a seek of the sector
already under the head, which does not rewind it. In the refinement mapping the head is
behind by one while a byte is in flight between the two cards.

### MD bus and console
`DataBus.tla` EXTENDS `CPUControl` with the holders of the cards (`latched_data`,
`owns_bus`, the delayed `place_data` as `placing`), READY's owner, and the console's
substitution. `T2Falls` makes the addressed card answer, `PlaceData` and `ConsolePlaces`
are the scheduled actions of their own, `T3Falls` releases. The clock waits for them
(`Settled`): the longest delay is shorter than the time to the next edge. `clash` is any
exception: of an owned signal or value, or of an action that is scheduled twice.
`Console.tla` adds the keys and the hold of READY at T2 (step modes, trap, INIT). Each key
is an action; it may be pressed at any moment at which it makes a difference. For the data
switches there are two in one substitution: SYNC falls, and 20 ns after SUB has risen the
console reads them again, so they may move between the two. `answer`,
`shown`, `passed` and `trapped` are histories for the properties of
`ConsoleProperties.tla`. `ConsoleProofs.tla` proves its invariants and action properties.

### Terminal
`Terminal.tla` has the two threads of the command line and the path of a character: the
keyboard's thread (`WaitsForEmpty`, `GetLine`, `StoreLine`: the first one looks at the
shared string without the lock), the main loop (`Step`, `LineReceived`, `TakeLine`,
`Flush`, `Emit`), the serial card with its queue and its status, its acknowledgements as
events of their own, and any program. What has been received goes to the standard output
through `Representation`: the terminal keeps 8 bits in its raw mode, but the loop asks for
the raw text when `ff_count > 0`, which never happens, so that what is printed has 7 bits,
with a text of its own for CR, LF, DC1 and DC2. `Pipe.tla` is the abstract specification, and
`TerminalProperties.tla` the mapping: what was typed is what was received and then all that is on
its way, from the terminal of the I/O card back to the keyboard's local string. `TerminalProofs.tla` proves
the refinement; `TerminalMC.tla` has the lines of the run.

### Addresses and bytes
Four parts that answer an address or give bytes, which share nothing. `MemoryCards.tla` is
the decoding of the memory cards, the cycles of the bus and the removal of the boot ROM;
`FlatMemory.tla` is its abstract specification. `IOMap.tla` is the decoding of the I/O
cards. `Disassembler.tla` is the walk through a file with the names, operands and sizes.
`VirtualDisk.tla` gives the bytes of a sector with its checksum. `Machine.tla` puts them
side by side, one at a time (`subject`); `MachineProperties.tla` holds each against
another part of the code: a card against the flat memory and against the window's view,
the disassembler against the cycles of the CPU and the decoding of the interrupt
controller, the checksum against the sum that the monitor makes of the bytes that it reads.
`MachineProofs.tla` proves all of it.

## 3. The runs

| run | bounds | what it shows |
|---|---|---|
| `scheduler` | a clock, the CPU, two one-shots, dates below 4, delays of 0 to 2 | pool invariants and refinement of the event loop, any order of registration and sort; whatever has a date is run (`DueIsRun`, see below) |
| `scheduler_no_clock` | no clock | **violation**: a pool without a date runs a device that has none |
| `cpu_control` | all 256 opcodes, READY and interrupts free | T-states, cycles, assertions of the code, bus driving, interrupts never forgotten |
| `cpu_programs` | every opcode alone; two instructions of each row of the table; three calls, jumps or returns with a ring of 3; any of them may be jammed | programs against the instruction set, with their bus cycles; nothing is left over from one instruction to the next; the ring wraps as it should |
| `interrupts` | eight opcodes, levels INIT and RTC | the agreement of CPU, controller and lines, protection, what a jam drops, and that requests are served |
| `out17_under_wait` | the same | **violation**: the mask is latched from the wrong byte in a fetch that waits |
| `halt_at_start` | the same | **violation**: a HLT at power on makes INIT dead |
| `channel_disk` | 2 bytes of memory, 2 tracks, 2 sectors of 2 bytes, transfers of 2 bytes | the copy, its end, any command between two bytes |
| `channel_end` | transfers of 1 and 2 bytes | **violation**: the end of a one-byte transfer is not signalled |
| `console` | all opcodes (by the four bytes that memory and switches give), every key | one owner of the bus, the right byte at T3, one step per press, the trap, and that a step ends |
| `terminal` | two lines typed of three, two characters written of three | the pipe from keyboard to program, the status, what is printed (once, in order, as the text of 7 bits), and that a line arrives |
| `machine` | every address for the decoding, every I/O opcode with every accumulator, files of one to six bytes with every opcode first, an address span of four, images of up to two sectors | cards against the flat memory, the listing against the CPU, the checksum |

Why the bounds are enough. The scheduler compares dates only, and its cases (waking at
the end of the prefix, swapping, two equal dates, falling asleep) need three devices and
one more. `CPUControl` has no bound: its state space is finite and all of it is explored.
In `CPU8008` an instruction starts from a register file whose registers all differ, with
extreme bytes from memory; hidden state carried over an instruction shows up in pairs.
`Interrupts` keeps one opcode of each shape (1, 2, 3 cycles, conditional, HLT) and each
byte that the controller decodes; `CountBound` caps a counter that has no more effect.
The two levels are the only ones any card raises. In `ChannelDisk` a pointer and an index
that wrap at 2, with transfers that end exactly there, meet every boundary;
`ByteAt` distinguishes every source of a byte.

In `Console` the memory gives a read cycle, a write cycle, an input and (as 0) a HLT, the
switches a fetch of one cycle and a jump: every kind of cycle, jammed or substituted or
not; `PassedBound` caps the history `passed`, of which the property looks at more than one
or not. In `Terminal` two lines meet every hand-over, for the second is typed while the
first is anywhere (a line of two characters, of one, and an empty one); `INITIAL_COUNTER` 2
has iterations with and without an emission; two outputs reach the raw mode and
write a byte in it, and each step of the way changes one of the three bytes (leaving the raw
mode takes a third output, which is left to the proof). In `Machine` a page of two bytes keeps the three fields of an address;
`Visited`, `Written` and `WrittenBytes` bound the program to addresses in each region: the
ROM of the boot and the RAM behind it, the next page, a 2k without a card in one
configuration, RAM and the same place in the next card, and the monitor. `AddressSpan` is
longer than some files, as long as others and shorter than the rest. `SmallDisks` has the bytes where the signed overflow of the checksum
begins. The model's bounds are `Horizon`, `Delays` (dates), `Opcodes`, the length of
`Programs`, `CountBound`, `Counts`, `PassedBound`, `MaxTyped`, `MaxOutputs`, `Visited`,
`Written`, `WrittenBytes`, `Files` and `Disks`.

Deadlock is checked for `cpu_control` and the channel. It is off where the model itself
stops: at `Horizon`, at the end of a program, of a listing, of an I/O cycle or of a sector,
when a terminal is off with nothing left to read, and on `clash`, where the program throws.

Fairness. The emulator runs its loop for ever, so an action of the machine that is
enabled is taken: weak fairness on the scheduler's own steps, on the clock (`CardsClock`,
`ConsoleClock`), on the cards (`Cards`: every instruction has a T3, STOPPED and an endless
WAIT apart), and on the two threads of the terminal. In `Terminal` a step of the main loop runs
an edge of the clock of some kind, and the kinds take turns: strong fairness on the steps
where SYNC rises and on those where an acknowledgement falls due. Nothing is assumed of the
keys, of the typist, of the real time clock, of READY or of the program: where a liveness
property needs READY, a program that keeps an interrupt enabled, or one that reads its
input for ever, it is its hypothesis. `TransferEnds` supposes that the program leaves
the cards alone while the CPU runs on, as it does when it polls the status of the disk.

`DueIsRun` is about patient devices. Nothing in the scheduler stops two devices that wake
each other at the current date from holding time still; the emulator's do not do it, so in
half of the behaviours (`patient`) a device never asks for the current date, and one
one-shot is launched at a time; in the other half any date goes, for the invariants and the
refinement.

## 4. Where the code and its comments disagree

- `Scheduler::step` runs the front of the pool without looking at its date (the README of
  `emulation_core` says that an unscheduled device is never called).
- `InterruptController::on_sync` takes the mask of OUT 17 on the first fall of SYNC
  outside T2 and T3. A fetch that waits has such a fall before the output cycle.
- The protection begun by a T1I is lifted by the next T1. If nothing was jammed in that T1I and
  memory holds a HLT, there is no next T1: INIT is no longer sampled.
- `StackChannelCard` leaves `end_of_transfer` HIGH until a byte that is not the last, so
  the end of a one-byte transfer after another transfer gives no edge.

## 5. What is proved

**Scheduler** (`SchedulerProofs.tla`). For every set of devices, of delays and every
horizon, from `SchedulerAssumption` and the hypothesis that some device is a clock, which
always has a date (without it, see `scheduler_no_clock`): type correctness,
`PrefixIsScheduled`, `PoolMirrorsDevices`, `FrontPinned` and `NothingOverdue`, and that the
scheduler implements `EventLoop`.

None of these is inductive alone. The invariant `IInv` joins: the pool holds each
registered device once; the cached date of an entry is the device's date; an entry is in
the prefix exactly when it has a date; the front is the device being stepped, and is the
earliest. `change_schedule` relies on the exactness of the prefix to find the entry it
swaps with, on the uniqueness of devices to find the one entry it changes, and on the
stepped device being the front so as not to move it. `SortMoves` and `SortKeeps` say what
any sorted permutation of the prefix keeps; each action then has a lemma, one step per
part of `IInv`; `NextIInv` joins them and gives the refinement step.

**Channel and disk** (`ChannelDiskProofs.tla`). For every size of the memory and of the
disk and every set of counts, from `SizesAssumption` (sizes are positive): type
correctness, `PointerReadBack`, `EndIsNotEarly`, and that the cards implement
`SectorCopy`. The inductive invariant adds to the types what the mapping needs: one pulse
at a time on the wires (`OnePulse`, so that no command lands between the reading of a byte
and its storage), the byte in flight is the one before the head and is still counted
(`CountedInFlight`, so that storing it is a step of the copy), a launched counter was given
by the program (`CountIsGiven`), the status is the card's (`StatusIsKnown`) and the pointer
that the program reads is late only after a LOAD (`LateAfterLoad`). `CardsIInv`,
`PushAndPopIInv` and `CommandsIInv` take the actions one by one and prove, with the
invariant after the step, the step of the copy it maps to.

**CPU sequencing** (`CPU8008Proofs.tla`, `InstructionProofs.tla`). For any set of
opcodes, whatever READY and the interrupt line do and whenever they move: an interrupt never
cuts an instruction (`InterruptsBetweenInstructions`), the CPU holds the data bus only where
it drives it (`DrivesOnlyItsStates`), a pending interrupt is forgotten only by the step that
takes it (`PendingUntilTaken`), the cycle that runs is the one of the table
(`CyclesFollowTheTable`), and the types. The first is not inductive: T1I is decided on the
first edge of phase 1, with the cycle that follows, and entered once SYNC has risen. The
invariant says that T1I and STOPPED are only decided, and then kept, when the next cycle is
a fetch (`DecidedBetweenInstructions`; STOPPED is there because an interrupt leaves it for
T1I without choosing the cycle), and that the bus is held only for the T-state that drives
it, after it was entered (`TakenForTheState`). `Phase11Decides` is the step where it is
decided; `NextIInv` takes the other edges one by one. The cycles need a second invariant,
`CycleInv`: between the edge that ends a cycle and its T1, `cycle_control` is one cycle
ahead of `memory_cycle` (`TableFollowed`), and `next_cycle_control` is only good once the
cycle has ended (`EndFollowed`), for it may be left over from the cycle before.
`InstructionProofs.tla` proves what that rests on: every byte decodes to an instruction with
one to three cycles.

**The instruction set** (`CPU8008Proofs.tla`, from "The registers" on). For any opcodes and
programs, any register file at power on, any depth of the ring (`DepthAssumption`: more than
one program counter; the code has eight), any waits and any interrupt: `CPU8008` implements
`Isa8008` (`ImplementsISA`). The other assumptions are that registers and the bytes read are
bytes (`RegistersAssumption`, `ProgramsAssumption`).

An instruction takes 3 to 11 T-states of several edges each, and only its end is a step of
the instruction set, so the invariant `CPUInv` says, at every edge, how far it is: it joins
the two invariants of the sequencing with `ProgramInv`, where every register is a function of
`done` (what the instruction began with) and of the bytes that are already on the bus.

- `Counted`, `FetchOK`, `OperandOK`: one bus cycle for each memory cycle so far, of the kind
  and at the address that the table says.
- `RingOK`: PC is past what was fetched (a jammed opcode excepted); a push or a pop happens in
  T4, and between T4 and T5 only the high byte is the target's.
- `EmittedOK`, `AddressOK`: the address is emitted in two halves and latched half a T-state
  later; PC has already moved when its high byte leaves, which is why the emitted one is kept.
- `HiddenOK`, `WriteOK`: the hidden registers a and b hold the operands, or the source
  register once T4 has taken it; a is 0 after a fetch, for RST jumps with it.
- `PadOK`: registers and flags are untouched until T5, and then are those `Computed` gives.
- `EndOK`, `DecidedOK`: the T-state that ends a cycle is the one of the table, T3 if the
  condition fails, and the next cycle is what follows from it. No part of it can be left to the
  sequencing, for the condition is about the flags.

`NextSettled` takes the steps one by one, one lemma per T-state that is entered (`EnterT2Settled`
to `EnterT5Settled`, `BeginSettled`, `StoppedSettled`), per edge and per byte (`FetchSettled`,
`OperandSettled`). `Completed` then says what holds when an instruction is recorded: all its cycles
are on the bus and it ended where the table ends it; one lemma for each group of instructions
(`RegisterStep`, `ReadStep`, `StoreStep`, `PortStep`, `ReturnStep`, `RestartStep`, `JumpStep`)
shows that the step is that instruction of `Isa8008`. Every other step leaves `done` alone.

**Interrupts** (`InterruptsProofs.tla`). For any set of opcodes, any moment of the INIT key
and of the real time clock, any hold of the console: the types, `ClashOnlyAtStart`,
`AppliedIsKept`, `ProtectedInstruction` and `DroppedByItsJam`. The jam removes the lowest
request and the application remembers another, many T-states before; what makes them agree
is `Protected`: from T1I to the next T1 the lines are not sampled and, once the T1I is over,
nothing is being applied, so a jam cannot remove what is applied. `t1i_cycle` outlives the
cycle (until the phase 2 of the next T1), which is why the invariant says where it may still
be set. `StartOwns` bounds the time the automatic start holds the pin. For
`DroppedByItsJam`, `JamInv` follows the second falling edge of phase 2 in T3: if something
is left to drop, the first one has jammed INIT.

**MD bus and console** (`ConsoleProofs.tla`). For any set of opcodes and any bytes of the
memory, of the inputs and of the switches, and any order of the keys: `NoClash`,
`BusCarriesTheByte`, `HoldsAsAsked` and `AutomaticRuns`. That nobody throws depends on what
each party believes: the invariant says that one card sends at a time (`OneCardSends`), that
it believes it owns the bus exactly when it does (`OwnersKnow`), that it leaves it to SUB
(`CardsOwn`, `ConsoleOwns`), and when a scheduled action may be left (`Moments`: never past
the edge it is due before). `Values` follows the byte from the answer to the bus, and the switches from the console's
last look at them. `StepInv`
follows READY from the fall of phase 2 that decides to hold to the edge that samples it,
which is why `Held` looks at `next_state`. One lemma per action and per half of the
invariant; `BusNext` and `StepNext` join them.

**Terminal** (`TerminalProofs.tla`). For any set of lines, any pace of the main loop and any
program: `StatusIsTrue`, and that the two threads, the card and the wires implement `Pipe`.
The invariant has what the two threads may hold at each place (`HandOver`: the keyboard only
leaves its wait when the shared string is empty, and the loop only empties a string that it
has appended) and what the status says (`StatusFollows`). Each action then moves a character
or a line from one segment of what is on its way to the next; `Cat` hides the concatenation
behind its laws, so that the regroupings are steps on names.

The printing needs more (`OutInv`): what is printed are the texts of what the terminal has
received (`TextsOfMore` takes one character more), and the raw mode is the one that the last
of DC1 to DC4 set, at the prefix received so far (`RawGrows` takes it one byte further).

**Tables** (`InstructionProofs.tla`, `DecodingIsSound` in `CPU8008Proofs.tla`). `Matches`
gives, for each of the thirty rows, the parts of an opcode that it matches; two rows that match
one opcode are one of twelve pairs (`Overlap`), and in each the first is the narrower. What
the rows before leave to a register instruction (`OperandsOfDecoded`) is what the assertions
of the T-states need.

**Addresses and bytes** (`MachineProofs.tla`). For any size of a page, any ROMs, programs,
files, images and layouts (a sector has at most 253 bytes, for the index in it is a byte):

- `OneCardAnswers`. A block of 2k selects at most one card (`OneCardOfBlock`), the address of
  a card is in the block it answers and conversely (`AddressedHolds`: two decodings of the code,
  by the bits and by the start and length). For I/O, inputs and outputs are told apart by
  the ranges of the opcodes of INP and OUT.
- `ImplementsFlatMemory`. The bytes of the flat memory are the function `FlatBytes` of the
  configuration and the buffers; a write to the selected card writes one of its bytes or none
  (`WriteIsFlat`), a read gives it (`ReadIsFlat`; the boot ROM hides only its own card:
  `BootCard`). The invariant `MemoryInv` says that between T2 and the first sampling of T3 the
  bus still holds the byte of the address, and that after it the last cycle is that one and the
  ROM has gone if it must: a second rise of phase 2 in the same T3 changes nothing.
- `ListsWhatIsFetched`. `CyclesFromPC` counts, for each instruction, the cycles that take
  their address in PC; `RenamedAs` gives the three opcodes that the interrupt controller
  decodes; `PortOfOpcode` the ports. `LinesFollow` is then inductive, with the types: nothing
  is assumed of the length of the file. `LineEnds` is why the 16-bit address of the walk
  does not wrap: the loop of `OutputLine::get_bytes` never leaves a line that reaches the
  last address, so a file of 64 KiB or more is listed up to that line and no further. That a
  shorter file is listed to its end is the second part of the property.
- `ChecksumOfWhatIsRead`. The program's sum is of signed bytes and the disk's of unsigned
  ones: `SignedCarry` is the step, and an induction on the bytes gives the sums.

The provers cannot instantiate a theorem whose parameter is an operator. `SetInduction` is
induction stated on a set instead, from the well-foundedness of the naturals, and
`RecursiveFunction` says that a function defined by its values at smaller arguments exists; the
sums of a sector rest on both.

Only model-checked: liveness (`DueIsRun`, `InterruptsAreServed`, `TransferEnds`, `StepEnds`,
`Delivered`), which is out of the prover's reach. That `Computed` and `Isa8008` share the
arithmetic of `ALU8008.tla` is by construction: the theorem is about when it is applied, to
what, and where its result goes. The four violations are TLC's.

## 6. What is not modelled, and why

- Periods in nanoseconds: only the order of edges they give. Where a delay orders two
  events (200 ns of a placing, 100 ns of a pulse, 200 ns of an ACK) the module says so.
- A CPU without power: the Simulator raises VDD once and never lowers it.
- The request lines 1 to 6, which no card raises.
- The Simulator's run modes other than a clock edge: how long they run the scheduler is
  real time, and what they run is the same. The script of keys that starts the monitor.
- `TextInput::stop`: the main loop never ends, so it is not reached.
- Recorders, drawing, layout and hexadecimal text, reading a file, the copy of `std::span`.

## 7. Plan

Done: the scheduler, CPU, interrupts, channel and disk; the MD bus and the console; the
terminal; memory, I/O addresses, disassembler, disk image. Proofs of every invariant, action
property and refinement that the passing runs check.

Left:

1. What the carry, the rotations and the parity of `ALU8008.tla` are, against arithmetic on
   bytes, as theorems on every pair of operands.
2. `Interrupts` and `Console` in one composition: INIT by the key of the console with its
   RZGI, and the trap held during a T1I.

## 8. Running it

    tlc -config Scheduler.cfg SchedulerMC.tla      # any run of PROJECT.json
    tlapm SchedulerProofs.tla                      # and the other *Proofs.tla
