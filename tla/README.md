# A verification of ohNES

TLA+ models of the parts of ohNES, a cycle-accurate NES emulator in C++, in which
order, timing and threads decide whether a game runs: what they promise, what the
code does, and the checks and proofs that relate the two. Paths are relative to
`src/src/` of the repository unless they start elsewhere.

## The system

One emulation thread runs the main loop of `main.cpp`: it takes the SDL events of
the last frame, then calls `NES::step` until a frame is ready and shows it. A step
is an instruction of the 6502 (`external/`, a submodule); in each of its cycles the
CPU makes a bus access at most and calls back `ppuTick`, `apuTick` and `mapperTick`
of `system.hpp`. Everything else is driven by that cycle. A second, detached
thread shows the debugger window (`wx_/`) and calls the same `NESDebugger` object
that the emulation thread consults before every instruction. SDL calls the audio
callbacks on a thread of its own.

| part | state | operations | interacts with | what is hard | what makes it correct |
|---|---|---|---|---|---|
| VBlank and NMI (`ppu.cpp`, `ppu_registers.*`) | dot, line, frame parity, VBlank flag, NMI enable, pending and suppress flags | `PPU::step`, `Registers::tick/write/read`, `NES::render` | CPU pin, main loop, OAM DMA | accesses in the very dots of the edges, a DMA across them | one NMI per edge, none without the flag, each frame shown |
| sprites (`ppu.cpp`) | OAM, secondary OAM, staging, three indices, a static index | `clearOam`, `evaluateSprites`, `fetchSprites` | rendering switch, OAM writes, MMC3 through its fetches | rendering turned off and on in the middle | indices in bounds; the right sprites, unmixed |
| scroll (`ppu_registers.hpp`) | T, V, the toggle | increments and loads, PPUSCROLL, PPUADDR, PPUCTRL | background fetches, data port | writes in the middle of a frame | each line begins where it was scrolled to |
| data port (`ppu_registers.cpp`, `ppu.cpp`) | address, buffer, pending read and write | PPUDATA, PPUADDR, `vBlankLine`, `visibleLine` | memory, scroll | a request is served later than it is made | outside the picture, as if served at once |
| MMC3 interrupt (`mappers/mmc3.*`) | A12 and its timer, counter, latch, reload, enable, pending | `setPpuABus`, `tick`, four registers | every fetch of the PPU | short and long rises, a latch of zero | a clock per line; counts as promised |
| frame counter (`apu.cpp`) | mode, counter, flag, hold, line | `$4017`, `$4015`, `APU::step` | CPU line, channels | reads, writes and resets in the two held cycles | an interrupt begins only while allowed, and none is lost |
| channels (`apu.*`) | length, linear, envelope, sweep, DMC units | registers, quarter and half frames | frame counter, DMC stalls CPU | settings rewritten while units run | notes and samples end; periods in range |
| MMC1 port (`mappers/mmc1_2.*`) | shift register, last load | writes of the cartridge | banks | consecutive writes, resets | each register gets its last five bits |
| input (`sdl/input.*`, `movie_player.hpp`) | pads, claims, recording | SDL events, frames, replay | program reads pad 1 | controllers come and go, pauses | a replay is what was played |
| debugger control (`dbg/`, `wx_/`) | mode, resume, breakpoints, log | buttons; a check per instruction | two threads | unsynchronised loads and stores | no breakpoint passed, a pause lasts |
| history (`util.hpp`) | ring of 64 instructions | `insert`, index, `back`, listing | window | wrap-around | the last 64, in order |
| banks, memory map, cartridge (`mappers/`, `cartridge.cpp`) | bank registers, modes, mirroring, latches of the MMC2, the header | `cartWrite`, `cartRead`, `chrRead`, `mirror_vram_addr` | CPU and PPU buses, the debugger's reads | registers of one mode read in another; a register selected by one write and loaded by the next | whole banks of the cartridge in the windows, nothing moved that is not switched |
| pixels (`ppu.cpp`, `ppu.hpp`) | shift registers, sprites of the line, the hit | `handleBackground`, `renderBgPixel`, `renderSpritePixel` | mask, fine scroll, data port, sprite search | registers left over from a line cut off | the tile bit scrolled to, the first sprite over it, the hit |
| ring of the DMC (`gen_audio.*`, `sdl/audio.cpp`) | samples, two heads, a switch | `change_output_level`, `write_stream`, `on`, `off` | emulation thread, thread of SDL | the writer ignores the reader | samples in order, none twice |
| tone generators, display, windows | tables, textures | mixing, drawing | SDL, wx | | not modelled, see below |

## Modules

An action is a handler or a step with everything it changes; the comment above a
definition says what it abstracts, and `PROJECT.json` names the lines of each.

* **VBlank** is `PPU::step` reduced to what VBlank and NMI see, `NES::ppuTick` in its
  phases (access, first dot with the dots a DMA owes, poll, two more dots) and the
  main loop. **NmiLine** is the promise: an NMI for a rising edge of "flag and
  enable", withdrawn if the line falls before it is taken. `ImplementsNmiLine`
  instantiates it with the pin and the pending flag mapped to the request.
* **SpriteEval** is `handleSprites` dot by dot. A byte of OAM other than Y stands for
  the sprite it belongs to, so that mixing the bytes of two sprites shows.
* **Scroll** has a step per fetched tile and per load of V, with any register write
  between; the size of a nametable is a parameter. It remembers what T was when the
  row and the column were loaded, which `SplitScroll` compares with V in each fetch.
* **DataPort** has a step per dot. **MemoryPort** is the promise, an ordinary port with a
  read buffer; it may lose track while it is *shut* (rendering on, and not yet in
  the second dot of the VBlank), until the address is set again. The refinement maps
  a request that waits to the state in which it has been served.
* **A12Filter** is the filter of `setPpuABus` and `tick`. **Mmc3Irq** puts the counter and
  the registers behind it, with an arbitrary bus; **ScanlineCounter** is its promise.
  **Mmc3Lines** composes the filter with the fetches of a line, dot by dot, three to a
  CPU cycle, with tables, sprite size, rendering and addresses changed by the program.
* **FrameCounter** is `FrameCounter::inc` with the sequencer; **FrameIrq** is its
  promise, in terms of the flag and of the two cycles for which it is held. The promise
  says what becomes of an inhibition in those cycles: obeyed in the first of them, it
  clears the flag (`apu.cpp:72`) but not the count, so that `dec` sets the flag again and
  the line rises with the inhibition in force; obeyed in the second or later, it is heard.
  **ApuChannel** composes it with the length and linear counters of the triangle.
* **Dmc**, **Sweep**, **Envelope** have a step per CPU cycle, with a register write at most.
* **Pixels** draws three lines dot by dot (one of the picture, one for the VBlank and the
  one before the picture). A bit in a shift register is the place in the row of tiles
  it came from, so a register that mixes two tiles shows as a set of two places.
  `PixelsRight` compares each dot with what the row of tiles, the scroll and the sprites
  handed over say it is, with the mask, the fine scroll and the data port accessed
  between any two dots. Only a dot of a line that was prefetched with rendering on, and
  not disturbed by an access of the data port since, has such a reference.
* **Banks** has the eight boards of `mapper_factory.cpp`, with a step per write to the
  cartridge and per fetch of the tiles that switch the latches of the MMC2. A window is
  8K of the program or 1K of the patterns and shows a page of that size; `BanksInit`
  ranges over the headers a cartridge of the board can have. A program selects banks
  that exist, as the assertions of the mappers ask; which mode it reads them in is free.
* **AudioRing** has the emulation thread writing a level sample by sample and the thread
  of SDL playing, each under the mutex, with the switch of the generator read outside
  of it. A sample is the number it was written as.
* **Mmc1** implements **SerialPort**; **RingBuf** implements **LastItems**; **Input** has
  keyboard, controllers, recording and replay.
* **Debugger** has the emulation thread and the window thread at the grain of single
  loads and stores of `dbg_mode`, `resume_` and the log.

`MC_*` modules only give the sizes, and where parts of the system share no state,
put them beside one another: `MC_Picture` (sprites, scroll, data port, pixels, input),
`MC_Cartridge` (banks, MMC3 on the bus) and `MC_Devices` (DMC, sweep, envelope, audio
ring, MMC1, MMC3 interrupt, history, debugger). A behaviour of those is a behaviour of
one part, chosen in its first state.

## Runs

| run | shows | bounds, and why they are enough |
|---|---|---|
| vblank | an NMI the CPU takes is justified; a frame is shown before the next; the refinement; suppression is lifted; frames keep coming | 11 dots, 7 lines, a DMA of 9 dots, instructions of 2 cycles: a DMA and an instruction can straddle each edge, and the parity of frames and cycles varies |
| picture | the assertions of the search; the search finds the first sprites of an undisturbed line; a slot shows one sprite; `SplitScroll`; the data port refinement; `PixelsRight`, `HitExact`; `ReplayFaithful`, `PadsExclusive` | 3 sprites for 2 slots (one too many), one interference at any dot, Y below, in and beyond the lines; 3 rows and a row of attributes, scrolls into each; lines of 5 dots have the parity of 341; pixels of two tiles with a prefetch in full, two sprites of which one crosses a tile and one the right edge, an access at any dot; three controllers for two pads; a full recording of four items |
| cartridge | `BanksWhole`, `WindowsStay` for every board; at most one clock of the MMC3 per line where the program uses both tables as the repository's comments expect, and none before the sprites are fetched | programs of 16K and 256K, patterns of RAM, 8K and 128K; bytes with an odd bank and with bits beyond every bank; two registers loaded at once, so that each meets the modes and another register. Two background tiles, two slots, a line and the line behind it, a line of the VBlank and the pre-render line: each kind of access has each neighbour it has in a full line, and 53 dots leave the remainder by three that 341 leave |
| apu | the refinement, in which an inhibition is obeyed before, in and behind the hold; an interrupt that stays reaches the line; clocks keep coming; notes end | steps 1, 3, 4, 6, 8 keep the distances odd and even, and each step apart from the reset |
| devices | `InterruptFresh`, `SamplesEnd`; `SweepBounded`, `MuteExact`; `NoteDies`; `PlaysInOrder`; the MMC1, MMC3 counter and history refinements; a breakpoint is not passed unless released, at most one instruction after a pause, a pause lasts, a run gets through | DMC bytes of two bits, samples of 1 and 3 bytes (shorter and longer than the buffer); periods 0 to 7; a ring of three samples of which nine are written, so that the writer passes the reader more than once; latches 0 to 5, and the timer kept as far as the filter tells it apart; a history of three that wraps; two instructions and two breakpoints, every interleaving of the two threads |

Seven runs look for a counterexample of what a comment or an assertion of the code
says, and find one:

* `vblank_suppress`: turning the NMI off in dots 0 to 3 of *any* line
  (`ppu_registers.cpp:78`) suppresses the next VBlank as a whole.
* `sprites_fetch`: the index of the sprite fetch leaves the slots when rendering is off
  before dot 257 and on again in the middle of the fetches (`ppu.cpp:254`).
* `mmc3_stray`: an empty slot of 8x8 sprites is fetched from the other pattern table
  (`ppu.cpp:238`), and the MMC3 sees A12 rise.
* `apu_line`: the line of the frame interrupt falls for two cycles when the interrupt
  is set again (`apu.cpp:82`).
* `debugger_log`: starting the log, stopping it and starting it again fails the
  assertion of `dbg/nes_debugger.cpp:36`.
* `pixels_prerender`: the line before the picture draws the sprites of the last line
  again (`ppu.cpp:53`) and raises the hit of sprite zero.
* `mmc2_debug`: drawing the pattern tables in the debugger switches the patterns of the
  running game (`mappers/mmc2.cpp:86`).

### Fairness

The emulation thread never stops stepping, so its steps are weakly fair: `Next` in
VBlank (all of its steps are that thread's), the steps of `APU::step` with or without
an access in ApuChannel, and in `MC_Devices` those of the envelope (`PlayEnvelope`), the
cycles of the DMC with a write or without (`DmcCycles`; a reset of the console is not
fair) and the emulation thread's own steps in the debugger (`EmulatorSteps`). A button
that has been pressed has its handler run to its end (`ButtonsServed`).
Nothing makes the program write a register or the user press a button, and
properties that need them to, or need them to refrain, say so: `NotesEnd` speaks of
a program that leaves the registers alone from some point on, `NoteDies` of a note
that is not started again, `SamplesEnd` of a sample that does not loop,
`ClocksKeepComing` of a program that has stopped writing the control register, and
`RunGetsThrough` of a user who keeps pressing Run with no breakpoint enabled.

## Proofs

All hold for every value of the constants that the named assumptions of the modules admit.
Few of the properties are inductive; what each proof adds is said here, and at the
definitions. What a module proves of parts that a composition puts beside one another, it
proves of the composition, too, from one lemma: with its fairness left aside, a behaviour of
the composition is a behaviour of each part, since the parts share no state and those not
at work stand still.

* **VBlank_proofs**: `TypeCorrect`, `NmiAlwaysJustified`, `FrameAlwaysShownInTime`,
  `FlagAlwaysInVBlank` (the flag stays in its lines; not a property of a run) and the
  refinement `NmiRefinement`. That a raised pin is justified depends on where the beam can
  be while the pin is up. `IInv` adds `PhaseInv` (what is left to do in each phase of a
  CPU cycle), `FrameInv` (a frame that waits has waited for the dots of this
  instruction at most), `PendingInv` (a request by PPUCTRL lives until the next dot)
  and `PinInv` (outside of a DMA the pin is up only just behind the dot that starts
  VBlank). The assumption `InstructionFitsVBlank` says that an instruction and its DMA
  are shorter than the lines of the VBlank, as 8 cycles and 513 are.
* **SpriteEval_proofs**, for every number of sprites and slots: `SpriteTypeCorrect`,
  `EvalAlwaysInBounds`, `SearchAlwaysCorrect`, `HandOverAlwaysCorrect`. The invariant follows
  a line that nothing disturbs through its four parts. `Clearing`: the slots already passed
  are empty. `Looking`: the slots hold the sprites on the line among those already seen, in
  their order, and the dot is the one the search must have reached (two dots for a sprite
  that is not on the line, four for one that is). `Done`: the line is full or OAM is
  exhausted. `Fetching`: what each dot of a slot has brought so far. It needs two assumptions:
  `SearchFits` (the search has time for a full line; 4 * 8 + 2 * 64 dots of 192) and `LinesHide`
  (a sprite of a line that is drawn is not hidden, one found for the pre-render line is).
* **Background_proofs**: `PortTypeCorrect`, `PortRefinement` (the data port is the port of
  **MemoryPort**), `ScrollTypeCorrect`, `FramesSplit`. For the port, `InTime` says how long a
  request can wait where it may be relied upon: until the next odd dot, which is there
  before the next access, since even dots follow each other at the end of a line only. That
  is why `PortShape` asks for at least three dots in a CPU cycle and an odd line. For the
  scroll, `Fits` says where V stands in each part of a line, counted in lines of the picture
  and columns of tiles since the row and the column were loaded. The pixels:
  `PixelTypeCorrect`, `PixelsAlwaysRight`, `HitAlwaysExact`, for lines of every width and every
  row of tiles. `FlowInv` says, for each of the sixteen dots of the prefetch and each dot of
  the line, which tile has been fetched, which is latched, and which bits of the row are in
  which places of the registers; what an earlier line has left is in the places in front
  of those, and gone when the line begins. `KeptInv` says how many of its bits each sprite
  has shown.
* **Picture_proofs**. Input: `InputTypeCorrect`, `PadsAlwaysExclusive`, `ReplayAlwaysFaithful`.
  `ReplayInv` says that the pads are always what the words recorded so far leave held down
  (`Held`), and that the frames shown are the marks of the recording in order. Of
  `MC_Picture`: `PictureTypeCorrect` (`PictureTypeOK`), and `PictureCorrect`, all of its safety
  properties and the refinement.
* **Mappers_proofs**. The MMC3's interrupt: `IrqTypeCorrect`, `PendingAlwaysEnabled` (a pending
  interrupt is enabled; not a property of a run) and `CounterRefinement`, for every latch.
  `IrqInv` adds that a timer that runs behind a high A12 has not settled, and that the reload
  flag implies a counter of zero, without which the abstract counter and the code's reload
  differ. The MMC1: `Mmc1TypeCorrect`, `SerialRefinement`: the marker in the shift register
  tells the bits received, in their order, so that a register gets the last five of them.
* **Cartridge_proofs**. The banks: `BanksTypeCorrect`, `BanksAlwaysWhole`, `WindowsAlwaysStay`, for
  memories of every size, every byte a program loads and every number of registers loaded,
  from the assumption `ChipSizes` (a program is one bank of 16K or pairs of them). `BanksWhole`
  is a function of the registers, so that the invariant speaks of those: `Selectable` says
  that what each register selects is in the cartridge, and that a bank of 2K of the MMC3 is
  even. One lemma per board derives the windows, one per write keeps the registers.
  The MMC3 on the bus: `LinesTypeCorrect`, `LinesAlwaysCounted`, `ClockAlwaysBehind`, for every
  number of tiles, slots and lines. `LinesInv` bounds how long an access of the data port waits
  (`RequestInv`, `ServedInv`), so that it cannot move the bus in a line the program leaves
  alone, and how old a rise of A12 is that has not settled (`SettlingInv`: three dots for
  each cycle of the timer), so that a rise of one line is counted before the next line has
  its own. `FrontInv`, `SpritesInv` and `BackInv` say, for the three regions of such a line,
  where A12 is and whether the clock of the line is still to come. Of `MC_Cartridge`:
  `CartridgeTypeCorrect` (`CartridgeTypeOK`), `CartridgeCorrect`.
* **Apu_proofs**: `TypeCorrect` and `FrameIrqRefinement`, for every distance of the steps and
  any initial value of the uninitialised counter, from `HoldInv` (a held interrupt began at
  most two cycles ago, so that none begins within the hold); `ChannelTypeCorrect`, for every table
  of lengths, and `ChannelKeepsCounter`: the channels do not disturb the frame counter, so
  that its results hold of the composition. A length is one of the table less what
  has been counted since, and so is the linear counter.
* **Devices_proofs**. Sweep: `SweepTypeCorrect`, `SweepAlwaysBounded` (a sweep moves only when the
  period it would leave is in the range) and `MuteAlwaysExact`, for every range of the
  timer; the invariant says which target period the unit has worked out from the
  register. DMC: `DmcTypeCorrect`, `InterruptAlwaysFresh`; `FreshInv` says of which cycle an
  interrupt that is pending can be, and that only a second write of the status in a row
  finds one when it asks for a sample. Audio ring: `AudioTypeCorrect`, `AlwaysPlaysInOrder`, for
  rings of every size and levels of every length; the invariant relates the heads to the
  samples written and played (what lies between the heads, plus a whole ring for each
  time they have met) and says which number is in each place of the ring. Envelope:
  `EnvelopeTypeCorrect`. Debugger, for any program and number of breakpoints:
  `DebuggerTypeCorrect`, `BreakpointAlwaysHolds` (`IInv` ties the resume flag, the mode and the
  place of the emulation thread to the ghost that says the user has released the
  breakpoint) and `OverrunAlwaysBounded` (`OverrunInv`: behind a button, what is still executed,
  from the place of the emulation thread and the mode it has read). History:
  `RingTypeCorrect`, `HistoryRefinement`, for a ring of any capacity, from where the oldest item
  is before and after the ring is full. Of `MC_Devices`: `DevicesTypeCorrect` (`TypeOK`),
  `DevicesCorrect`.

### What must eventually happen

A proof from `WF_` needs ENABLED, beyond the prover's reach. Where a bounded number of steps
leads to the goal, a theorem therefore has as its hypothesis that the thread goes on taking
its steps, `[]<><<Steps>>_vars`. Weak fairness gives that where one of the steps is always
possible and none of them stutters; which is so of the emulation thread here (each of its
places and phases has a step, and each step goes to another), and which is read off the
modules, not proved. The theorem then counts the steps to the goal:

* `PauseAlwaysLasts` (`PauseLasts`) needs no fairness: behind the last pause one instruction
  at most is executed.
* `RunAlwaysGetsThrough` (`RunGetsThrough`): with no breakpoint enabled, `Ahead` counts the steps of
  the emulation thread to the next instruction, at most fourteen, from wherever a press
  of Run finds it. The end of a step and a breakpoint that was found before it was disabled
  can overwrite the mode once each; `NoneComing` says that nothing is left that can, and
  the press that follows is kept.
* `IrqAlwaysReachesLine`, `ChannelIrqReachesLine` (`IrqReachesLine`): `Coming` counts the accesses
  and steps until the held interrupt is on the line, at most five, and `HoldInv` keeps the
  hold in the two cycles of the code.
* `DotsKeepComing`: in VBlank, four steps of the thread at most are between two dots.

Where the number of steps depends on constants, the last step of the proof is an induction
on a number, in a temporal formula, which the installed provers do not do. What
that induction descends on is proved, as an action property of the specification without
fairness; that the descent ends is left to TLC, which checks the property itself:

| property | what is proved about its descent |
|---|---|
| `FramesShown` | `FrameNearer`: the lines left and the dots left of the line fall with every dot until a frame is ready; `DotsKeepComing`; `FrameAlwaysShownInTime` for the frame that is ready |
| `SuppressionLifted` | `SuppressionNearsEnd`: every dot moves the beam towards the pre-render line's last dot, which lifts it |
| `ClocksKeepComing` | `HalfFrameNearer`: `Away`, the steps to the next half frame, falls with each access and each step, from any value of the uninitialised counter (`OnTrack`: from the first write of a mode that is obeyed on, the counter is within that mode's sequence) |
| `NotesEnd` | `NotesRunDown`: each half frame shortens what is left of the length and of the linear counter, a pending reload included, and nothing in between prolongs it |
| `SamplesEnd` | `SampleNearsEnd`: bytes, bits, and steps to the next tick fall in this order with each write and each step, whatever is written of the timer; `Loaded` says that the sample buffer is full while bytes are left |
| `NoteDies` | `DecayFalls`: each quarter frame lowers the level or its divider, and nothing raises the level |

Only model-checked, then, is the end of these six descents, and that weak fairness gives
`[]<><<Steps>>_vars`.

## Not modelled

The 6502 is not in the repository. Drawing, tone generation, SDL and wx calls and
argument parsing have no behaviour that the models' properties could speak of. Of the
pixels, the colours are left out; of the boards, the RAM at `$6000` with its protection
bits; of the memory map, the decoder of the CPU's addresses and the open bus; of the
cartridge file, reading and allocating; of the joypads, the shift register the program
reads; of the OAM, the copy of the DMA and OAMDATA. Memory safety of the debugger's
unsynchronised containers (`dbg/nes_debugger.hpp:92`, `util.hpp:62`) is a data race that no
property covers; neither does one cover single-stepping delaying a frame
(`main.cpp:176`), or the text of a logged instruction, which reads its operand through the
bus and so shifts the joypad or acknowledges an interrupt at `$4015` and `$4016`
(`mappers/base_mapper.hpp:111`), or a write to CHR ROM that ends in a nametable
(`mappers/base_mapper.hpp:128`).

What the models leave undecided as the code does: `counter_` of the frame counter, T
and V, and the palette start with any value.

## Plan

1. Done: VBlank, sprites, MMC3, frame counter, debugger, DMC, sweep, envelope, MMC1,
   scroll, data port, input, history, pixels, banks, audio ring.
2. Next modules: `JoypadPort` (strobe and shift, with the debugger's reads of the bus),
   `OamDma` (the copy with its wrap and its reads of registers), `Step` (the composition of
   VBlank with Debugger, for frames while stepping).
3. Next theorems: those of the modules of 2.
4. Next compositions: DMC stalls with the CPU cycle of VBlank; scroll with the data port,
   which share V.
