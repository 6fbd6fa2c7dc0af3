# Specifications of 4710HW

The repository is a series of hardware homeworks that ends in a small computer: a
pipelined RISC-V core, instruction fetch from a dual-ported memory, a write-back data
cache on AXI-Lite, memory-mapped devices, and games in Rust that run on it. The
homeworks before it are the pieces: adders, a divider, a debouncer, a serial port. The
datapaths are starter code with the student's part left out; the cache has a complete
reference version, `src/hw6-cache/AxilCache_ref.sv`, and that is the core of this project.

All paths below are under `src/`.

## 1. The system

| Component | State | Operations | Talks to |
|---|---|---|---|
| `AxilCache` (`hw6-cache/AxilCache_ref.sv` 203-531) | `current_state`; per set `data`, `tag`, `valid`, `dirty`; `read_miss`, `saved`; the registers of both AXI ports | read hit, write hit, hit behind a refused response, clean miss, dirty miss, fill, writeback, reset | manager (datapath or `MemoryMap`) on `proc`, memory on `mem` |
| `AxilMemory.port_rw` (106-121, 164-200) | `mem_array`, one-cycle responses | read, strobed write, reset | the cache |
| `AxilMemory.port_ro` (90-163) | `ro_araddr`, `ro_araddr_valid`, response register | answer at once, buffer, answer buffered, retire, reset | the fetch stage; shares `mem_array` with `port_rw` |
| `MemoryMap` (`hw6-cache/system/System.sv` 135-406) | last cycle's request (`last_*`), `led_state`, `frame_buffer`, `rng_state`, `feedback` | pass through, hide from the cache, answer for a device, write LEDs or pixel, scan the display | datapath, cache, buttons, gamepad, display |
| Candy Crvsh (`atarvi-native/src/bin/candycrvsh.rs`) | `grid`, cursor, `gamepad_prior`, `score`, the screen | poll, move, swap or undo, match, slide, refill, draw | the devices of `MemoryMap` |
| Candy Crvsh, desktop version (`atarvi-sim/src/main.rs`) | `grid`, cursor, `score`, a window | keys, swap or undo, match, slide, refill, draw | a window library |
| Breakout (`atarvi-native/src/main.rs`) | ball, paddle, gamepad, the screen | poll, move the paddle, erase, move, bounce, draw, lose | the devices of `MemoryMap`, the generator |
| LEDrop (`hw3-singlecycle/ledrop-rust`, `ledrop-c`) | position of the light, level | wait, compare the button, move the light | LEDs, buttons |
| UART echo (`hw5-pipelined/system/System.sv`, `uart-c/uart.c`) | a cell for each direction, the program's line buffer | receive, poll, clear, echo reversed, transmit | serial port |
| `DividerUnsigned` (`hw2a-divider`) | none (combinational) | one `DividerOneIter` per bit | |
| Adders (`hw1-systemverilog`, `hw2b-cla`) | none (combinational) | | |
| Debouncer (`hw3-singlecycle/system/debouncer.v`) | synchroniser, timer, output | | the reset button |

Components interact in two ways. On chip, all registers of a clock domain move at the same
edge and see each other's values of before it; a handshake is VALID and READY high at the
same edge. Between programs and devices, a program polls an address and the device moves on
meanwhile.

**What is hard here.** Everything that is asserted *for one cycle* or *until a condition*: the
memory offers a response for one cycle and does not look whether it is taken; the cache
retires responses in one of its four states only; it looks at RVALID but not at BVALID to
decide whether it may answer; hits queue behind a refused response, in a cache with one
register for it; reset can come at any edge, and clears the cache's state machine but not its
lines, nor `port_rw.BVALID`; the memory map decides in one cycle what it answers in the next.
In the programs: several buttons released between two polls, boards updated in place, unsigned
arithmetic at borders, pictures that are repaired and never redrawn, cells between processor
and serial line without a flag. PROJECT.json lists each at its line under "hazards".

**What makes each component correct.**
Cache and memory: together they behave as one array that answers each request once, in order,
with the last value written, and loses nothing on eviction or reset. Read-only port: every fetch
answered once, in order, with a value its own word had meanwhile. Memory map: the datapath
cannot tell who answers, and an access that the map answers is never passed on to the cache as well. Generator: never all zero. Candy Crvsh:
the player sees settled boards, swaps and slides lose no tile, and the screen shows the board
whatever was animated before. Breakout: the ball stays on the screen, and the screen shows what
the program thinks. Serial echo: characters taken once and in order, and nothing sent but the reversed
lines, in their turn.
Divider: quotient and remainder.

## 2. Modules

| Module | Models | EXTENDS |
|---|---|---|
| `AxiLite` | the interface `axi_if`, the signals between manager and cache, an arbitrary manager | |
| `MemPort` | the signals between cache and memory | `AxiLite` |
| `AxilMemory` | `port_rw` | `MemPort` |
| `AxilCache` | the cache, one action per branch of its clocked process | `MemPort` |
| `AtomicMemory` | what a memory promises its manager (abstract) | `AxiLite` |
| `CacheSystem` | manager, cache and memory on one clock; the `Contract`; the refinement mapping; the invariants | `AxilCache`, `AxilMemory` |
| `OneAtATime` | a manager that counts what it awaits: with one request outstanding, as most tests have it, or bound by the contract | `CacheSystem` |
| `CacheProofs` | proofs about both | `CacheSystem`, `OneAtATime` |
| `MemReadPort`, `MemReadPortProofs` | `port_ro` beside `port_rw`'s writes | |
| `MemoryMap` | devices in front of the cache | `CacheSystem` |
| `MemoryMapHistory` | what the datapath is owed, and what the map promises | `MemoryMap` |
| `MemoryMapProofs` | proofs | `CacheProofs`, `MemoryMapHistory` |
| `Rng` | the random number generator | |
| `LongDivision`, `LongDivisionProofs` | the divider | |
| `CandyDesktop` | the game as the desktop version plays it (abstract) | |
| `CandyCrush`, `CandyProofs` | the game as `candycrvsh.rs` plays it, loop by loop | |
| `CandyScreen`, `CandyScreenProofs` | what `candycrvsh.rs` draws while it plays: board, cursor, animations | `CandyCrush`, `CandyProofs` |
| `CandyText` | the numbers beside the board | |
| `Breakout`, `BreakoutProofs` | the paddle game, its drawing, the generator beside it | `Rng` |
| `UartEcho`, `UartEchoProofs` | receiver, transmitter, the two cells, and the program of `uart.c` | |
| `MC...` | instances for TLC | the module named |

### How the circuits are modelled

A state is one clock cycle, a step one rising edge. Every component contributes an action and
the composed edge is their conjunction, as all `always_ff` blocks fire together. A reset edge is
a step of its own, possible in any state. Initial states are those after the first reset edge;
registers that reset does not touch (`port_rw.BVALID`, `feedback`) start with any value.

A channel (VALID and payload) is one variable, its payload or `None`: the code zeroes the payload
whenever it lowers VALID. AW and W are one channel, because the cache assumes both arrive in the
same cycle (comment at line 304 and README of hw6). Words are functions from byte lanes to
bytes, so strobes are sets of lanes; addresses are records of tag and set index; with one way the
LRU bits are written and never read and are left out. The address truncation of `AxilMemory`
(`NUM_WORDS`) is left out: addresses are those of memory words.

The cache's branches map to `AxilCache`'s actions as follows: lines 344-441 (`CACHE_AVAILABLE`)
are `ReadHit`, `WriteHit`, `BufferHit`, `CleanMiss`, `DirtyMiss`, `Idle`; 443-452 are
`AwaitManager` and `AnswerBuffered`; 454-505 `AwaitFill` and `FillDone`; 507-524
`AwaitWriteback` and `WritebackDone`; 320-341 `CacheReset`. Retirement of taken responses
(434-440) is in the actions of `CACHE_AVAILABLE` only, as in the code.

In `MemoryMap` the request channels exist twice: `cpu_AR`, `cpu_AW` on the datapath's side and
`proc_AR`, `proc_AW` on the cache's, where device requests are hidden (178, 191-192). The
datapath there always takes responses, which the comment at `AxilCache_ref.sv` 166 assumes, and
never offers a read and a write together. Buttons, gamepad and random numbers are one arbitrary
`input`. A store to the frame buffer of other than one byte is acknowledged and changes nothing.

### The contract

The cache does not serve every manager. Line 166 says its manager "will always be
RREADY/BREADY". The tests go further, and not all of them get what they expect:

* RREADY low while reads of cached lines queue up (`testbench_dmcache_hit.py`,
  `testLazyManager2`): served.
* RREADY low while a read *miss* is accepted behind a refused response
  (`testbench_dmcache_miss.py` 138-187, `testReadMissAfterWaitingHit`): not served. The test expects
  the first response gone once it is taken. Responses are retired in `CACHE_AVAILABLE` only
  (lines 434-440), so it goes on being offered while the miss is served, until the fill overwrites
  it (`taken_response`).
* A write accepted behind a refused read response, which no test does: it is buffered as if it
  were a read, and lost (`any_buffered_write`).
* A second write answered while the response of the first is refused, which no test does either:
  `can_send_new_response` (line 287) looks at RVALID only, so one of the two answers is lost.

`Contract` is a condition on managers that excludes the last three: *in a cycle in which a request is
accepted, every offered response is taken, or the request reads a cached line and at most one of
the two responses is refused*. `Spec` is the system with a manager that keeps it, `AnySpec` the one with
any manager. What rests on the contract is what the manager sees (`ImplementsAtomicMemory`). What
concerns cache and memory alone (types, `LinesCoherent`, `MemoryInStep`) holds under any manager, and is
proved of `AnySpec`.

A condition on the accepted request is not what a manager's author would look at, so `OneAtATime` asks
who keeps it. Its manager counts the responses it awaits; at each edge it keeps the contract, or is
*patient*, which means that it offers a request only when it awaits none, and does as it likes with RREADY and
BREADY. That is cocotb's `AxiLiteMaster`, the manager of most of the tests. Nothing says `Contract` of a
patient edge. The run `cache` and the theorems `OneKeepsContract` and `OneIsServed` show that it holds
at those edges too, and that this manager sees an atomic memory.

### Candy Crvsh

An iteration of the loop is a `Turn` (poll, cursor, swaps), then one `Round` per pass
of `while check_matches`, then `Settle`. A `Round` is atomic: nothing runs beside the program.
The board starts as any board the exclusions of `Tile::random` allow, and every random tile is
any tile.

`CandyDesktop` is the same game as `atarvi-sim/src/main.rs` has it, stated by what its parts do: a
swap that makes no match never happened, and in a round every unmatched tile falls by the
number of matched tiles below it. `CandyCrush` keeps the loops: the nested tries, the
undo, and the columns slid in place, one matched cell at a time and one copy after the other
(`Copied`), so that a copy in the wrong order would overwrite a tile that is still to move. `ImplementsDesktop` says that each of
its steps is a step of the other. The keys of the one are the released buttons of the other
(`Key`); the desktop version can also be closed.

`CandyScreen` adds the screen. Its `Turn` draws nothing; `ShowSwapped`, `WhiteOut`, `FallingTiles`
are the frames of a round's animation, `Drop` the round itself, `DrawBoard` the drawing at the end of an
iteration. A pixel of a tile is the tile and its offset in it, so that a property can tell which
tile, and which part of it, is shown. An index out of range or a failed assertion of `render_grid` is
`phase = "panic"`. The text is drawn beside the board, in columns the animations do not reach, and is in
`CandyText`: the lines of the points and of the score, and what the erasing erases. The title,
drawn once, and the progress values on the LEDs are left out.

### Breakout

A `Frame` is one iteration of the loop with its poll, both moves, all strokes and the collision tests,
in the order of the code. The generator (`Rng`) ticks any number of times between two frames (`Tick`, the wait
of 30 ms), so the colour of a ball that hits the paddle is any value the generator really reaches.
`Reset` is the button: it restarts program and generator at any moment, also after the panic that
ends a lost game. An index out of the frame buffer is `game = "crashed"`.

### Serial echo

Three things run at their own pace: the receiver writes a character into the input cell
whenever one arrives; the program polls it, waits, clears it, stores the character, and echoes a
full line backwards; the transmitter sends what the output cell holds each time it is free. Neither
cell has a flag. The program waits 333 turns of a loop after each store to the output cell, and before it clears the input
cell, which its author tuned by hand to the length of a character on the line. `Samples` is the set of numbers of
characters the transmitter may start in such a delay: any set of naturals, zero included. Each delay
chooses anew. `sent` records for each store what was sent in its delay, every repeat counted;
zeros, which a terminal does not show, are left out. A cell is
written by one side at a time; what a dual-clock memory does when both write in the same instant
is not in the repository.

*What the echo does not promise.* README lines 92 and 104 of hw5 say that the reversed string comes back.
That is so if every delay starts exactly one character, and nothing in the source
makes it so: 333 turns of about five cycles are some 83 microseconds at 20 MHz and 55 at 30, a
character at 115200 baud is 86.8, and the two clocks are independent. So a character may be
skipped, or doubled. These are estimates from the C source, not from the compiled program, so no run
claims the promise broken; what the model says is what holds whatever the delays are.

### The divider

A step of `LongDivision` is the passage through one `DividerOneIter` of the generate loop.
Powers of two are a constant function, because the provers have no theory of exponents; TLC
checks the assumption on it.

## 3. Runs

| Run | Question | Bounds |
|---|---|---|
| `cache` | Are cache and memory an atomic memory (`ImplementsAtomicMemory`), partial writes included, to a manager that keeps the contract or has one request outstanding, and does the latter keep the contract? | 2 sets, 2 tags, 3 addresses of which 2 conflict, words of 2 lanes, 5 writes: whole, partial and with an empty strobe; any READYs, resets anywhere |
| `cache_live` | Is every request accepted and answered? | 3 addresses, 1 value |
| `read_port` | Is each fetch answered once, in order, with its own word, and eventually? | 2 words of 2 values; writes to any word at any edge |
| `memory_map` | Can the datapath tell that devices are in the way? | 1 set, 5 tags: 2 cached addresses, a device to read, LEDs, a word of two pixels; 2 lanes |
| `long_division` | Is it division? | 5 bits, all operands |
| `candy_crush` | Are boards settled and swaps honest, and is the program with its loops the game of the desktop version (`ImplementsDesktop`)? | 3 by 3, 2 kinds of tile, 4 sets of buttons |
| `candy_screen` | Is the board what the player sees after any animations, and do these stay inside its area? | 2 columns of 5 tiles of 3 by 3 pixels with a border of one, margins of one pixel, a narrow strip beside the board, 2 sets of buttons |
| `candy_text` | Does `erase_text` do what its comment says? | the true locations and arithmetic, a font of one pixel per character |
| `breakout` | Does the ball stay inside, is the picture exact, is a missed ball lost, does the generator stay alive and go on giving even and odd numbers? | 6 by 7 pixels, paddle of 2, generator of 3 bits, colours of 2; any buttons in any frame, resets anywhere |
| `uart_echo` | Are characters taken once, and does each store of an echo send the next character of the lines and nothing else? | lines of 2, 5 characters typed at any moments, delays of none, one or two characters |
| `any_buffered_write` | What the code's assertion says, without the contract | as `cache`, words of 1 lane |
| `taken_response` | What `testReadMissAfterWaitingHit` expects, without the contract | as `cache`, words of 1 lane |

*Why the bounds are enough.* The cache treats sets independently, so a set and a bystander are
all the sets there are; within a set, one resident line and one other tag are what a hit, a miss
and an eviction need; values matter only through equality and the lanes a strobe selects. The proofs
then remove the bounds. Three by three cells is the smallest board with matches in both
directions and with tiles that fall one and two places; five rows are needed for a match that
starts below the top with two tiles above it, which is what a falling region is. On the
screen of `breakout` the ball meets the paddle on it, at both corners, beside it after a miss, and
at both borders, with every paddle position at every phase of its flight, since moves are arbitrary.
Two characters in a line and five typed give two whole lines and the beginning of a third, with characters
that arrive in every delay and in both echoes, and delays that skip, hit and repeat in every combination. `MAX_SENT` bounds the history
`sent` by the lines that can be typed, so it stops no echo: if it did, `InputEmptied` would fail. TLC's deadlock check is off only for the divider and
the echo, which stop: the one when it has divided, the other when nobody types.

*Invariants of `CacheSystem`.* `LinesCoherent`: a clean line is what memory
holds, and the victim of a fill is safe. `MemoryInStep`: the cache waits for the memory in the
very cycle in which it answers, and no stale BVALID is taken for an answer. `ReadysAgree` (READYs
agree, and are low while a request is served) and `SavedIsServed` (the saved request is the miss being
served, with its kind) complete what is inductive under any manager (`AnyInv`); they are proved with it and no run
checks them again. `ReplySlotFree` (no miss is outstanding behind an offered response) is no promise of the cache: it
follows from the contract, fails without it, and is a part of the proof of the refinement only.

*Properties of the memory map.* `NoResponseHidden`: a device never answers over a response of the
cache. `AnsweredInOrder`: responses come in the order of the accesses, each from who serves the address.
`DevicesUncached`: no line and no request of the cache has a device's address. This is a statement
about map *and program*: lines 207-211 hide loads of buttons, gamepad and random numbers from the cache, and 218-221
stores to LEDs and pixels; a load of a pixel or a store to the buttons' address goes on to the cache and is
cached. `ProgramAssumption` says that the program makes no such access, as the games make none. What
the property then says of the map is that an access it answers is not passed on as well, in any
interleaving of READYs and pending misses. `ScreenFollows`: pixels and LEDs follow the accepted stores by one cycle.
`CachedTrafficAtomic`: to the other addresses it is still an atomic memory; the same abstract
specification, through both components. The history variables of `MemoryMapHistory` (`owed`, `owedB`,
`screen`, `lights`) only record. `AnsweredInOrder` also says that one response is owed at most: the two
multiplexers have no queue, and the map needs none because the datapath is not given two.

*Properties of the games.* `SettledBoard`, `HonestTurn`: no match is left on a board that is
shown, and what several released buttons do together keeps the tiles. `ShowsBoard`: between
turns every pixel of the board's area is that of the board or of the cursor. `MarginsKept`: nothing is drawn
beside it. `WhiteOut` does whiten one row of pixels more than the box is high, below the box or, for a box
down to the bottom, in the margin, which is white anyway; with no margin it would leave the
frame buffer, so the margin is an assumption here (`MarginAssumption`). `LastFrame`: where the animation of a fall ends the
board takes over, so no tile jumps, in every column that is matched over the whole height of the box.
In other columns the animation and the board do differ: the code moves the whole region.
`BallInside`, `PictureExact`, `MissedStaysMissed`, `ComesDown` are of Breakout, `NeverAllZero` and
`ParityChanges` of its generator: `Tile::random` and the ball's colour would stand still without them.

*Properties of the echo.* `TakenOnce`: a character that comes at a bad moment may be lost, none
is taken twice or out of order. `EchoedInTurn`: each store of an echo puts the next character of the
reversed lines on the line, as often as its delay allows, never another and never later; so whatever else the terminal
shows is a skip or a repeat of the delay's making. `InputEmptied`: what is in the input cell is taken in the end.

### Findings

* `any_buffered_write`: a write that hits while a read response is refused is buffered, the
  assertion `saved.is_read` (line 445) fails, and the write is lost. It cannot happen with a manager that keeps
  the contract.
* `taken_response`: `testReadMissAfterWaitingHit` expects a taken response to be withdrawn while the miss
  behind it is being served (`testbench_dmcache_miss.py` 181-183). `AxilCache_ref.sv` offers it until the fill. The
  testbench is built with the student's `AxilCache.sv`, of which this is the reference version. In the run's trace the
  refused response is a fill's; a hit's is held by the same registers and lines.
* `candy_text`: `erase_text` takes a width for the last column. At column 210, where both
  callers put it, nothing is erased, and the digits of every new number are drawn over the old ones. The
  desktop version erases by drawing filled blocks and does not have the fault.

### Fairness

The clock runs: weak fairness of the edge. `CacheSystem` and `MemReadPort` also assume that a
manager raises RREADY (BREADY) again and again, as `WF` of the edge with that READY high. A READY
that is never raised blocks the channel by the protocol's own rule. Resets may come at any time; the liveness properties
release what a reset drops. `Breakout`: the program runs (`WF` of `Frame`), the clock runs (`WF` of `Tick`), and
the reset button is let go in the end, without which the game starts for ever. `UartEcho`: the
processor and the transmitter run (`WF` of each of their actions); nobody has to type.
Candy Crvsh has no liveness property: its rounds end only because random tiles stop matching, with probability
one, which is not a matter of fairness.

## 4. Proofs

Every invariant and every action property the passing runs check is a theorem for all values of the
constants, and so are the three refinements.

| Theorem | Says | Argument |
|---|---|---|
| `CacheProofs!AnyInvariance` | `AnySpec => [](AnyOffer /\ AnyInv)`: what holds under any manager | one lemma per branch of the clocked process |
| `TypeCorrect`, `Coherence`, `InStepWithMemory` | the invariants the run checks, under any manager | from `AnyInvariance` |
| `Invariance` | `Spec => []IInv` | `AnyInv`, and that the contract keeps `ReplySlotFree` (`SlotKept`) |
| `Refinement` | `Spec => ImplementsAtomicMemory` | each branch is an atomic-memory cycle under the mapping of `CacheSystem`, given the invariant before and after |
| `OneKeepsContract`, `OneIsServed` | the manager of `OneAtATime` keeps the contract and is served by an atomic memory | `CountedRight`: what it awaits is what the refinement mapping says is owed, so a patient manager offers a request only when no response is offered; so each of its steps is a step of `Spec` |
| `MemoryMapProofs!MapInvariance` | `HSpec => []MapInv` | the cache's lemmas behind the map, `MapInv` (below) in front |
| `MapTypes`, `NothingHidden`, `InOrder`, `DevicesStayOut`, `ScreenExact` | the five invariants of the memory map | from `MapInvariance` |
| `MapRefinement` | `HSpec => CachedTrafficAtomic` | every edge of the map is an edge of the cache for the cached addresses, and a device's edge asks the atomic memory nothing |
| `MemReadPortProofs!FetchesKept`, `FetchesAnswered`, `ResponsesHeld`, `Types` | the read-only port loses, swaps and changes nothing | `PortInv`: at most two requests outstanding, the oldest on the wires, the second in `ro_araddr` |
| `CandyProofs!BoardIsSettled`, `TurnsAreHonest`, `Types` | no match between turns, and turns keep the tiles | the first board by the exclusions of `Tile::random` (three in a line would be two neighbours); a chain of four tries, each of which keeps the number of every tile |
| `CandyProofs!DesktopRefinement` | `Spec => ImplementsDesktop` | tries and undos are the swaps of the other, matches are the same, and `ColumnFalls`, by induction over the rows |
| `CandyScreenProofs!BoardIsShown`, `MarginsStayBlank` | the board is what is shown between turns, and nothing is drawn outside its area | `ScreenInv`, one lemma per drawing |
| `CandyScreenProofs!FallsEndInPlace` | the last frame of a fall is the board after it | what the frame has drawn (`FallShown`), and that a column matched over the whole box falls by the height of the box |
| `BreakoutProofs!StaysInside`, `DrawsExactly`, `NoLateSave`, `Types` | the ball inside, the picture exact, no bounce below the paddle's top | `Inv`, below; a lemma for each part of a frame: strokes move the paddle's cells, erasing and drawing move the ball's |
| `BreakoutProofs!NeverDies` | the generator is never all zero | the only state that could step there holds the top bit alone, and the top bit is a tap |
| `UartEchoProofs!NoneTakenTwice` | no character stored twice or out of order | `Inv`: the character held, and the one in the cell unless it is the one held, is later than all that is stored |
| `UartEchoProofs!EchoInTurn` | each store of an echo sends the next character of the lines and no other, whatever its delay | `EchoInv`, below |
| `LongDivisionProofs!Division`, `ShiftsFit` | quotient and remainder for every width; no shift loses a bit | `DivInv`: after k copies the wires hold the division of the k upper bits, and those are below 2^k |

*The cache.* None of its invariants is inductive alone. That a fill leaves a clean line equal to memory
needs the memory's answer to be that of the saved address (`MemoryInStep`), which needs no
response to arrive in another state, which needs the READYs low while a request is served
(`ReadysAgree`). These parts, `AnyInv`, need nothing of the manager. The refinement also needs the response register
free when a miss is answered (`ReplySlotFree`), and that is where the contract comes in. `CacheInv` is
their conjunction, and says nothing of what the wires of the manager may carry;
`IInv` adds `AnyOffer`, which does. The lemmas about the branches need only `AnyInv` and that the request
on the wires is a request, so that they serve the memory map too, whose wires carry less. The
refinement maps `store` to "the line if cached, else memory", `pend` to a write being served, `owedR` to the
response on the wires followed by the one in preparation.

*The memory map.* `MapInv` joins `CacheInv` with four parts. `SidesAgree`: the cache's side of the
request channels is the datapath's side less the device requests, and the READYs are up, which is how this
datapath keeps the contract. `DeviceAnswersAlone`: a device answers in the cycle after it was asked, and
the cache, which must have been ready for the device to be asked, has by then nothing to
offer; that is why no response is hidden. `OwedOnce`: the one response that may be owed is the device's or what the refinement mapping of the
cache says it owes. This ties the history to the cache, and order and value of an answer follow from
the cache's own refinement. `ScreenLags`: pixels and LEDs lack exactly the write remembered in
`last_AW`, which is what makes `ScreenFollows` inductive.

*Breakout.* `BreakoutProofs!Inv` joins `BallInside` and `PictureExact` with `LowBallFalls`: below the
paddle's top the ball falls. `PictureExact` is not inductive without it: the picture of a ball in the
paddle's rows is repaired right only because that frame is the last, and that the ball is not thrown back
there is `LowBallFalls`.

*Candy Crvsh.* The invariant of the game is types and `SettledBoard`; the cursor on the board is what
the honest turn needs, since a swap exchanges two cells of it. After a turn the board is settled because only
`Settle` ends it, which looks; the first board is the part that needs an argument. The refinement needs what
the slides of a column compute: the code walks down the rows and, at each matched one, moves all tiles
above it down by one, so that a tile may be moved several times and a matched cell may already hold
another tile when it is reached. `Fallen` says where the tiles are after the rows above n: each
unmatched tile of those rows is further down by the number of matched rows between it and n, and the
rows from n on are untouched. `CopiesMove` is one slide, whose k-th copy
reads a row that no copy before it has filled (`CopyMoves`), `StepFalls` is one row, `Recursion` unfolds the recursive function, and `Induction`
adds the rows up. The library's induction theorems take an operator as a parameter, which the provers
cannot instantiate; `LeastNumber` and `Induction` are the same facts with a set in the operator's place, from the
minimum of a well-founded relation on the naturals.

*The screen.* `ScreenInv` joins the checked invariants with `Unanimated` (an animation starts with its
first frame) and `FallShown` (after a frame of the fall, the falling region shows the tiles above the
box, that many pixels further down). `ShowsBoard` follows because the last drawing of a turn covers the
board's whole area, if nothing was drawn outside of it, which is `MarginsKept`; and that is a
matter of where the box lies, times the size of a tile: `Products` and `Quotients` are the arithmetic
of parts of equal size that the provers do not know.

*The echo.* `EchoInv` says that the buffer is the end of what was stored (`BufferKept`), that an echo is of a
full buffer and its last written character waits in the cell (`EchoUnderWay`), and that the stores recorded are
those of the finished lines and of the echo under way, each sent as often as its delay allows or, for the
last, still to be sent for what is left of it (`SentSoFar`). Line and place of the n-th store are a quotient and a
remainder, so `Quotients` and `Division` are the arithmetic the provers lack.

Assumptions: `None` is not an address, word or request; the zero tag and byte exist; what the
manager reads and writes are addresses and write requests; the addresses of devices are not those of cached
memory in what the *program* loads and stores (`ProgramAssumption`; the map does not see to it), and LEDs and
pixels do not share one (`DeviceAssumption`, the address map of `System.sv` 154-172); the generator's top
bit is a tap and its seed is not zero; the divider's powers of two are powers of two; the paddle and the
ball's start fit the screen, the ball above the paddle; a board has at least two rows and columns and the
cursor starts on it, inputs are sets of the eight buttons; a tile has a pixel at least, and the board
with its margins fits the screen, whose width is a natural number; a line has at least one character.
Nothing is assumed of the echo's delays but that they start a finite number of characters. TLC
evaluates each.

*Only model-checked:* liveness (`ReadsAnswered`, `WritesAnswered`, `RequestsTaken`, `Answered`, `FetchTaken`,
`ComesDown`, `ParityChanges`, `InputEmptied`), since fairness and ENABLED are beyond the prover. The three
findings are counterexamples.

## 5. Not modelled

* Third-party code: `usb_hid_host.v`, `hdmi/`, `txuartlite.v`, `rxuartlite.v`, `debouncer.v`; generated
  clocks and board tops.
* Code that is not in the repository: the datapaths and the pipelined divider are stubs.
* The display scan of `MemoryMap`: it follows the pixel counters of the third-party HDMI module, and
  what rows these reach is not in the repository.
* The adders: functions of their inputs without state, which their tests compare with addition.
* LEDrop: one short loop that waits, compares a button and shifts a light; its one hazard, a delay
  below zero at level nine, depends on the build profile.
* The drawing of the desktop version of Candy Crvsh, the same as that of the other.
* The two ports of the memory on one array: an instruction the program has just stored
  would be fetched as it was before. No program here stores instructions, and nothing says they may.
* The disassembler, build and test scripts, traces, image and font data.
