# Deadlocked: a TLA+ verification project

Deadlocked is a 32-bit x86 teaching kernel (`student-distrib/`) with a small
user space (`syscalls/`, `fish/`).  This directory holds TLA+ models of its core
logic, TLC configurations that check them on small instances, and theorems with
machine-checked proofs.

## 1. Inventory

One CPU, built at `-O0`.  System calls enter through `int 0x80`, a *trap* gate:
interrupts stay on inside `execute`, `halt`, `read` and `write`.  The keyboard,
the timer, the RTC and the exceptions use *interrupt* gates.  The keyboard handler
does its work directly: it prints, it switches terminals, it starts a shell and it
calls `halt(0)`, on top of whatever kernel code it interrupted.

| Component | State | Operations | Interacts with |
|---|---|---|---|
| Process control (`syscall.c`, `wrappers.S`) | `pnumarr`, `pnum`, `curr_pcb`, the PCBs (`parent`, `oldesp`, `haltesp`), `tss.esp0`, the page at 128 MB, the list node `process1` | `execute`, `halt`, `setPnum`, `createPCB`, `parentPage`, `Save`, `contextSwitch`, `retToPar` | everything below |
| Terminal switching (`scheduling.c`) | `indicator`, `fts_1..3`, saved cursor and line of each terminal | `screen1..3` | called from the keyboard handler; calls `execute` |
| Scheduler (`pit.c`, `scheduling.c`) | `quantum`, `head` | `pit_handler`; `pSwitch` is never called | |
| Exceptions and gates (`idt.c`) | the IDT | 19 handlers that print and call `halt(0)` | |
| Keyboard (`keyboard.c`) | shift, ctrl, alt, caps flags | `keyboard_handler` | `putc`, `halt`, `screenN`, `reset_screen` |
| Line input and console (`terminal.c`, `lib.c`) | `tbuffer`, `tbuf`, `tflag`, cursor | `putc`, `terminal_read`, `terminal_write` | keyboard handler and system calls share all of it |
| Video memory (`scheduling.c`, `paging.c`) | `page_table_2`, TLB, the video memory and three saved screens | `copyToVideo`, `copyFromVideo`, `vidmap` | `screenN`, programs that draw |
| File descriptors (`syscall.c`) | `fd[8]`, and a copy in each PCB | `open`, `close`, `read`, `write`, `initFOTP`, `createFD` | copied by `execute` and `halt` |
| Arguments (`syscall.c`) | `filename`, `arg` | `parse_arg`, `getargs` | `execute` |
| File system (`filesystem.c`) | read-only image | `read_dentry_by_name`, `read_dentry_by_index`, `read_data`, `file_read`, `directory_read` | descriptors, `checkFile` |
| RTC (`rtc.c`) | the chip's registers, `read_flag` | `rtc_init`, `rtc_read`, `rtc_write`, `rtc_handler` | programs and the interrupt share the ports |
| Interrupt controllers (`i8259.c`) | masks, requests, interrupts in service | `i8259_init`, `enable_irq`, `send_eoi` | every handler |
| Boot (`boot.S`, `kernel.c`) | gates, interrupts on or off | `entry` | initialises all of the above |
| Library (`lib.c`, `ece391support.c`) | none | `printf`, `itoa`, `strncmp`, `memcpy`, ... | |
| User programs (`syscalls/`, `fish/`) | their own memory | `ece391syserr`, `ece391grep`, `fish` and others | system calls |

What is hard in this code:

- `execute` never returns by itself: it freezes its activation on the caller's
  kernel stack and `halt` of the child resumes it through a pointer in the
  child's PCB.  Any stack reuse in between is fatal and shows up much later.
- `pnum`, `curr_pcb`, the page directory and `tss.esp0` are four copies of "the
  current process", switched at four different places with interrupts on.
- `Alt-Fn` starts a shell *inside* an interrupt handler on top of the running
  process, so the new shell's parent is whoever ran at that time.
- One line buffer, one "reading" flag and one cursor serve three terminals, and one
  descriptor table and one argument serve all programs.
- A page table that changes while the CPU holds cached translations of it.
- A chip behind an index and a data port, used by a system call and by an interrupt.

## 2. The modules

| Section | Module | Models | Abstract specification | Proofs |
|---|---|---|---|---|
| 3 | `Process` | execute, halt, exceptions, terminal start | `ProcessCalls` | `ProcessProofs`, `OneTerminalProofs` |
| 4 | `LineDiscipline` | `putc`, `terminal_read`, `terminal_write` | `LineEditor` | `LineProofs` |
| 5 | `FileSystem`, `FileTable`, `SysErr` | descriptors, files, arguments, the error tests | `FileStreams` | `FilesProofs` |
| 6 | `Screens` | video memory, page table, TLB | | `ScreensProofs` |
| 7 | `Pic`, `Rtc`, `Keyboard`, `Devices` | devices and boot | | `DevicesProofs` |
| 8 | `Memory`, `Strings`, `ParseArg`, `Library`, `Programs`, `Blink` | library, grep, fish | `BlinkList` | `LibraryProofs`, `BlinkProofs` |

The order was: process control first, because everything else relies on a program
coming back from `execute`; then what all terminals share (line, descriptors,
screens); then the devices; then what has no concurrency.  `MC...` modules are the
roots for TLC.  A component's properties stand in the module they are about.

What could follow: weaker invariants of `Process` for several terminals, and for Ctrl-C
in the two windows of section 3; bounds of the line buffer with several terminals.

## 3. Process control

### Modules

| Module | Content |
|---|---|
| `Process` | the state machine and its properties |
| `ProcessCalls` | abstract specification: programs call each other and return |
| `ProcessOneTerminal` | the one-terminal case: inductive invariant `IInv`, refinement mapping to `ProcessCalls` |
| `ProcessProofs` | proofs for every number of terminals and every key interleaving |
| `OneTerminalProofs` | proofs for the one-terminal case |
| `MCProcess`, `MCOneTerminal` | roots for TLC |

### How the model relates to the code

A kernel stack is a sequence of *activations* (an activation is one entry into the
kernel, by system call, interrupt or exception).  `kstack[p][d]` is non-empty where
an activation was frozen by `contextSwitch`; a saved stack pointer is a pair
(stack, depth).  `tss.esp0` decides where the next entry from user mode starts;
everything above that place is memory the entry may overwrite (`Clobbered`), and
that is the only way a frozen activation gets lost.  PCBs are named by their slot:
the code computes their address from `pnum`, so a PCB is reused with its old
fields, and so is it here.

`execute` is three steps (`Execute`/`TakeSlot`, `CreatePCB`, `ContextSwitch`) and
`halt` five (`HaltEnter`, `HaltRespawn`, `HaltUnwind`, `HaltReload`, `RetToPar`),
cut where a variable that a key handler reads has been written and its partner has
not.  `KeysInKernel` says whether keys are delivered at these points too.

`who` is the process whose code runs.  It is not a variable of the kernel but what the
CPU does: `contextSwitch` enters the image in the page that is mapped, so it becomes
`page`; `retToPar` resumes the activation found at the saved stack pointer, whichever
that is, so it becomes the `owner` that was recorded when the activation was frozen.
`RunsInItsOwnPage` compares it with what the kernel believes.

`halt` sets `tss.esp0` to the child's saved `oldesp` (`Esp0OnHalt`), a place inside the
caller's activation and not the top of its stack, so each pair of `execute` and `halt`
uses up one more activation of the caller's kernel stack.  The code has no check for
that.  `MaxDepth` is the size of the stack in activations, and an entry that finds it
full is the action `Overrun`: it would write over the PCB below the stack, and the model
stops there (`overrun`).

| Action | Code |
|---|---|
| `Boot` | `init_screen_memory`, `screen1` |
| `Execute`, `ExecuteFails` | `execute` up to `createPCB`; its two early returns |
| `CreatePCB`, `ContextSwitch` | `createPCB` before and after `tss.esp0` |
| `Halt`, `CtrlC`, `Fault` | the three callers of `halt` |
| `HaltRespawn` .. `RetToPar` | the body of `halt` |
| `AltFirst`, `AltAgain` | `screenN` when the terminal is new / known |
| `Block`, `Unblock` | a `read` or `write` that spins |
| `Pit` | `pit_handler` |
| `Overrun` | an entry that finds the kernel stack used up |

Left out of this module: the descriptor table and the argument (section 5), the
screen contents (section 6) and the program's image; `quantum`, which nothing reads;
`process2`, `process3` and the branches for `active # 1` (`active` is never
assigned).  When a key handler that interrupted an `execute` or a `halt` starts a
shell, what the interrupted call does after the shell is gone is not followed: the
model calls such a continuation `"lost"`.

### Runs

| Run | Question | Bounds |
|---|---|---|
| `one_terminal` | Does execute/halt behave as call/return on one terminal, with keys at every step? Does the right program run afterwards? Does every call finish? Is `IInv` an invariant? | real table: 3 shells, 6 slots; depth 4 |
| `terminals` | What survives a second terminal and Ctrl-C and Alt-F2 at every step of execute and halt? | 2+2 slots, depth 3 |
| `v_lost` | violated: a program started after a terminal switch has no return path | 2 terminals, 3 slots, depth 2 |

In `one_terminal` and in its theorems keys arrive at every step of `execute` and `halt`
(`KeysInKernel` is true in the run and arbitrary in the proofs), with one exception
(`Undisturbed`): no Ctrl-C falls into one of two windows (`Window`).

- `execute` of a program, from `setPnum` to the stack switch (`syscall.c:34-398`): the
  `halt` of that Ctrl-C frees the new program's slot but unwinds with the PCB of its
  caller, or with a PCB whose `haltesp` is an old one.
- `halt` between `curr_pcb = parent` and `pnum = curr_pcb->pid` (`syscall.c:95-96`): it
  unwinds the caller and frees the slot of the program that was gone already, so the
  caller's slot is never freed.

The code does not exclude either: `int 0x80` is a trap gate.  It is a condition on the
user, and without it the properties of `one_terminal` fail.  Ctrl-C in the `execute` that
restarts a shell, and anywhere else in `halt`, is covered.

Depth 4 has a shell run a program that runs a program that runs a program, and the stack
reused after each has halted; `Overrun` is reached, and `SyscallsComplete` names it as
the one way for a call not to get back to user code.  `CHECK_DEADLOCK FALSE` is used
where the model stops because control was lost.

Fairness (`OneTerminalFairSpec`): weak fairness of the kernel's own steps, because
nothing else can use the CPU once an interrupt handler has returned, and of the timer
tick.  No fairness is assumed of user programs or of keys.

### Proofs

All constants are arbitrary up to `ConstantsAssumption` (at least one terminal, more
slots than terminals).

- `ProcessProofs`: `PInv` strengthens `TypeOK` by what each stage of execute and halt
  guarantees about `curr_pcb`, `pnum` and `page` (for instance: from `exec` on the page
  is that of `pnum`; in `resume` both belong to `curr_pcb`).  It gives `TypeCorrect`,
  `GlobalsAlwaysAgree` and, with one more induction, `FirstStart`, for any number of
  terminals and any keys at any time.
- `OneTerminalProofs` is about `OneTerminalSpec`: every step of `Next` that satisfies
  `Undisturbed`.  `IInv` adds three parts.  `ChainInv`: the live processes form a
  chain of callers that ends in the running process, no two programs share a
  caller.  `FramesInv`: each program's `haltesp` and `oldesp` point at the activation
  that started it, in the caller's stack.  `StageInv`: where `ksp`, `esp0` and `ret`
  point at each stage, and who runs.  The chain is what makes the frames survive: the
  running process is nobody's caller, so what its own entries overwrite is no one's
  return path.  A Ctrl-C inside `halt` starts a second `halt` on the stack of a process
  that is already gone (`HaltStack`): nobody's return path lies there either.
  From `IInv` follow `OwnPage`, `OwnSlotAndStack`, `ReturnPath`, `ControlKept`,
  `Accounting` and the refinement `CallAndReturn`.  `Foreground` needs one more
  induction (`NodeInv`): the list node is already right while `halt` is about to
  return, which is when `ForegroundNode` itself does not look at it.

Only model-checked: `SyscallsComplete` (liveness).

### What the multi-terminal case shows

With a second terminal most of the one-terminal properties fail, because the only
list node in use, `process1`, carries one terminal's number: `haltesp` is not saved
for a program started on the other one, parents form cycles across terminals, and
the list node no longer names the running process.  `halt` may resume an activation of
another process through a `haltesp` an earlier program left in the PCB: then that one's
code runs in the page of the process `halt` returned to, so `RunsInItsOwnPage` fails.
What is left, for any number of terminals and any keys, is `GlobalsAgree` (the kernel's
three copies of "the current process" agree, whoever runs) and `FirstStartHasItsSlot`;
both are proved.

Two more behaviours can be read off the actions.  The status given to `halt` is put in `eax`
(`wrappers.S:63`), but it resumes `createPCB`, which returns 0 (`syscall.c:408`), so the
caller of `execute` never sees it, although `ece391syscall.h:9-11` promises its low byte
and `buglog.txt:73` lists the loss.  And `pSwitch` is commented out in `pit_handler`
(`pit.c:38`), so there is no round robin as `README.md:15` of the repository has it: a
terminal that was left runs again only when the programs above it halt.

## 4. Line input and console output

### Modules

| Module | Content |
|---|---|
| `LineDiscipline` | `putc`, `terminal_read`, `terminal_write`, the keys that print, the saved line of each terminal |
| `LineEditor` | abstract specification: a line that is typed, corrected and delivered |
| `LineOneTerminal` | the one-terminal case and its mapping to `LineEditor` |
| `LineProofs` | proofs for every line length and screen size, the refinement included |
| `MCLine`, `MCLineOne` | roots for TLC |

### How the model relates to the code

`con` holds the globals of the terminal on display: cursor, `tbuf`, `tflag`,
`tbuffer`.  `saved[n]` is what `getCursorandBuffer` keeps for a hidden terminal; it
has no flag, so `Restore` leaves `tflag` as it is.  A character carries the terminal
it was typed at, which is how `TypedHere` can tell lines apart.

The keyboard handler runs `putc` from start to end (`PutChar`, `NewLine`,
`Backspace` are whole calls, the inner `putc(' ')` of a backspace included).  A
program's `putc` runs with interrupts on and is cut wherever a key can make a
difference: at every use of `tbuf` (at `-O0`, `tbuf++` is a load, an addition and a
store, and so is `tbuf -= 2`), after each test whose outcome is used later, and inside
the scroll.  What is left as one step: a cell is drawn and the column goes on, to the
next row if need be (`Advance`); the three assignments that bring a backspace to the
row above; the two remainders of `lib.c:301-302`; the copying of the rows, of which the
cells are not modelled.  A key inside one of these can displace a character on the
screen.  `terminal_read` is `ReadStart`, `ReadSeen` (the loop on `tflag`), `ReadCopy`,
`ReadReturn`.

| Action | Code |
|---|---|
| `KeyChar`, `KeyBackspace`, `KeyEnter`, `CtrlL` | `keyboard_handler` calling `putc` or `reset_screen` |
| `AltFirst`, `AltAgain` | `screenN` on a new / known terminal |
| `ReadStart` .. `ReadReturn` | `terminal_read` |
| `WriteStart`, `WritePass` | `terminal_write` up to its loop on `indicator` |
| `WriteLine` | `putc('\n')` up to the scroll |
| `WriteBack`, `WriteMove`, `WriteRefused`; `WriteStep`, `WriteTake`, `WriteDrop` | `putc('\b')` before and after its `putc(' ')` |
| `WriteDraw`, `WriteWrap`, `WriteCheck`, `WritePut`, `WriteLoad`, `WriteInc` | `putc` of a character or of that blank |
| `WriteScroll`, `WriteBlank` | the scroll of both |
| `WriteReturn` | the end of `terminal_write` |
| `Printf` | the message of a failed `execute`, which has no such loop |
| `Execute`, `Halt`, `Fault` | the process that runs changes (details in `Process`) |

Left out: what the cells hold, the attribute bytes and the hardware cursor.
A message of an exception is one character and a newline.  A process on whose
top `AltFirst` starts a shell is not resumed: whether it ever is, is the business
of `Process`.

A write outside the page of the video memory (`InPage`), or before or behind `tbuffer`,
sets `outside`, and the model stops there.  This happens on one terminal in three ways.

- After Ctrl-L with characters in the line, backspace at the top left corner draws before
  the first cell.
- `putc` scrolls with `screen_y` = 25, one below the screen, and then takes 1 off.  A key
  inside the scroll sees that row: a character wraps it to row 0 (`lib.c:302`) and the
  `screen_y--` of the interrupted `putc` makes it -1, so that it blanks a row before the
  video memory; Enter scrolls once more and blanks the row below the screen, whose end is
  behind the page.  A program that is killed inside the scroll leaves the cursor below the
  screen, where the next new line does the same.
- A read that Ctrl-C killed leaves `tflag` at 1.  A program that then prints a backspace tests
  `tbuf > 1`; a Backspace key between this test and `tbuf -= 2` takes `tbuf` to -1 or -2, and
  what is printed or typed next is stored before `tbuffer`.  The next read sets `tbuf` to 0.

None of these is excluded by a property; `BufferInBounds` says how far `tbuf` can go and
that the line of a read is not concerned.

### Runs

| Run | Question | Bounds |
|---|---|---|
| `line` | Is anything stored behind the buffer? Does the echo follow the line? Does a read implement `LineEditor`? | 3 characters, 3 x 2 cells in a page of 8, reads of 1 and 3 bytes, programs print characters, new lines and backspaces |
| `line_two` | Does every read whose line has ended return, whatever terminal is shown? | 2 terminals, 1 character, 1 x 1 cells in a page of 2, programs print new lines |
| `v_wrong_buffer` | violated: a read returns another terminal's line | 2 terminals |

With `BUF` = 3 a line is empty, short, one below the limit, full, and one past it;
it wraps once and scrolls.  Reads of 1 byte cut the line, reads of 3 do not.
`EchoInPlace` is about lines that fit in two rows; with `BUF` >= `Cols` + 3, as in
the code (128 and 80), longer ones break it (below).  Layout
and text play no part in `line_two`, so it has the smallest ones.  The page (`Cells`) has
fewer cells below the screen than a row and its end take, as in the code (2048 cells,
2000 shown): the first row below the screen begins inside the page and ends behind it.

`MinTbuf`, `MaxTbuf`, `MaxRow`, `CursorBound` and `StepBound` are bounds.  The first two
are never reached on one terminal (`LInv`); with more, `putc` can step over the limits
again, and `tbuf` is not followed further.  `MaxRow` stops new lines of programs from a
cursor that is more than a row below the screen, the last two stop following a cursor
that has left the screen at the top.

Fairness (`FairSpec`): weak fairness of the steps inside `terminal_read` and
`terminal_write`.  A process in the kernel keeps the CPU except for interrupt
handlers that return.  Nothing is assumed of keys or of user programs.

`LineEditor` promises what the code does: a backspace removes the last character,
but two from a full line, because the blank it draws is refused by the limit; a
full line is delivered without its last character.  The number that `terminal_read`
returns is not in the model: it is one more than the bytes asked for when the line
has exactly that length, and its loop clears 129 bytes of the caller's buffer
whatever the size asked for.

Five more behaviours of the code can be read off the actions.  `terminal_read` leaves
`tbuf` at the length of the line it returned and `putc` refuses a backspace only when
`tbuf` is 0, so between two reads `KeyBackspace` erases what programs have printed
(`buglog.txt:24` lists this as fixed).  The limit of the line holds for output
too: with a full line that Ctrl-C abandoned, `WriteDraw` is not possible and
`terminal_write` returns 0 with nothing drawn.  A key between the test and the
increment of the `putc` that fills the line takes `tbuf` to one past the limit
(`BufferInBounds` says no further), where the test for equality (`lib.c:276`) no longer
stops later characters from being drawn.  A line that is erased back over two
wraps takes the column to -80, where `screen_x %= NUM_COLS` (`lib.c:301`) gives 0: the
cursor jumps a row forward.  And `terminal_write` looks at the displayed terminal once
(`terminal.c:57`), so a switch after that sends the rest of the text to another screen.

### Proofs

`LineProofs` assumes `LineAssumption` (positive sizes) and `OneTerminalAssumption` (no
terminal switch).  `BufferInBounds` is not inductive: how far `tbuf` may be when a
program stores depends on what it has tested and loaded.  `LInv` adds that: between
the test and the increment `tbuf` is at most `BUF`, because keys stop there, and
the loaded value is at most `BUF`, so the count ends at most one past the limit; and
for a backspace, that `tbuf` was 2 or more when it was tested and keys take it down to
0 at most, so `tbuf -= 2` ends at -2 at the lowest.
`LineTypes` and `NoOverrun` follow.

`ReadIsEditor` is the refinement: every step of the console is a step of `LineEditor` or
changes nothing it sees.  `Text` reads the line off `tbuffer` and `tbuf`; the lemmas
`TypedText`, `CutText` and `CopiedText` say what typing, erasing and the copy of
`terminal_read` make of it.  `RInv` adds to `LInv` that the line fits during a read and
that it has ended once the loop on `tflag` is left.

`EchoFollows` is `EchoInPlace` for every `BUF` > 1.  The cursor is on the screen to the
right and below (`GoodPos`; a read that begins below the screen, after a program was
killed in the scroll, is left out by `column` = -1), and while a line is typed it is either `tbuf` cells past the
column where the read began or on the top row after a Ctrl-L (`EInv`); the second can
leave the screen by the top left corner.  The hypothesis excludes a line of one
character, in which a backspace moves the cursor and keeps the line.  The first attempt
at this proof failed for a good reason: with a longer line than the run has (5 characters, 3
columns; TLC confirmed it), a key whose cell lies before the first one makes the column
jump.  That store hits no mapped page, so `Typing` now asks for `Running`, as all
actions do.

Only model-checked: `ReadEnds` (liveness), and everything about two terminals.

## 5. Files, descriptors and arguments

### Modules

| Module | Content |
|---|---|
| `FileSystem` | the image and the functions that look things up and read in it |
| `FileTable` | `fd`, `arg`, the copies in `execute` and `halt`; properties |
| `SysErr` | `ece391syserr.c` as a program on top of `FileTable`; mapping to `FileStreams` |
| `FileStreams` | abstract specification: a descriptor is a stream |
| `FilesProofs` | proofs for every image, table size and depth |
| `MCFiles` | the image for TLC |

### How the model relates to the code

`chain` is the programs that are alive, as in `ProcessCalls`; the last one runs.  Each
has its name, the copy of the descriptor table in its PCB, and whether it is the first
shell of a terminal.  A key that interrupts one of the calls either leaves `fd` and `arg` alone or
does not return to the call, so each system call is one action.  The chain of a second
terminal's shell is on top of what it interrupted, as in the code; what goes wrong with
its return is the matter of section 3.

| Action | Code |
|---|---|
| `Open`, `Close`, `Read`, `Write`, `GetArgs` | the system calls, with the functions `fotp` points to |
| `Execute`, `ExecuteFails` | `execute` with `parse_arg`, `checkFile`, `initFOTP`, the copy into the PCB |
| `AltFirst` | `screenN` on a new terminal |
| `HaltBase`, `Halt` | `halt` of a terminal's first shell, of any other program |

`checkFile` compares four bytes of which `read_data` may have written fewer: either
answer is possible then (`MayRun`, `MayFail`).  `close` accepts descriptor 8, one past the
table (`syscall.c:65`).  What lies there is decided by the linker: if the word at the place
of `flags` is 0, the answer is -1 (`Close`); otherwise it is set to 0 and the kernel calls
what it takes for a `close` member.  `ClosePast` is that case, and the model stops there
(`wild`).  Counts are `int` on
one side and unsigned on the other (`Unsigned`).  Names and arguments are strings as a
whole; how `parse_arg` cuts them is in `ParseArg` (section 8).  The reading of terminal
and clock behind descriptors is in `LineDiscipline` and `Rtc`.

### Run `files`

Four descriptors (two for files: none, some and all can be in use), a file of three
bytes over two blocks that lie in the wrong order, a directory of five entries, a clock,
a depth of four programs and two terminals.  Counts are negative, zero and shorter than
the file; descriptors are given from -1 to one past what `close` accepts.  `Quiet`
programs make only the calls their own module gives them: the shell runs programs,
the tester runs its script, and one program at a time (`MaxBusy`), which may be the
directory that `checkFile` let through, makes every call.

- `ShellTableKept`: a shell keeps the descriptors it was started with and gives them to
  what it runs, on every terminal, however that program ends.
- `TestsPass`: every test of `ece391syserr` passes when it is run by shells from a terminal
  whose first shell found no files open (`FromCleanShell`).
- `ImplementsStreams`: reads deliver the bytes of a file in order and once, however they
  are cut; a program is started with the streams its caller has, and a shell has its own
  again, as they were, when what it ran has ended.

The last one has an exception (`ReturnToProgram`).  `halt` copies the table of the
caller's PCB (`syscall.c:97`), which was filled when the caller was *started*: a program
that is not a shell, opens files and runs another has lost them when that one ends, and
reads again from the old position what it had open at its start.  `FileStreams` promises
a caller the streams it *had when it called*, and that step does not implement it; no
program of the repository other than the shell calls `execute`.

Run `v_tests` (`TestsAlwaysPass`, violated) is the tester without the proviso of
`TestsPass`.  `initFOTP` resets descriptors 0 and 1 only (`syscall.c:256-294`), and the
first Alt-Fn of a terminal starts its shell over the running program.  The shell takes
over the files that program has open, and so does everything it runs: the tester finds a
descriptor open that it never opened.  `halt` of that shell starts it again with them.

### Proofs

`FilesProofs` assumes `ImageAssumption` (an image as `createfs` makes it: every block
a file's length asks for is in its inode), `TableAssumption` and, for the tester,
`TesterAssumption`: the names that `ece391syserr` expects to be missing are missing, `.`
is there.  It has three parts.

*The table.*  `ShellTableAlways` (`ShellTableKept`) needs that the first shells of
terminals, which `halt` restarts in place, are shells (`BasesAreShells`).  On a terminal
whose first shell found no files open it gives `CleanStartAlways`: a program its shells
run starts with descriptors 0 and 1 and no other, which the tester relies on.  Types need
that an open file's inode exists (`TablesGood`), or `read_data` would have no bytes to
give.  `FirstFree` and the first hit in the directory are the least of a set of numbers,
which the well-founded induction of the library gives.

*The tester.*  `TestsPassAlways` (`TestsPass`): the run looks at a table of four, the
theorem at any table of three or more.  The invariant is `TInv`: while a tester run from a
clean shell is in a test, the table holds just the descriptors its script has opened up to
that call (`Holds`), `cnt` has counted just the opens that found the table full
(`Missed`), and nothing has failed.  `err_open_lots` makes twice as many calls as the
table has free entries, so this is a statement about every place in a script of any length
(`DoneAt`).

*The streams.*  `StreamsImplemented` (`ImplementsStreams`): each action is a step of
`FileStreams` or a stutter, a return to a program that is not a shell excepted.  `ContentIs` shows that the bytes of a file are those of its
blocks in the order of the inode, for any block size and number of blocks: `Content` joins
them with a fold, and the closed form solves its equation.  The rest is that no position
is past the end of its file, in the table and in every PCB (`TablesFine`).

## 6. Video memory

`Screens` keeps apart what the page table says (`mem.pt`) and what the CPU has cached of
it (`mem.tlb`).  An access uses the cached translation if there is one and otherwise the
table, and caches what it used (`Phys`, `Touch`); the CPU may drop a translation at any
time (`Evict`); `flushTLB` drops all.  `frame` is what the video memory and the three
save areas hold, a picture as a whole.  The kernel itself writes at 0xB8000 through a
table that never changes.  `screenN` runs with interrupts off and is one step
(`First`, `Again`), its copies in the order of the code.  A program draws through the
page `vidmap` gave it (`Draw`); `ChangeProgram` stands for `execute` and `halt`, which flush.

Run `screens` (three terminals, two pictures):

- `Coherent`: whenever a program runs, the page of each terminal is where its screen
  is, and nothing stale is cached, although the copies change the table under cached
  translations.
- `ScreensKept`: a switch changes no started terminal's screen, if the page of the
  terminal that is left is not cached.  That proviso is needed: run `v_screens`
  (`IndependentScreens`) shows that a program which has drawn through `vidmap` since the
  last flush makes `copyFromVideo` copy the screen onto itself, and the saved screen is
  an old one.

`ScreensProofs` proves both for every number of terminals, and `DrawsHome`: a program
draws on the screen of the terminal its page belongs to, displayed or not, and on no
other.  `Inv` adds to `Coherent` that the displayed terminal is a started one, and that
before the first shell nothing is cached, which `init_screen_memory` relies on: it writes
the table without a flush.

## 7. Devices

| Module | Content |
|---|---|
| `Pic` | the two controllers: masks, requests, service, priorities; `enable_irq` toggles |
| `Rtc` | registers behind index and data port; `rtc_read` and `rtc_write` cut at each access |
| `Keyboard` | scan codes, modifier flags, what a key does |
| `Devices` | boot, gates, interrupts, and the three together |
| `DevicesProofs` | proofs for all keys, frequencies and states of the firmware |

Chip, controller, timer and keyboard are external and modelled from how the code uses
them.  Handlers run with interrupts off and are one step each, with the acknowledgement
and the end of interrupt (`Taken`); so is each call of `entry`.  Ctrl-C and the first
Alt-Fn do not return to what they interrupted: the call is given up (`call' = InUser`).

Run `devices`: all masks open or closed at the start and requests pending or not, as the
firmware may leave them, and keys from the first instruction of the boot on; two keys held at a time of eight that cover every modifier, a
letter, Ctrl-C and Alt-F2; frequencies at both ends and one that is refused.  Keys and
clock are used together with only two keys (`ClockKeys`), since the flags and the chip
share nothing but the controller.

- `GateForInterrupt`: no interrupt arrives at a vector without a gate.
- `KeysHandled`: every key that goes down or up from `i8259_init` on is handled in the end,
  also before `sti` and after a handler that never returned.  A key before that is not:
  `i8259_init` forgets its request, its code stays in the keyboard's buffer, and no later
  key raises the line again.
- `RtcReadReturns`: `rtc_read` returns as long as the divider runs.
- `RateProgrammed`: `rtc_write` sets the frequency that was asked for and keeps the divider,
  with clock interrupts between its accesses to the ports, unless one came between the
  choice of register A and the read or write it was for (`hit`).  If it comes between
  `rtc.c:112` and `113`, it selects register C, `prev` is what C holds, and the write puts that
  into the upper half of A: the divider stops and every later `rtc_read` waits for ever.  If
  it comes between `114` and `115`, the rate is written to register C and lost.  That is why
  the two properties have their provisos.
- `ModifiersFollowKeys`, `LettersTyped`: no modifier sticks, letters have the case the
  flags say.  The press of the right shift key is not handled (`keyboard.c:135`) but its
  release clears `shift_flag` (`keyboard.c:119`), so it types lower case and takes the left
  one's effect away; the property says so.

Fairness: weak fairness of the CPU's own steps and of the clock, strong fairness of each
interrupt.  Strong, because a request may be passed over as long as one of higher
priority waits; that it is not passed over for ever is what the devices' rates give
(at most some thousand interrupts a second against millions of instructions).  Nothing is assumed
of keys or programs.

### Proofs

`DevicesProofs` assumes `KeysAssumption` (scan codes of 7 bits, so that a release, which
sets the eighth, is no other key's press) and holds for any keys, frequencies, number of
keys held and state the firmware leaves.  `Inv` has a part per theorem:

- `BootInv` follows the calls of `entry`: the gates are there from `idt_init` on and no
  key is handled, so no flag is set, while interrupts are off.  With the types it gives `GatesPresent`
  (`GateForInterrupt`).
- `MaskInv` follows the masks through the boot.  `LinesAreOpen`: once interrupts are on,
  the lines of timer, keyboard and clock are open, although `enable_irq` toggles a bit.
- `KeyInv`: a modifier's flag agrees with its key unless the code that will change it
  waits in the controller, and then the key is as the code says.  `ModifiersRight` and
  `LettersRight` follow.
- `WriteInv`: what `rtc_write` knows at each of its port accesses, and that its rate is the
  one of the frequency asked for, as long as no clock interrupt has come between the
  choice of register A and the access to it.  `WriteProgramsRate` (`RateProgrammed`) follows.

Only model-checked: `KeysHandled` and `RtcReadReturns` (liveness).

## 8. Library and user programs

### Modules

| Module | Content |
|---|---|
| `Memory` | `memset`, `memset_word`, `memset_dword`, `memcpy`, `memmove`; `MemoryRight` |
| `Strings` | the string functions of kernel and user programs; `StringsRight` |
| `ParseArg` | `parse_arg` on the bytes of its two buffers; `ParseRight` |
| `Library` | `itoa` and `printf`; `PrintfRight` |
| `Programs` | `grep`; `GrepRight` |
| `Blink`, `BlinkList` | the list of blinking characters of `fish`, as structures and as a sequence |
| `LibraryProofs`, `BlinkProofs` | proofs |
| `MCPrograms` | the constants for TLC |

### How the model relates to the code

A library function is a function of its inputs.  A loop that writes is a function of the
number of its turns (the state after each turn), a loop that only looks is the first index
at which it stops.  A memory is a function from addresses to bytes, in which a double word
moves as a whole; a C string is a sequence with a 0 in it.  A turn of `grep` (`GrepTurn`) is
one of its inner loop, with the read of the outer one before it when a line starts at 0;
the turns go on until both loops have ended (`done`).  Each input is an initial state (`input`), and one invariant per
family compares the result with a definition that does not look like the code:
`StringsRight` (`ReverseRight`, `CopyRight`, `CompareRight`), `MemoryRight`, `PrintfRight`
(`NumberRight`, `FormatRight`), `ParseRight`, `GrepRight`.

The provisos say what the functions do not promise.  `memcpy` goes upwards only.
`memmove` sets the direction flag for areas that overlap upwards (`lib.c:620`) and does not
clear it; each of the functions here clears it first, nothing calls `memmove`, and the flag
is not modelled.
`parse_arg` takes the *last* field as the argument and does not bound a field by its
buffer: a field of 32 characters or more runs over (`Short` excludes it), and with shorter
ones nothing is written behind the buffers, although the loop goes on behind the end of
the argument.  The bytes behind a command are taken for zeros (`Given`): the shell's come from
`terminal_read`, which clears 129 bytes of the buffer it reads into, so commands of
about 100 characters or more with an argument are left out.  `grep` looks at the byte behind the buffer before
anything has been stored there: if it is a newline, a line cut there is taken for two.
It also needs lines that fit the buffer (`ShortLines`), and the files have no bytes 0.  A directory, an entry or a file that cannot be opened, read
or closed ends it with a status that says so (`Fails`, `Left`).

`Blink` is the list of blinking characters of `fish`: structures in an array, linked by
hand, with 16-bit words compared as signed ones.  `ListSound`: the list ends and holds
just the structures in use.  `ImplementsList`: it behaves as the sequence of `BlinkList`,
where a length of 1 to 2^15 (`SignBit`) lasts that many ticks and any other one tick.  `fish` uses
no location 0, which `mp1_malloc` would take for free (`BlinkAssumption`).
`mp1_ioctl_sync` always draws the off character (`cmovl` after a `testb`), and `BlinkList`
says so.

Run `programs`: strings of up to two of three byte values (one of them negative as a
signed byte), memory of 11 bytes (every alignment, with a double word and both rests),
all numbers of two hexadecimal digits, formats of up to three pieces, commands of up to
three times the length of a buffer, files of up to 6 bytes for a grep buffer of 3 (three fillings), and for
`fish` three structures, a location off the screen, and words of 2 bits, so that signed
and unsigned differ.

### Proofs

`LibraryProofs` assumes `CellsAssumption`, `StringsAssumption`, `NameSizeAssumption`,
`HexPlacesAssumption` and `GrepAssumption`, which only say that sizes are numbers and characters are bytes other
than 0.  A loop is an
equation that its states solve, turn by turn.  For each loop the proof has a closed form
of the state after k turns, shows that this form solves the equation, and that nothing
else does: the least turn at which another solution differed would contradict it.  So the
induction over the turns is the well-founded one of the library, and no theorem with an
operator as a parameter is needed.

- `MemsetFills`, `MemmoveMoves`, `MemcpyCopies`, together `MemoryAlways` (`MemoryRight`):
  for any memory and alignment.  `ToBoundary`, the double words and the rest add up to n
  bytes; for overlapping areas the invariant of the loop is that what has been overwritten
  is no longer needed, which is where the direction matters, and where `memcpy` with its
  double words needs its proviso.
- `StrrevReverses`, `StrcpyCopies`, `StrncpyCopies`, `StrncmpCompares`, `UserCompares`,
  together `StringsAlways` (`StringsRight`): for any strings, lengths and limits.
- `ParseArgCuts`, and from it `ParseAlways` (`ParseRight`): for buffers of any size with
  any old contents and commands with any number of fields.  `parse_arg` has no closed
  form; `PInv` is the invariant of its turns: which field is being read, what the two
  buffers hold, that i and c stay in step, and that nothing was written behind the buffers.
- `NumbersPrinted` and `FormatsPrinted`, together `PrintfAlways` (`PrintfRight`): for every
  width of an int, every number, and formats of any number of pieces with any arguments.
  The digits of `itoa` have no closed form either: a sequence of quotients exists
  (`Iterates`), ends (`QuotientsEnd`), has at most as many places as an int has
  hexadecimal digits (`FewPlaces`), and what the reversed digits denote after i of them is
  the quotient i turns before the end.  For `printf` the closed form is that after k turns
  the first k pieces are printed and `esp` has passed the arguments they take
  (`PieceTurn`, `UsedIs`).
- `GrepFinds`, and from it `GrepAlways` (`GrepRight`): for buffers of any size, files of any
  length whose lines fit the buffer, and every text.  `GInv` is the invariant between two
  turns.  The buffer holds the last bytes read (`Held`), and the place p of the file the
  search has come to is one of two: where a line starts, and what was found is what the
  lines before it give (`LineStart`); or the end of a line that has been searched without
  its newline (`LineDone`), because it just filled the buffer or ended the file, and the
  newline, if there is one, will be searched as an empty line.  The byte behind the buffer
  matters only while the file goes on, and then the buffer is full (`Ready`).  `Ahead`
  bounds the turns that are left: a line takes at least one byte, and a line that is kept
  is followed by a read.

`BlinkProofs` assumes `BlinkAssumption` and holds for every array, screen, width of a word
and set of lengths.  The run compares `After`, which follows the pointers, with the free
structures; the proof has to say which structures are linked and in which order.
`PathInv` does: there is a function `p` on 1..`n` that names them without repetition, from
the head over the NEXTs to NULL, and its values are just the structures with a location.
`AfterPath` shows that `After` runs along `p` (the least index where it would not is a
contradiction), `PathAdd` and `PathRemove` what the two operations make of `p`.

- `ListStaysSound` (`ListSound`) follows from `PathInv`.
- `BlinkTypes`: links stay in the array, countdowns and lengths stay words.
- `BlinksAreAList` (`ImplementsList`): each call and each tick is the one of `BlinkList`.
  `FindAgrees` shows that both find the same blink, `FullAgrees` that the array is used up
  just when the sequence has its full length, `CountFacts` that a signed countdown is over
  when one tick is left.

## 9. Not modelled

- `ece391emulate.c`: a stand-in for the kernel on Linux, not part of the running system.
- `cat`, `ls`, `hello`, `counter`, `pingpong`, `testprint`, `sigtest`: straight-line clients
  of the system calls.  The models let programs make any call at any time, which
  includes what these do.  (`counter` has no path to its counting: every answer is
  "Wrong Choice!".)  `set_handler` and `sigreturn` only return -1.
- The picture files of `fish` (`add_frames`): a merge of two files read byte by byte
  through descriptors as in `FileStreams`.
- `x86_desc`, `multiboot.h`, the printing in `entry`: constants and layout.
- `pSwitch`, `processSwitch`, `disable_irq`, `rtc_open`, `rtc_close`: never called.
- The bytes of the screen, the attribute bytes, the hardware cursor, and the loading of a
  program's image: data no property here looks at.

What stays with TLC: liveness in every module (`SyscallsComplete`, `ReadEnds`, `KeysHandled`,
`RtcReadReturns`), which the prover does not do.  Every invariant and every
action property that a passing run checks is also proved.
