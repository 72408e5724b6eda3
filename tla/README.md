# A verification of the Wii U Recovery Menu

TLA+ modules of the recovery menu (`src/`), runs of the TLC model checker and
proofs for the TLA+ proof system, TLAPS. Paths below are relative to
`src/ios_mcp/source/` unless they say otherwise.

Check a run with `tlc -config X.cfg M` (the module of each configuration is in
the table of runs), and the proofs with `tlapm XProofs.tla`.

## The system

The menu runs on the Wii U's security processor under IOSU. A kernel part
(`src/ios_kernel`) patches the running system so that MCP starts the menu
thread; the menu thread draws a list of options, reads two buttons and calls one
option after another. There are no tests in the repository; what it promises is
said in `src/README.md`, in comments and on the screen.

| component | state it keeps | operations | modules |
|---|---|---|---|
| main menu, `menu.c` | selection, `fsaHandle` | `menuThread`, `drawMenu`, `waitButtonInput`, `print_error`, `initNetconf`, `getRegionInfo`, `option_Shutdown` | `MenuInput`, `MenuOptions` |
| notification LED, `utils.c` | `currentLedMask`, `ledTimer`, a message queue | `setNotificationLED`, `initializeUtils`, `asyncThread` | `NotificationLed`, `MenuLed` |
| wupserver, `wupserver.c`, `options/StartWupserver.c` | `serverRunning`, `serverSocket`, `threadId`, one static stack | `wupserver_init`, `wupserver_deinit`, the server thread and its five commands | `WupServer`, `WupSession` |
| Install WUP, `options/InstallWUP.c`, `mcp_install.c` | `callbackQueue`, `asyncPending`, `asyncResult`, the request on the heap | the option, `MCP_InstallTitleAsync`, `callbackThread` | `InstallWup` |
| BOOT1 payload, `options/LoadBoot1Payload.c` | `boot1Params`, MEM1, PRSH, open file and buffer | `handleBoot1Autoboot`, `option_LoadBoot1Payload`, `loadBoot1Payload` | `Boot1Payload` |
| file helpers and dumps, `fsa.c`, `utils.c`, `options/Dump*.c` | open files, a buffer, the files on the card | `copy_file`, `write_file_to_sd`, `EEPROM_Read`, the two options | `Fsa`, `CopyJob`, `Dumps` |
| system region, `options/DebugSystemRegion.c`, `mcp_misc.c` | product area and game region | read, compare, repair | `SystemRegion` |
| GamePad pairing, `options/PairDRC.c`, `ccr.c` | `cdc_handle`, timeout, status | start, poll, stop | `GamepadPairing` |
| network, `netconf.c`, `socket.c`, `netdb.c`, `options/LoadNetConf.c` | two handles, the static entry of a lookup, the parsed file | `initNetconf`, `gethostbyname`, load, parse and apply `network.cfg` | `Network`, `NetConf` |
| Submit System Data, `options/SubmitSystemData.c`, `rsa.c` | the buffer, the key, the socket | collect, encrypt, send, read the answer | `SubmitData` |
| coldboot title, parental controls, system information | the settings shown | a menu each, and what is changed | `Settings` |
| `mini-gmp.c` | numbers as limbs | arithmetic, conversions, bits | `BigIntegers`, `BigNumbers`, `LimbWords`, `Limbs`, `Mpz`, `MpzBits` |
| `minilzo/`, `gfx_init_font` | the compressed font | pack, unpack | `LzoCompressor`, `Lzo` |
| drawing in `gfx.c`; kernel bootstrap, `src/ios_kernel`; MCP hooks, `mcp_normal/`, `mcp_recovery/` | pixels; patched code | | not modelled |

What is hard in this code, and hard to test, is listed line by line under
"hazards" in `PROJECT.json`: three pairs of threads share plain variables and
system handles without a lock; timers, replies and button presses race the code
that waits for them; every option has many ways out, each of which has to give
back its own handles, buffers, threads and the LED; and state is kept in static
variables that the next use of an option finds as the last one left it. The
libraries add numeric edges that hardly any input meets.

What makes each component correct:

- wupserver: one thread at a time on the stack, a stop always returns, ends the thread
  and leaves nothing behind, a stopped server executes nothing more than the command
  it was already waiting for, a running one goes on accepting.
- LED: a flash is always followed by the current mask; the LED says what the menu
  does.
- Install WUP: what is reported is what MCP said; nobody touches the request or the
  queue after they are gone; nothing is left.
- BOOT1: only a whole image of the right kind is booted, for the boot1 that will run;
  the user can cancel; every error gives back what it holds.
- options: whatever fails, an option comes back to a button and leaves no buffer,
  file, directory or key; what it tells its user is true: "Done!" of a dump or a
  configuration, "set successfully" of a region, "Paired GamePad", "submitted
  successfully".
- libraries: a function on limbs does what it says to the integers, in room that was
  made for it; a font is used only if it was unpacked whole, and unpacking stays
  inside the table and the buffer whatever the table holds.

## The modules

Each definition that stands for code has its lines in "map" of `PROJECT.json`.
A name with a suffix, such as `InitServer_WrongReset`, is a faulty form of the
definition after it; "mutants" in `PROJECT.json` says which property notices it.

### Threads

**`WupServer`**: `pc` places the menu thread and each server thread in its code; a
step is the code between two accesses to shared variables or two system calls.
The statics of `wupserver.c` keep their names. `InitServer`, `CreateThread`,
`StartThread` and `SetRunning` are `wupserver_init`; `Deinit(p)` is
`wupserver_deinit` in the menu thread or, for the "kill" command, in a server
thread; the rest follows `wupserver_thread`, `serverListenClients` and
`serverClientHandler`. Kernel threads and sockets are external: descriptors and
thread identifiers come from finite sets and are reused after they are closed or
joined, one socket at a time can be bound to the port, `shutdown` wakes `accept`
and `recv`, and joining oneself or a reaped thread fails at once. What a command
does to memory is left out. `MCWupServer` runs two kinds of console side by
side, *calm* and *rough* ones; its history variable `early` says that the new thread has
tested `serverRunning` before `wupserver_init` set it.

**`WupSession`** is what the server promises whoever starts it and connects to it, with
two variables: the server is off, on or stopping, and its client is served, gets an
answer, leaves, or is not there. A session starts only when the last one is over, and a
client is served only by a server that is on, except for the command it was already
waiting with. `SessionSpec` is `WupSession` under the mapping at the end of `WupServer`:
the server is on from the creation of its thread until the flag is cleared, and it is
stopping until that thread has ended and the menu's stop, if there is one, has returned.

**`NotificationLed`**: `setNotificationLED` in three steps (stop the timer and
return early, write over IPC, finish), `asyncThread` in three (receive, read the
mask, write), the timer and its message. Since `finalizeUtils` is never called
all messages are alike and the queue is a number. `LedSpec` is the library with
any caller.

**`MenuLed`** composes that library with the menu thread as its caller: `screen`
is the place in `menuThread`, the menus, the options and `print_error`, reduced to
their calls of `setNotificationLED`. `LedSpec` is a property of it, so the menu
implements the library's specification. `MCMenuLed` adds the history variable
`spoilt`, with the three things that may leave the LED with a mask that the menu did
not mean: "cut", a call for the current mask that stops the timer of a flash;
"overlap", a restore that has read the mask and writes it while a set is between its
own write and its end; "cancelled", an installation that the user cancelled. A
restore may come into a call anywhere else.

**`InstallWup`**: the option with its ways out, the message queue, MCP's reply
and the callback thread. The two stores of the callback thread are separate
steps; they are plain ints without a lock, so `Reorder` says whether the build
may exchange them, and the history variable `order` says whether it did for the
last reply: `ReportTruthful` allows a success to be shown as a failure only then.
MCP is external: it accepts or refuses a request and answers
one it took exactly once.

**`Boot1Payload`**: the countdown, with a clock of seconds and buttons that may
change at any time, then the loader step by step. Files are counted in blocks; a
file that is shorter or longer than its header says, encrypted or no image at all
is a possible content of the SD card. The SEEPROM's two slots, and what is in
`boot1Params` after a read that failed on the way, are modelled as they are.

### Options

**`MenuInput`** has what each option is made of. The menu thread is sequential, so
`pc` is the place of the menu thread in the code, and a step is one call with
all of its outcomes. `drawMenu` and `waitButtonInput` keep their loops:
`cur_flag` starts at 0 in each, a flag acts when it differs from the last one, EJECT
is tested before POWER. The SMC may answer any flags at any time, so a button
that is still held, both buttons at once and events without a button all occur.
`held` is what the option has taken and not given back, `told` is what it said
last, `proceed` is where it goes on after the button. `Faults` names the calls
that may fail; `Check` is the usual "if it failed, free, print, return".

**`Fsa`**: each call of `fsa.c` is the set of answers it may get; without a handle
all fail. A write may stop short anywhere, an error of `FSA_ReadDir` looks like the
end of the directory.

**`Dumps`**: the two dumps, with `copy_file` call by call (`OpenLog`, `CreateCopy`,
`AllocateCopy`, then block by block), each of its errors releasing what it releases in
the code, and `write_file_to_sd`. `CopyJob` is what they promise: a job writes no file
but its own and succeeds only when each was written as a whole, *unless it lost
something without noticing*. `CopySpec` is `CopyJob` under the refinement mapping at
the end of `Dumps`: a file is to do until this dump wrote it, and a job is damaged
after an error of `FSA_ReadDir`, a short write of `copy_file` or a `write_file_to_sd`
that wrote nothing. The exceptions are what the code does, and the mapping names all
of them.

**`SystemRegion`**: `product_area` and `game_region` are bit fields, modelled as sets
of bit numbers, `menu_productArea_id` is a bit number. **`GamepadPairing`**: the
polling loop `while (timeout--)`, with DRH, which pairs by itself once it was started.
Each request may fail, the one to stop DRH among them, whose answer the option
ignores; the history variable `stopRefused` remembers that it did. **`Network`**:
`initNetconf` with its answers of 0, and the link state that is read after its buffer
was freed, which may be anything. **`NetConf`** is the parser of `network.cfg`, one
turn of its loop per step, with the buffer that it cuts into strings; a word is one
symbol. Below it, `Meaning` says what a file means line by line, without buffer and
pointers, and `ConfigIsFile` compares the two. `Plain` leaves out values with a "=" in
them, of which the code keeps only what follows the last one. **`SubmitData`**: the
submission, the parts it sends and a server that answers only a whole request; the
sockets that its early returns lose are counted in `lost`. **`Settings`**: the menus
of the coldboot title and the parental controls, and what System Information holds.

**`MenuOptions`** composes them: `Init`, the main menu, every option, and DRH and the
server at their own pace, over one set of variables, so that an option finds what
the ones before it left: settings, handles, lost sockets, the static DNS entry, dumped
files. Installations, payloads and the sessions of wupserver are single steps here.

### Libraries

**`LimbWords`**, **`Limbs`**, **`Mpz`**, **`MpzBits`** are the functions of
`mini-gmp.c`, one operator per function: what is done to one, two or three limbs, then
vectors of limbs that wrap as C's do, then numbers as records of what is allocated,
the signed size and the limbs, then logic and conversions. A write past the room
spoils the number (`Store`). The last three use `RECURSIVE` and `Bitwise`, so only TLC
evaluates them; `LimbWords` has no recursion and is proved about.

**`BigIntegers`** is the abstract machine: registers of integers, and one call after
another with any result register, also an operand. Operands are values here: what is
tested of a result that is an operand is that it gets enough room, and not the order
in which the code reads and writes its limbs or reads `a->_mp_d` after `MPZ_REALLOC`
(`mini-gmp.c:1996`). **`BigNumbers`** is the same calls carried out on limbs.
`ArithmeticSpec` says that each step of the first is one of the second when a register
is the limbs of its integer (`Register` in `MCLibraries`). The calls come from the
integer side because the limb side is deterministic: a call and its arguments fix what
the limbs become, so that the step exists only if the function's limbs *are* those of
the sum, the quotient, the power. Registers come to a function with least room, so
that a missing `MPZ_REALLOC` shows. The factors of `mpz_gcdext` are not unique, so
`BigNumbers` checks what they promise.

**`Lzo`** is `lzo1x_decompress_safe` label by label, and `gfx_init_font`, for any set
of `Tables`. The code tests for the end of the table only now and then, and reads one
or two bytes without a test in between: `Unchecked` names them, and `UnpackSafe` says
that they exist. **`LzoCompressor`** is what made the table in `font_bin.h`; the build
leaves it out (`-DMINILZO_CFG_SKIP_LZO1X_1_COMPRESS`, `src/ios_mcp/Makefile:45`). Its
hash is a constant: any function will do. `MCTables` are tables that it makes, and
some that it does not make. Tests for lengths near 2^32 are left out: a table would
need 16 MB to have one.

## The runs

| run | module | shows |
|---|---|---|
| `WupServer` | `MCWupServer` | rough consoles (any call fails, anybody runs first, no "kill") and calm ones (nothing fails, clients send "kill", the user waits for the killed thread): `StackExclusive`, `ShutdownHitsListener`, `HasThreadUnlessEarly`, `StopReturnsUnlessHeld`, `StoppedThreadEnds`, the refinement `SessionSpec` (and with it `AtMostOneLateCommand`); rough ones: `CleanWithoutKill`; calm ones, with clients that leave at last: `CalmAccepts` |
| `WupServer_restart` (violation) | `WupServer` | see the findings |
| `MenuLed` | `MCMenuLed` | always: `FlashRestored`, `FlashEnds`, `LedSpec`; until a flash is cut off or a set is overlapped: `LedMatchesMaskUnspoilt`; until an installation is cancelled, too: `ReadyIsPurpleUnspoilt` |
| `MenuLed_stuck` (violation) | `MenuLed` | see the findings |
| `InstallWup` | `MCInstallWup` | `ReportTruthful`, `RequestOutlivesUsers`, `NothingLeft`, `InstallReported`, with every fault and either order of the stores |
| `Boot1Payload` | `MCBoot1Payload` | `BootWhole`, `VersionIsActive`, `NothingHeld`, `HeldButtonCancels`, `CountdownEnds`, `LoadEnds` |
| `Boot1Payload_late`, `Boot1Payload_reread` (violations) | `MCBoot1Payload` | see the findings |
| `MenuOptions` | `MCMenuOptions` | sessions of options with any call failing: `MenuHoldsNothing`, `RegionTruthful`, `PairingIsOver`, `SubmitTruthful`, `ConfigIsFile`, the refinement `CopySpec`, and `AlwaysReturns` |
| `Region_zero`, `Submit_layout` (violations) | `MCMenuOptions` | see the findings |
| `Libraries` | `MCLibraries` | `ArithmeticSpec`, `FontWhole` and `UnpackSafe` |

Bounds, and why they are enough:

- `WupServer`: two server threads, since a third could only do to the second what the
  second does to the first; three descriptors (a listener, a client and one more) so
  that descriptors are reused, two in `WupServer_restart`, where the reuse is the
  point. `late` counts to 2, meaning "more than one". The number of sessions, clients
  and commands is not bounded.
- `MenuLed`: all masks the code uses, a queue of one message, which fills sooner than
  the 32 of the code; sequences of calls are not bounded.
- `InstallWup`: two results, any number of installations.
- `Boot1Payload`: images of up to two blocks that are too short, exact or too long; a
  countdown of two seconds (five in `Boot1Payload_late`), since only the first, the
  last and one in between differ; the supported version is the only one, the older
  one, or missing. The block loop is the only loop over data.
- `MenuOptions`: `Sessions` are six users, each of whom chooses from the options that
  share state, as often as wished. Two logs of up to two blocks and a directory; two
  regions and a bit beyond them; two sockets, so that they can run out; four polls
  instead of thirty. `network.cfg` is any file of up to three symbols of one key, or
  one of five longer ones: those of `src/README.md` and what else a line may be. Each
  session starts with the settings that its options read varied and the others fixed.
  The number of visits is not bounded.
- `Libraries`: a limb has four bits, in two bytes of two, so that numbers of up to
  four limbs are small and each carry, borrow, normalisation and correction of a
  quotient happens for some operands; code that depends on the width does so through
  `LimbBits`. Three calls: two loads and one function. Fonts are chosen to have
  matches at every distance that the format tells apart, up to 16 KiB.

Deadlock is checked except where the code stops: when `IOS_StartThread` refused
the server's thread, when `IOS_ReceiveMessage` fails in an installation, after a
reboot or shutdown, and after the last call of `Libraries`.

Fairness: the kernel runs each ready thread (weak fairness of the menu thread's,
server threads', asynchronous and callback threads' steps), an armed timer expires,
MCP answers a request it took, and the clock advances. Nothing is assumed of the
clients of wupserver where a stop is concerned: `StopReturnsUnlessHeld` and
`StoppedThreadEnds` name what may last for ever instead, a thread that a client keeps
in `recv` or `send`, and a thread that was created and never started. Only
`CalmAccepts` has `ClientFairness` as its hypothesis: a client reads its responses and
disconnects at last (strong fairness, since a client that sends commands disables its
leaving in between). `WupServer_restart` has it too, so that its stop waits for ever
without a client that does. `MenuOptions` assumes weak fairness of the menu thread
only: nothing of the user, who need not press anything, of DRH, which may search for
ever, or of the server. `AlwaysReturns` therefore says that the options come back to a
place where buttons are read by themselves. `recv` with no answer at all waits, unless
"recv" may fail: the socket's own timeout. Where a call may fail, fairness does not
say that it ever succeeds.

## What the runs found

Listed as "findings", each reproduced by a run:

- `WupServer_restart`: a killed thread is still on the stack, asleep or on its way
  out, when the server is started again; both threads write `serverSocket`, and
  a later stop shuts down the wrong descriptor and never returns.
- `MenuLed_stuck`: `setNotificationLED` stops the timer of a flash before its early
  return for the current mask, so the LED stays off. It takes a red blinking
  main menu, which cancelling an installation leaves.
- `Boot1Payload_late`: the countdown goes on through the sixth second, as
  `secondsPassed > timeoutSecs` is false for 5.
- `Boot1Payload_reread`: `readBoot1Params` never returns 0, so its errors are not
  seen; after an earlier load whose parameters were read, a read that fails after
  the first slot leaves the older slot as the only valid one.
- `Region_zero`: a product area of 0 is invalid as well, but `getRegionInfo` makes it an
  error, so the option that repairs invalid areas gives up.
- `Submit_layout`: `(struct post_data_hashed*) dataBuffer + 0x700` counts structures, so
  the post data is put far behind the buffer, not 0x700 bytes into it.

The other runs' assumptions name further behaviours of the code, each of which can be
seen by dropping the exception. An idle client keeps a stop waiting for ever: only the
listener is shut down (`wupserver.c:200`), the thread stays in `recv` (`:116`) and is
joined (`:204`), although `options/StartWupserver.c:46` says "Press EJECT or POWER to
stop." (`HeldByClient` in `StopReturnsUnlessHeld`). A thread that `IOS_StartThread`
refused is joined as well, and the stop never returns (`NeverStarted`, there). A new
thread that runs before `serverRunning` is set ends at once, while the server is said
to run (`early` in `HasThreadUnlessEarly`; no order of the two threads excludes it).
"Wupserver running" is shown when the thread could not be created (rough consoles). A
restore that has read the mask overwrites the newer one that a set has just written,
although `utils.c:187` says "Cancel any pending led updates" ("overlap" in
`MCMenuLed`), and cancelling an installation leaves the red LED on ("cancelled"). When
the request to stop a pairing fails, its answer is ignored and DRH goes on searching
behind the menu (`stopRefused` in `PairingIsOver`). Further, with reordered stores an
installation that succeeded is shown as failed (the exception in `ReportTruthful`); a
GamePad that the last poll finds paired is reported as failed (the exception in
`PairingIsOver`); the three losses that a dump does not notice (the exception in
`CopyJob`); a key or name with a "=" in it is cut (`Plain` in `ConfigIsFile`); and a
socket is lost whenever a lookup or a part of the sending fails (`lost`).

## The proofs

| module | theorem | assumption | inductive invariant |
|---|---|---|---|
| `WupServerProofs` | `TypeCorrect`: `[]TypeOK` | | `TypeOK` |
| | `StackSafety`: `[]StackExclusive` | no "kill", or a patient user | `StackInv` |
| | `LateCommandSafety`: `[]AtMostOneLateCommand` | the same | `LateInv` with `StackInv` |
| | `ListenerSafety`: `[]ShutdownHitsListener` | the same | `ListenerInv` with `StackInv` |
| | `CleanSafety`: `[]SessionClean` | no "kill" | `CleanInv` with `StackInv` |
| | `SessionRefinement`: `Spec => SessionSpec` | no "kill", or a patient user | step simulation under `StackInv` and `ListenerInv` |
| `MCWupServerProofs` | `SessionSafety`: the invariants of both consoles | no "kill", or a patient user | those above, by instance |
| | `MCSessionRefinement`: `MCSpec => SessionSpec` | the same | the same |
| | `CleanWithoutKillSafety` | | the same |
| | `HasThreadSafety`: `[]HasThreadUnlessEarly` | | `StartInv`, `HasThread` until `early` |
| `MenuLedProofs` | `LedTypeCorrect`, `FlashSafety` | | `LedTypeOK`, a strengthening of `FlashRestored` |
| | `MenuUsesLed`: `MenuSpec => LedSpec` | | step simulation |
| | `MenuTypeCorrect`, `MenuFlashSafety` | | the three before |
| | `ReadyIsPurpleSafety`, `LedMatchesMaskSafety` | | `UnspoiltInv` |
| `InstallWupProofs` | `InstallTypeCorrect`, `RequestSafety` | | `RequestInv` |
| | `ReportSafety`: `[]ReportTruthful` | | `ResultInv` with `RequestInv` |
| | `NothingLeftSafety`: `[]NothingLeft` | | `LeftInv` with `RequestInv` |
| `Boot1PayloadProofs` | `Boot1TypeCorrect`, `HeldSafety` | | `TypeOK`, `NothingHeld` |
| | `BootSafety`: `[]BootWhole` | | `BootInv` |
| | `VersionSafety`: `[]VersionIsActive` | | itself, by `ActiveSlotIsNewest` |
| | `CancelSafety`: `[]HeldButtonCancels` | | `CancelInv` |
| `MenuOptionsProofs` | `HeldSafety`: `[]MenuHoldsNothing` | | `HeldInv` with `EntryInv` |
| | `RegionSafety`: `[]RegionTruthful` | | `RegionInv` with `TalkInv` |
| | `PairSafety`: `[]PairingIsOver` | | `PairInv` with `TalkInv` |
| | `SubmitSafety`: `[]SubmitTruthful` | | `SubmitInv` with `TalkInv` |
| | `CopyRefinement`: `Spec => CopySpec` | | step simulation under `CopyInv` |
| `NetConfProofs` | `ConfigIsFileSafety`: `[]ConfigIsFile` | | `ConfigInv`, in it `ParserInv` |
| | `TypeCorrect`: `[]TypeOK` of `MenuOptions` | | `EntryInv`, `ConfigInv`, `ValuesInv` |
| `LibraryProofs` | `UnpackSafety`: `LzoSpec => []UnpackSafe` | | `UnpackInv` |
| | `ProductExact`: `gmp_umul_ppmm` | | |
| | `InverseExact`, `InverseOfTwoExact`: `mpn_invert_3by2` | normalised divisor | |
| | `DivisionByLimb`: `gmp_udiv_qrnnd_preinv` with that inverse | normalised divisor above the high limb | |
| | `DivisionByTwoLimbs`: `gmp_udiv_qr_3by2` with that inverse | normalised divisor above the high limbs | |

They hold for every value of the constants that satisfies the modules' named
assumptions: `CfgFiles` may be any set of texts without a zero byte in them
(`NetworkConstants`; the code's string functions stop there), a menu of titles has two
to seven entries, "Back" among them (`SettingsConstants`; the code shows four or
seven), `Regions`, the indices of `region_tbl`, has the index 0 (`RegionConstants`),
and a table of a font has any number of any bytes (`LzoConstants`). Few of the safety
properties are inductive alone.

`StackInv` says that the only thread on the stack is the one `threadId` names and that
there is none where the menu is about to create one; this is what a kill followed by a
quick start breaks, and why the theorem needs its assumption. `LateInv` adds that
after a late command no thread is in `recv`. `ListenerInv` says that what
`serverSocket` names is no connection and that, once the flag is cleared, only a
thread that is in `accept` already can make one, while the listener still has its
descriptor. `CleanInv` says where each descriptor is on its way to be closed. The same
two invariants make the server implement `WupSession`. `StackInv` leaves one thread to
look at, so that the session is where that thread is (`SessionOfThread`);
`ListenerInv` says that the thread has not come to a client while the menu is about to
set the flag, so that a client that was sent away is not served again. A stop by the
menu and one by "kill" may run together: the flag is cleared twice, and only the first
time is `WupSession`'s stop. `RequestInv` says, for every place of the menu thread,
where the request is (with MCP, in the queue, or with the callback thread) and that
the queue exists until it is used up. `ResultInv` adds what `asyncResult` holds while
`asyncPending` is set and after. `LeftInv` says what each place has given back.
`BootInv` collects what each place of the loader already knows. `CancelInv` relates
the last second that was drawn to the second in which a button went down: a poll is
never more than one drawing away.

The theorems of `MCWupServerProofs` are about the specification that TLC runs. A calm
console is `WupServer`; a rough one is `WupServer` with other constants, so that the
theorems hold for it by instance (`RoughIsServer`). Those of `MenuLed` are about
`MCMenuLed`, whose history variable says until when they hold. `UnspoiltInv` has two
halves. `ScreenInv` is the menu's, until an installation is cancelled: each screen
asks for its own mask. `TimingInv` is the library's, until a flash is cut off or a set
is overlapped. Its part `RestoreInv` says that a restore which is about to write has
the current mask, that the LED still shows what a set has written when the set ends,
and that outside of a call the LED shows the current mask, or the timer, the queue or
asyncThread is about to restore it; `StartsAlone` says that nothing of this can
disturb the one call before there is a timer. `HistoryStep` says that the history
misses nothing.

`HasThread` says more than `RunningHasThread`: the thread is on the stack from before
the flag is set until it is cleared, which is inductive until a thread finds the flag
cleared while `wupserver_init` is about to set it. `StartInv` says that the menu comes
to that place with a thread.

Those of the options rest on one idea: what an option holds, knows and has said is
a function of the place where it is, or where it will be after the button (`Here`).
`HeldInv` is that function for `held`; a free that is missing on one of the paths
breaks it at the next place. `TalkInv` says that an option that has not ended has
not said how it ends. `RegionInv`, `PairInv` and `SubmitInv` say what their options
know on the way: which menu is installed, whether a success was read, how much was
sent. The *frame* lemmas of `MenuOptionsProofs` (a step of an option stays in its
places and says only its own words) let each proof look at one option and pass over
the others. For the refinement, `CopyInv` ties the running job to the place and says
that a log is written, still in `entries`, in the copy, or lost without notice.

`ConfigIsFile` compares the parser, which cuts a buffer into strings while it walks
over it, with `Meaning`, which has neither buffer nor pointers. `BufferInv` says how
the two hang together after each turn: the buffer agrees with the file from `keyPtr`
on, except for each "=" of the line, which became a zero; `keyPtr` is the begin of the
line; `valuePtr` follows the last "=", or is 0. `ParserInv` adds that the
configuration is what the lines before `keyPtr` mean (`MeaningBefore`), since a line
is evaluated when it ends. `LineParsed` is the step where that happens: the strings
that the code reads at its two pointers are the line's key and value (`KeyIs`,
`ValueIs`), and the field it sets is the one by which the meaning of one line more
differs (`LineMeaning`). No induction over the file is needed, as the parser does one
turn per step. What the parser never leaves, its buffer, was the missing part of
`TypeOK`; `EntryInv` keeps a selection inside its menu, and `ValuesInv` bounds what
the settings may be.

`UnpackInv` says how many bytes are left at each label of the decompressor: three
after literals, because `NEED_IP` asks for three more than the literals; two after the
byte that starts a match, so that its offset can be read, or one byte of its length;
and two behind the end of a match, whose last but one has the number of literals in
it. `LengthInside` and `MatchInside` say that a length of any number of zero bytes
ends inside the table and that a match comes from bytes that were written. None of
this depends on who made the table, so the theorem holds for a damaged one as well.

The theorems about `LimbWords` are about functions, so that they need no invariant;
they hold for limbs of every even number of bits, where TLC has four. The prover knows
nothing of powers. `LimbSquare` and `LimbPower` state the two facts about them that
are used, which hold for every power of two with an even exponent, and TLC evaluates
them. `CandidateClose` is the heart of all divisions, in any base: for three digits by
two, the quotient read off the product with the inverse has a remainder between two
bounds, and the low digit of that product tells on which side of 0 it is whenever that
matters. `mpn_invert_3by2` uses it on half limbs (`LowHalf`) and `gmp_udiv_qr_3by2` on
limbs (`QuotientByTwo`), where the remainder is only known modulo B^2. What is left is
to show that each of the corrections happens exactly when the remainder says so, and
that there are never more than the code makes. `Adjusted` found the place where this
is least obvious: the last correction of the inverse of two limbs is made when `tl >
u0` (`mini-gmp.c:891`), and would have to be made when they are equal as well. Then `B
u1 + u0` would be a factor of B^3, which no normalised number but a power of two is
(`LimbPower`), and `u0` would be 0.

Only model-checked: all liveness (`FlashEnds`, `InstallReported`, `CountdownEnds`,
`LoadEnds`, `AlwaysReturns`, `CalmAccepts`, `StopReturnsUnlessHeld`,
`StoppedThreadEnds`), which is out of the prover's reach as `ENABLED` is;
`ArithmeticSpec`, whose modules are recursive (what they do to each limb is proved,
what a vector of limbs amounts to is not); and `FontWhole`, which says what the
decompressor makes of the output of a recursive compressor (both would need induction
over data as well).

## Not modelled

- The kernel bootstrap and the MCP hooks: straight-line patching of other processes
  before anything that is modelled runs. The hook's count of threads
  (`mcp_recovery/mcp_recovery_hook.c:20`) relies on the order in which MCP creates its
  threads, which this repository does not show.
- The contents of memory, messages, files and the screen; how requests to IOS are
  marshalled; system calls inside IOS. The drawing of `gfx.c` is pixels.
- Calls nobody makes, and calls on whose answers nothing depends (mounting, unmounting
  and flushing volumes).
- The sizes of the fields that the values of `network.cfg` are copied to
  (`options/LoadNetConf.c:34`), and the byte before the buffer, which a file that
  begins with an empty line reads (`:134`).
- Of mini-gmp the prime tests, the conversions from and to doubles, output to a file
  and the setters of the memory functions; of LZO the unchecked decompressor and the
  checksums. None of them is called.
- The size of MEM1 (`options/LoadBoot1Payload.c:233`) and the lengths of wupserver's
  commands (`length - 8`, `wupserver.c:30`).

Places whose behaviour is in the models without a property of its own: a thread that
could not be started is joined (`wupserver.c:189`) or not
(`options/InstallWUP.c:111`), the ignored answers of `initializeUtils` (`menu.c:369`)
and of `IOS_ReceiveMessage` (`options/InstallWUP.c:18`), a held button that acts again
in the next menu (`menu.c:149`), the first entry that replaces one out of range
(`menu.c:126`), the link state from a freed buffer (`netconf.c:63`) and the lost
sockets (`options/SubmitSystemData.c:398`).

## Plan

What could follow, in this order:

1. The sessions of `WupSession` and the installations of `InstallWup` in place of their
   single steps in `MenuOptions`.
2. The limits of memory: MEM1 under an image that is longer than its header says,
   and the lengths of wupserver's commands.
3. The hooks and the creation of the menu thread, against a model of MCP's start.
