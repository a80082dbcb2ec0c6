# Verification of ESP32S3_SWD_PROG

TLA+ modules, TLC runs and TLAPS proofs for the firmware of the standalone SWD
programmer: an ESP32-S3 that flashes STM32 targets over SWD from its own file
store, transfers configurations over a UART, and is operated from an OLED menu,
a web page and FTP.

All line numbers refer to the sources under `src/`.

## 1. Inventory

### 1.1 Who runs

The firmware is a set of FreeRTOS tasks that share one connector with the target:

| task | created at | what it does with the target |
|---|---|---|
| main | ESP-IDF | initialises everything (`main.c:137-172`), then the self-test, once or every N seconds |
| ui_task | `ui.c:752` | menu; calls `prog_session_flash_file` and `prog_session_detect` itself |
| httpd | `web_ui.c` | REST; one request at a time; creates web_flash and web_avr tasks; configuration transfers |
| web_flash | `web_ui.c:668` | one per accepted `POST /api/program`; calls `prog_session_flash_file`, then ends |
| web_avr | `web_ui.c:829` | one per accepted AVR flash |
| ts_rx | `target_serial.c:307` | receives frames of the target, answers go to a queue |
| usb_lib, usb_msc | `storage_usb.c:210, 226` | USB host, mounts and unmounts a stick |
| ftp_listen, ftp_sess | `ftp_srv.c:645, 617` | FTP |
| esp_timer | `input_enc.c` | polls encoder and button every 5 ms |

### 1.2 The components

| component | state it keeps | operations | hard behaviour | what makes it correct |
|---|---|---|---|---|
| prog_session | mutex `s_lock`; through its steps the WiFi radio and the SWCLK frequency | flash_file, detect, busy, init | any task calls at any time; a dozen error exits; check-then-act by its callers | one session at a time; clock, radio and lock restored on every path; no erase of a target that was not cleared; ESP_OK means the image is in the flash |
| flm_runner | `s_state`: which loader is believed to be in the RAM of the target | load, program | loaders without some routines, two ABIs, sectors of several sizes, a routine that stops early | success only with the whole image; neighbours untouched; no erase gap; every run ends |
| cortexm_debug | none (the registers of the target) | connect, halt, resume, reset, registers | six attempts of eight steps, each can fail; vector catch left behind; two variants, with and without nRST | a connected core is at its reset vector; a session leaves it running and nRST released |
| adiv5 | cached SELECT, error flags | read, write, block transfers, connect | WAIT and FAULT retries, re-synchronisation, the 1 KB wrap of TAR | a retried transfer neither skips nor repeats a word |
| swd_phy | frequency | bit sequences, self-test of the pins | used without the lock by the self-test | (bit level) |
| target_db, flm_blobs | constant tables | lookup, RDP decoding, choice of a loader | registers of other families at the address that is read; sizes that could not be read | the row, the protection and the loader are those of the target that is there |
| target_serial | answer queue (2), TX mutex | command, cfg_pull, cfg_push, receive task | answers that come late, lost frames, a short block as end mark, 16-bit offset | a pulled or pushed configuration is the one of the other side |
| target_state | a record under a mutex | set, get | - | readers see whole records |
| storage_lfs, storage_src, storage_usb | recursive mutex each; mounted stick; event queue (4) | read_all, write_all, list, remove; mount, unmount | hot-plug during a read, full event queue, a lock held during a network transfer | a reader sees a whole file, of one stick; after unplugging the internal store is active; the lock comes free |
| net_wifi | `s_inited`, status, retry count | init, events, radio_pause | pause before the init is done, reconnects | reachable outside sessions |
| web_ui | AVR flag, WebSocket list | handlers, flash tasks, broadcast | file descriptors that are reused, check-then-act | accepted work ends |
| ui, input_enc, display_oled | menu position; event queue (16); frame buffer | events, screens | dropped events | every choice ends in a result |
| ftp_srv | session count | listener, sessions | client limit, storage lock held while the client sends | no place is lost; transfers exclude other users of the file |
| avr_isp/updi/pdi/tpi, avr_image | the reset pin and mode of the target | detect, flash; parser of HEX and ELF | targets that drop commands without notice; files that do not fit; a mode that is entered and not left | success means the file; a refused file costs nothing; the target is let go |

Interaction: `ui`, `web_ui` and `main` call `prog_session`; that calls
`storage_src`, `net_wifi`, `cortexm_debug`, `adiv5`, `target_db` and
`flm_runner`; `flm_runner` calls `cortexm_debug` and `adiv5`, and both of those
end in `swd_phy`.  Progress goes back through callbacks into the OLED and the
WebSocket.

The hazards of each component, with the lines where they bite and the properties
that cover them, are listed in `PROJECT.json` under `hazards`.

## 2. Modules

Order: what can brick or mislead first.

| module | models | built on | proofs |
|---|---|---|---|
| FlashContract | what a programming run promises | - | |
| FlmRunner | `flm_runner` | implements FlashContract | FlmRunnerProofs |
| ProgSession | sessions of `prog_session`, the radio of `net_wifi` | INSTANCE FlashContract | SwdSystemProofs |
| SwdSystem | the callers in `ui`, `web_ui`, `main` | EXTENDS ProgSession | SwdSystemProofs |
| TargetBringup | `cortexm_debug`, identification in `prog_session`, `target_db` | - | TargetBringupProofs |
| MemoryAccess | what a call of `adiv5` promises about the memory of the target | - | |
| Adiv5 | `adiv5` on a noisy wire | implements MemoryAccess | Adiv5Proofs |
| TargetSerial | `target_serial` | - | TargetSerialProofs |
| Storage | `storage_lfs`, `ftp_srv`, file handlers of `web_ui` and `ui` | - | StorageProofs |
| UsbSource | `storage_usb`, `storage_src` | - | UsbSourceProofs |
| AvrDriver, AvrAccess | the four AVR drivers; who calls them | AvrAccess EXTENDS AvrDriver | AvrAccessProofs |

Each of the state machines has an MC module with the constants of its run.  What
would come next: TargetBringup on top of MemoryAccess, in place of the variable `lost`;
the file store of Storage in place of the variable `store` of the callers;
the queue and the menu of `input_enc` and `ui`; the reconnects of `net_wifi`; the
WebSocket list of `web_ui`; and the parser `avr_image` against a reference definition.

## 3. What is modelled

### 3.1 FlashContract: what a programming run promises

Three stages, erase, program and verify, over an abstract flash that holds the
original contents, a whole image, or something dirty.  A run may fail anywhere,
disturbs the flash only in the first two stages, and succeeds only out of
verify with the image in the flash.  It is what `prog_session` needs to know
(`flm_runner.h`), and what FlmRunner is shown to implement.

### 3.2 FlmRunner: `components/flm_runner`

| variable | code |
|---|---|
| `pc`, `phase`, `failing` | the place in `flm_runner_program`, `program_cmsis` or `program_st`; the function code of Init and UnInit; the error path that calls `cmsis_uninit` |
| `algo`, `len`, `off` | arguments and loop variables (`a - base_addr` or `off`) |
| `loaded` | `s_state.loaded` and `s_state.algo` |
| `ram` | what is really in the RAM of the target |
| `flash` | one value per cell: the image cell programmed there, or old, blank, garbage |
| `cb` | the last progress call |
| `turn` | no code: it flips at every step of a run, so that a loop without progress (a sector size of 0) is a cycle that `RunEnds` sees, and not a stutter |

One action is one routine called in the target with the code up to the next
call: `Load` (88-143), `CallInit` (220-234), `EraseChip`, `EraseSector`,
`EraseRange`, `EraseSkipped`, `ProgramPage`, `VerifyPage`, `ReadBack`, `Uninit`.
`Outcomes` is what a call can do: a routine may stop early and still leave the
success code in R0, since the code only logs a halt that is not at the BKPT word
(184-191); a failing one may have done any first part of its work.  `glitched`
remembers that a routine of the session reported success for less than its work:
`OkMeansProgrammed` holds in spite of it, `NeighboursSurvive` and
`NeverProgramsUnerased` speak of sessions without it.  `StepOf` is what the erase
loop steps by; the assumption `FlmGeometry` says that the sector table of a loader
does not contradict the sectors of the device.
`StartSession` lets the target be exchanged or power-cycled between runs.
The Verify routine of a loader is trusted to return the address after the chunk
only when the chunk matches.

### 3.3 ProgSession: `components/prog_session`

`Tasks` may call flash, detect and busy at any time.  `lock` is `s_lock`, `pc`
the place of each task in its call, `data` the buffer with the file, `rdp` what
the session knows of the protection.  `radio` and `wifi` are the visible part
of `net_wifi`: `net_wifi_radio_pause` does nothing until `s_inited` is set, which
happens after the radio was started.  `freq` is the SWCLK frequency, `core` the
state of the core of the target.  `store` is all that a session sees of the mutex of
the file store: held by the client of a network transfer (`StoreTaken`, `StoreGiven`), or
free, which includes another task of the device that does a job of its own and gives it
back.  `ReadFile` waits for it without a limit, with the radio off (237, 246).  The run of `flm_runner` is the instance `Flm` of
FlashContract.  Every conversation with the target may fail, and each failure
takes the exit that the code takes (`goto out`, 375-382, or `finish`, 446-455).
The target is exchanged only while no session runs: an exchange during a session
is a failing conversation.  `QuietWires` says that a session that has switched the radio
off keeps it off while it talks to the target.

### 3.4 SwdSystem: the callers

`ui` (326-423), the HTTP server and its flash tasks (`web_ui.c:615-680`), and the
main task with boot order and self-test (`main.c:97-206`).  It EXTENDS ProgSession,
and every step is a step of ProgSession together with one of a caller, or a step
of a caller alone, so that what is proved of ProgSession holds in the system by the way
it is composed; what the run asks is what becomes of the callers.  Requests arrive only
while the radio is on.  An upload is a request that holds the store (`HttpUpload`);
`FtpTransfer` stands for the transfers of FTP.  The pin test (`main.c:101`) takes no lock
and drives the pins for a moment.  It changes no variable, because all it can do to a
session is to break a conversation, which may fail at any time anyway.

### 3.5 Adiv5: `components/adiv5`

| variable | code |
|---|---|
| `op`, `step` | the call (`adiv5_connect`, `read32`, `write32`, `read_block`, `write_block`) and the transaction it makes next |
| `i`, `k`, `chunkRetry` | the loop variables of the block transfers (716-761, 783-799), in words |
| `waitr`, `protor` | the retry counters of one transaction |
| `resynced` | `s_resync_count != resync_before` (729, 750) |
| `shadow` | `s_select_shadow` with `s_select_valid` |
| `mem`, `tar`, `rdbuff`, `bank`, `inc`, `sticky` | the target: memory, TAR, the value the next read returns, SELECT, AddrInc of CSW, error flags |
| `dropped` | no code: the target dropped a write after a good ACK since the last connect |

One action is one SWD transaction with what `dp_read`, `dp_write`,
`ap_read_posted` or `ap_write` does about its answer: `Ok`, `Wait` (302-308),
`Fault` (309-316, ABORT), `Glitch` (no valid ACK or bad parity, 317-326,
`dp_resync` 246-285), `DataLost` (a good ACK, and then noise in the data of the
write).  `Transaction` inserts the write of SELECT when `dp_select` would (372-389).
What the code ignores, the model leaves open: ABORT and SELECT of a
re-synchronisation may or may not arrive.  The target counts TAR up inside a page
and refuses everything but DPIDR and CTRL/STAT while an error flag is set.

Assumptions about the target: the access port keeps TAR, CSW and its posted value
over a line reset, as the code relies on; a write whose ACK was not OK is not
carried out, because the host then sends no data (206-209); all addresses are
mapped.  The poll for the power-up (630-643) is one transaction with a success and
a time-out.  Callers connect before they access memory.

The properties speak of the time until a write is `dropped`.  Such a write shows as
FAULT at the next access; the code clears the flag and repeats that access, not the
dropped one (421-428), so a lost TAR or SELECT goes unnoticed.  The properties show
that this is the only way to a wrong transfer, besides the finding `single_read`.

MemoryAccess is the same component without wire, ports and repeats: a write stores its
next word (`Store`), a read changes its buffer only (`Fetch`), a call may fail behind any
word (`Fail`) and succeeds only behind the last one.  A dropped write ends all promises
until the next connect (`Spoil`).  Adiv5 implements it (`ImplementsAccess`) with the words
done `i + k` of a write, the buffer, the memory, and `~dropped` for `intact`.  So it speaks
also of calls that fail or are under way: memory then has the first words of the write,
each of them once, and nothing else.  Of the word of a single read it says nothing,
because of the finding.

### 3.6 TargetSerial: `components/target_serial`

| variable | code |
|---|---|
| `job`, `at`, `offset`, `blob`, `file` | the place in `cfg_pull` or `cfg_push`, its offset, its buffer, and what it wrote into the store |
| `request` | the frame of the running `target_serial_command` |
| `queue` | `s_resp_q`, two places |
| `link`, `serial` | `link_up` of the receive task, `serial_link` of `target_state` |
| `inbox`, `outbox`, `line` | the wire: frames under way, and whether it is good or silent |
| `cfg`, `staging` | the target: its configuration and the blocks it has received |
| `clean` | no code: no frame of an earlier transfer was under way when this one began |

`Send`, `Take` and `TimeOut` are `target_serial_command` (334-376) with the code of
its caller up to the next command; `Receive`, `Status` and `Silence` are the receive
task (184-263); `Serve` is the target, `Lose` and `LineChanges` the wire.  Frames are
records; a frame with a wrong CRC is a lost frame.  An answer remembers the request
it belongs to, for the property `NoStaleAnswer` only: no action of the code looks
at it.  The target answers a request for a block beyond the end with an empty
block, collects written blocks from offset 0 on, and makes them its configuration
on COMMIT; this is the reading of the comments at 385-391 and 453-457.  An empty file
is not pushed in the model, since what a COMMIT without blocks does is up to the
target.  The HTTP server is the only caller and serves one request at a time, so
`s_tx_mtx` is always free.  A time-out may fire while the answer is still under way.
What that does to the next transfer is the finding `late_answer`; the properties
speak of transfers that are `clean`.  Files that are longer than the offsets can
say are excluded by `SerialConstants`.

### 3.7 Storage: `components/storage_lfs`, `components/ftp_srv`

Everybody who shares the mutex of the internal store, with one file in chunks.

| variable | code |
|---|---|
| `owner` | the owner of `s_mutex` of `storage_lfs.c` |
| `file` | the contents of the file, chunk by chunk, or that there is none |
| `pc`, `kind`, `off`, `got` | each task: where it is, its job, and what it has copied |
| `radio` | the WiFi radio, off between `UiFlash` and `UiFlashed` (`prog_session.c:237, 380`) |
| `active`, `listener` | `s_active_sessions`; between the count and the task (`ftp_srv.c:587-626`) |

A job is the part of a call under the mutex: `ReadAll` and `WriteAll` are
`storage_lfs_read_all` and `_write_all`, `Send` is `send_file_chunked`, `ftp_do_retr`
and `ftp_do_list`, `Receive` is `api_upload_handler` and `ftp_do_stor`.  The last two
keep the mutex while they wait for the network.  Without the radio nothing arrives and
no time-out ends an upload (`web_ui.c:443-445`, `ftp_srv.c:351`).  Sending over HTTP ends
by itself, by the `send_wait_timeout` of the server; sending over FTP depends on its client
like an upload (`HeldByClient`).  `fclose` may lose the tail of a
file, and only `write_all` looks at its result.

### 3.8 UsbSource: `components/storage_usb`, `storage_src`

| variable | code |
|---|---|
| `stick`, `plugs` | the port; the last stick has address `plugs` |
| `evq`, `msc` | `s_evt_q` of four places, and the event that `usb_msc_task` works on |
| `mounted`, `vfs`, `base` | `s_mounted`, `s_vfs`, and the file system registered at `/usb` |
| `owner` | the owner of `s_mutex` of `storage_usb.c` |
| `pc`, `path`, `off`, `seen` | each task: where it is, the store of its path, and the sticks it has seen |
| `upload` | the request of the server is an upload, which keeps the mutex while it waits for its client |
| `lost` | no code: an event found the queue full |

`Resolve` is `storage_src_base`, which looks at `s_mounted` without the mutex; `Open`,
`Copy` and `Close` are the three ways to work on a file under it.  A mount fails when
the device is gone, is no FAT, or something is still registered at `/usb`; in the last
two cases `s_vfs` is cleared (`storage_usb.c:116-122`), so that a later unmount does
not unregister what is there.  That needs a dropped event, which is why `MarksAgree` and
`FallsBack` speak of the time until one is lost.  While the client of an upload to the
stick keeps the mutex, a stick that was pulled stays mounted; `FallsBack` exempts one that
keeps it for ever.

### 3.9 AvrDriver and AvrAccess: the AVR side

The four drivers have the same course: read the file, enter the programming mode,
signature, parse, erase, write, verify, leave.  AvrDriver is this course, with `iface`
for what differs: errors of the target are seen or not (`SeesErrors`), an unknown device
is refused or flashed with default sizes (`avr_isp.c:397-400`), the chip or each page is
erased, and a pin holds the target in reset or not (`ResetPin`).  `mode` and `flash` are
the target; a command may be lost without notice, and one outside the programming
mode has no effect.  `Attempts` are the 32 pulses of ISP.  A word address of ISP has 16
bits (`AddressOf`).

AvrAccess adds who calls: the menu, the server, and the task per flash with
`s_avr_busy` (`web_ui.c:683-839`).  Nothing keeps the menu and `api_avr_detect` off the
pins while a flash runs, so `OkMeansFlashed` is about flashes that had the wires for
themselves (`alone`).  Nothing calls avr_updi, avr_pdi and avr_tpi but their own
interface; `Api` stands for a caller of them.  Every flash begins with
`storage_src_read_all`, which waits without a limit for the mutex of the store: `store` is
"client" while a network transfer holds it.

### 3.10 TargetBringup: `components/cortexm_debug`, `components/target_db`

How a session comes to a halted, known target and leaves it running; ProgSession keeps
the outcome of this only, and `flm_runner` is one step here.

| variable | code |
|---|---|
| `hw`, `nrst` | `CONFIG_CORTEXM_HW_NRST`; the pin |
| `target` | the device, its core (runs, in reset, halted, at its reset vector), VC_CORERESET and C_DEBUGEN |
| `op`, `pc`, `attempt`, `result` | flash or detect, where it is, the attempt to connect, what it returns |
| `i`, `row`, `level`, `size`, `loader` | what `detect_target`, `read_rdp_level`, `read_flash_size` and `target_db_select_flm` found |
| `lost`, `refused`, `restarted` | no code: an access of this attempt had no effect or a wrong value behind ESP_OK; a write whose error is not looked at failed; the target reset by itself or lost its power since its halt was last seen |

One action is one access with what the code does about its result: an error repeats the
attempt (`Again`) or is ignored (`WriteAnyway`).  The state of the debug port is no
variable: after a loss of power any access may fail, or bring the port back and succeed,
because `dp_resync` (`adiv5.c:246-276`) repeats the switch, the power-up and SELECT inside
every access.  A target may reset by itself (`TargetResets`) or lose its power
(`PowerFails`) at any time, and is exchanged between sessions.  A reset that has
begun ends at any later time.
`SelectFlm` and `RdpLevel` are `target_db_select_flm` and
`target_db_rdp_level` over tables of the shape of the real ones.  The assumption
`BringupConstants` says of the devices that none shows, at the IDCODE address of another
family, the DEV_ID of a member of that family; nothing in the code could tell.

## 4. Runs

| run | distinct states | what it shows |
|---|---|---|
| `flm` | 290,086 | seven kinds of loader (both ABIs, with and without sector table, Init, UnInit, EraseChip, ProgramPage, Verify), routines that tell the truth or not, images of 1, 4, 7 and 9 cells on a device of 8 (4 ends on a sector boundary, 9 beyond the device) |
| `prog_session` | 479,084 | two tasks, any calls, all kinds of target, two images, transfers that hold the store |
| `swd_system` | 352,021 | menu, server with uploads, one flash task, FTP transfers, periodic self-test: liveness |
| `adiv5` | 623,048 | every operation, with any answer to any transaction, as accesses of MemoryAccess |
| `serial` | 240,314 | pulls and pushes one after the other, with losses, late answers and a line that comes and goes |
| `storage` | 22,041 | menu, server and two FTP tasks with one place, on one file of two chunks |
| `usb` | 9,233 | three sticks, two tasks, one of them with uploads |
| `avr` | 487,659 | four interfaces, two devices, two files, four callers, transfers that hold the store |
| `bringup` | 285,901 | eight targets of five identities, with and without nRST, three attempts, a reset or a loss of power at any point |
| `radio_lock_cycle`, `single_read`, `late_answer` | | statements of the repository that the code does not keep, see 4.2 |

Type invariants are theorems (section 5), or conjuncts of an invariant that a run checks
and that says more (`BlocksFaithful`, `TransfersFaithful`, `SessionsCounted`, `MarksAgree`).

### 4.1 Bounds and why they are enough

- FlmRunner: sectors of 2 and 4 cells, pages of 1 and 2, read-backs of 4; the
  image lengths end inside a page, inside a small sector, inside a large sector
  and beyond the device.  These are all the relations between an end and the
  boundaries that the loops distinguish.
- ProgSession: two tasks are enough for a race for one mutex that is taken
  without waiting; the proofs hold for any number.
- SwdSystem: one flash task, the menu and the self-test compete for the lock, which
  are all the ways a call can be refused.  One kind of target, since the callers do not depend on the target.
- Adiv5: six words of memory in pages of three, blocks of up to four words: a block
  can start anywhere, end at a page boundary, cross it, and cover two chunks.  A chunk
  of three has all kinds of reads: the first, two in the middle, the last from RDBUFF.
  One repeat after WAIT, after an error and of a chunk instead of 64, 16 and 16: enough
  for a repeat that succeeds and one that is given up, at each level.
- TargetSerial: blocks of two bytes and offsets modulo four.  The configuration of the
  target has 0, 2, 3 (after a push) or 4 bytes: empty, a whole block, ending inside one,
  and as long as the offsets can say, where a pull starts again from 0 and must end by `MaxBlob`,
  which stands for the heap.  Three frames under way are enough to fill the queue of two.
- Storage: two chunks give a beginning and an end of a file to be mixed up; one place and
  two FTP tasks make the limit bite; more clients do what these do.
- UsbSource: three sticks are six events, more than the queue of four and the one being
  worked on; two tasks for the mutex.
- AvrAccess: `MaxTries` is 2 for 32.  A known device of two pages and an unknown one of
  one, an empty file and one of two pages, which fits one device only; the parser may refuse
  either.  A file that it must refuse is left to the theorem `RefusalKeepsProgram`.
  `Wrap`, the reach of a word address, is 2, as large as the largest device.
- TargetBringup: three attempts for six: one that fails, one that inherits what it left,
  and one that succeeds or is the last.  A row for each kind of option register, two
  IDCODE addresses, devices that show identities of other rows elsewhere, one that is not
  in the table, and one without a loader of its own.
- Deadlock is checked everywhere except in the runs of Storage, where the flash session and
  the upload of section 4.2 really stop each other.

### 4.2 Where the code and its documents disagree

| run | statement | what happens |
|---|---|---|
| `radio_lock_cycle` | the file is read before the SWD/WiFi pause (`prog_session.c:243-244`) | the radio is stopped first (237), and the read waits for the mutex of the store, which an upload holds while it waits for bytes over WiFi; neither goes on |
| `single_read` | the caller of `ap_read_posted` restarts the pipeline after a re-synchronisation (`adiv5.c:437-438`) | `adiv5_read32` does not: when the answer of its DRW read was broken after the target had carried it out, TAR has moved on, and the repeated read fetches the next word with `ESP_OK` |
| `late_answer` | stale frames are thrown away (`target_serial.c:329-330`) | only those that are in the queue already: an answer that comes later is taken for the answer to the next command |

`radio_lock_cycle` runs with `WillingSpec`: every client of a transfer goes on, or is found
gone, when the radio is on again and again.  It holds as far as the network stack of
ESP-IDF, which is not in the repository, does not end connections itself when WiFi stops.
Without that assumption about the clients the flash may wait even with the radio on.

Reading the code against its documents showed more, without a run because the code
at that line is the whole story:

- No second flash is started while one runs (`web_ui.c:644`): two requests pass the check
  at 645 before the first task has the lock (668); the second one is accepted and fails.
- The target connector is a resource with a lock
  (`reference/ESP32S3_SWD_PROG_Plan.md:343`): the pin test (`main.c:101`) takes none.
- Success: reset and run (`prog_session.c:365`): the results of both writes are ignored
  (367-368), and an earlier failed connect may have left the vector catch on.  `LeftRunning`
  says what remains true.
- One AVR flash at a time (`web_ui.c:683`): the menu (`ui.c:475`) does not look at the flag.
- A failed entry of the programming mode leaves the reset pin of an AVR low
  (`avr_isp.c:255-279` returns as it is), so that its program stands still until the next call.
- `prog_session_busy` takes the lock to look at it (`prog_session.c:206`), so a call of
  another task at that moment is refused although nothing runs (`prog_session.h:41-42`).
- No code excludes a flash during a configuration transfer (`web_ui.c:532-567`), against
  `README.md:7`.
- A session that begins during the boot keeps the radio on, because
  `net_wifi_radio_pause` does nothing before `s_inited` (`net_wifi.c:372`; the comment at
  `prog_session.c:234` says that the radio is off during a flash).
- `target_serial` never retries (`target_serial.c:358`), against
  `reference/ESP32S3_SWD_PROG_Plan.md:282`; only silence, never errors, clears
  `serial_link` (`target_serial.c:194-201`, against the comment at 169); and the
  offset of a push wraps after 64 KB without an error (483-484).

### 4.3 Fairness

ProgSession and SwdSystem: weak fairness of each step of a call, because FreeRTOS schedules
tasks of equal priority in turn, `s_lock` is taken with a timeout of zero, every SWD
transaction has a bounded number of retries, and a run of `flm_runner` ends (`RunEnds`,
checked on its own with weak fairness of `RunStep`: every call in the target returns or
times out).  The conjunct `pc' # pc` keeps a run from staying in one stage for ever.
The one wait without a limit is that of `ReadFile` for the mutex of the store
(`prog_session.c:246`, `storage_lfs.c:89`).  Strong fairness of it says that a session gets
the mutex when it is free again and again, since FreeRTOS wakes the waiting task of the
highest priority and none keeps asking without a pause.  Nothing says that it becomes
free: `StoreGiven` has no fairness, because the upload goes on after each time-out
(`web_ui.c:443-445`) and FTP sets none (`ftp_srv.c:323, 351`).  So `CallersAnswered` and
`RadioReturns` leave out the behaviours in which a caller waits for ever for such a client
(`WaitsForClient`), and only these.  The callers get weak fairness for what they do by
themselves; keys, requests and exchanged targets may never come, and a request, a
transfer and the boot may never end.

Adiv5: weak fairness of `Step`, because the host clocks the wire and never waits
for the target.  Nothing is assumed about the answers: `CallReturns` holds on a
wire that never works again.  TargetSerial: both tasks run, the time-out of
`xQueueReceive` and the 1 s time-out of the receive task expire, and the target
answers what it has received; frames may get lost for ever.

The file of a pull or push goes through the mutex of the store too, before a push begins
and after a pull is complete (`target_serial.c:446, 469`); these waits are outside the
modelled transfer.

Storage: each task goes on, and gets the mutex in the end when it becomes free again and
again.  Reading, writing and sending over HTTP end by themselves; the clients of uploads and
of FTP transfers get no fairness, and `JobsEnd` leaves out the behaviours in which one of
them holds the store for ever.  Only `radio_lock_cycle` assumes clients that go on
(`WillingSpec`), so that its counterexample is about the code.  UsbSource: the same for its
mutex; sticks may stay away, and so may the client of an upload.  AvrAccess: each task goes
on by itself (`GoesOn`), and gets the mutex of the store when it is free again and again;
users, targets and clients promise nothing, and `CallsReturn` leaves out only a client that
holds the store for ever.  TargetBringup: a call goes on (`WF_vars(Step)`), since every
access and every wait has a time-out; the target promises nothing, not even that its reset
ends.

## 5. Proofs

All theorems are checked by TLAPS from the assumptions `FlmConstants`, `FlmGeometry`,
`SessionConstants`, `SystemConstants`, `Adiv5Constants`, `SerialConstants`,
`StorageConstants`, `UsbConstants`, `AvrConstants`, `AccessConstants` and
`BringupConstants`.  They say that the constants have the types of the code and that the
model values differ; `FlmGeometry` and `BringupConstants` also say of the tables what
sections 3.2 and 3.10 describe, and `SerialConstants` that no file is longer than an offset
can say and that whole blocks fill the range of the offsets.

Every safety invariant, action property and refinement that a passing run checks is a
theorem (of bad AVR files the run has only the empty one and one that is too long).  Few of them are inductive; each proof module states the inductive invariant it
needs, which TLC had confirmed on the constants of the run before it was proved.

- **FlmRunnerProofs**: `TypeOK` is strengthened by what has been compared so far
  (in the verify phase the cells below `off` match) and by where `failing` may hold;
  from this inductive invariant `SuccessIsProgrammed`, and step by step the
  refinement `KeepsContract`.  `OwnLoader` uses that `loaded = algo` is reached
  only through a `Load` of this session.
  For `NeighboursKept` and `NothingProgrammedUnerased` the inductive invariant says of a
  session without a lying routine what every cell may be: in the erase phase a cell of a
  sector of the image below `off` is blank and one outside is as it was; when the pages
  follow, all of the image behind `off` is blank.  The lemmas about `StepOf` show that a
  step from the start of a sector ends at the start of one.
  `ProgressNeverFalls` needs `ProgressInv`: the last report is one of an earlier phase, or
  of this one and no further than its loop.  The next report comes from the loop, so it
  can only be larger, although it is cut to the length of the image.
  `RunsRunOut` is the variant of the run: the rank of the phase, then the place of the
  routine in its phase, then the offset, which ends at the length of the image.
- **SwdSystemProofs**, about ProgSession: the inductive invariant says for each place of
  `pc` what holds there: who has the lock, which clock, whether the core is halted, which
  contents the flash has once a run is `ok`.  Mutual exclusion follows because every
  place of a session implies that the task holds the lock.  The other theorems are
  consequences of that invariant.
  `WiresStayQuiet` needs who has switched the radio off: only the task that holds the lock
  may switch it on again, and it does so behind its last access.
  About SwdSystem: by its composition every step is a step of ProgSession or leaves its
  variables alone (lemma `Implementation`), so these theorems hold in the system;
  `CallersInStep` ties the places of the callers to those of their calls.
- **Adiv5Proofs**: `ShadowIsSelected` is inductive as it stands: only a good SELECT write
  sets the shadow, a failed one clears it, `dp_resync` restores it, and only a `dropped`
  write can make it wrong until the next connect (`ShadowSafe`).
  `BlocksSafe` builds on it, since only with the right bank selected is an access an access
  to TAR or DRW.  `BlocksFaithful` looks at the end of a call; what is invariant before, while
  nothing was dropped: the memory holds the first `i + k` words of a write and nothing else
  (`MemInv`); TAR is at the next word, except when a read was re-synchronised, which is what
  `resynced` is for (`TarInv`); AddrInc is on once a block has set up CSW (`IncInv`); and a read
  has all words of the chunks before this one, and of this one all but the last, which
  waits in RDBUFF (`BufInv`).  That a chunk never crosses a page of TAR, where the count
  wraps, is arithmetic with `%` (`PageArith`, `SamePage`, `ChunkFacts`).
  `CallsAreAccesses` is the refinement of MemoryAccess.  Each transaction is one step of it
  or none: because the memory is known before and behind the transaction (`MemInv`), a
  good write of DRW is a `Store` and no other transaction touches memory; that a call ends
  with success behind its last word only is `BlocksFaithful`, which the step reaches.  A
  drop is a `Spoil`, and so is every step behind it up to the next connect.
  `CallsRunOut` is the variant of a call: six counters in lexicographic order (words done,
  repeats of the chunk, transactions of the chunk, words of the chunk, SELECT still to be
  written, repeats of the transaction), each with an end.
- **TargetSerialProofs**: answers carry no number, so all rests on the wire being quiet when
  a transfer begins.  In a clean transfer it is quiet whenever a frame is sent
  (`SendInv`), and while a command waits there is one thing of its request at one place: the
  frame on its way, the answer on its way, the answer in the queue, or nothing (`WaitInv`).
  `NoStaleAnswerSafe` follows.  For `TransfersExact` the same places say what the target has
  done: a push has built up its file to the offset before the frame is served and one block
  further behind it, and a pull has the beginning of the configuration up to a whole number
  of blocks.  `ConfigsWhole` needs also that a COMMIT that is still under way after its
  command gave up finds a whole file (`InboxInv`).
  `TransfersRunOut` is the variant of a transfer: what a pull has is bounded by the heap,
  the offset of a push by the length of the file, and each answer that is taken moves it.
- **StorageProofs**: who copies has the mutex, a reader has the beginning of the file that is
  there, and a writer has put the beginning of the new one and nothing behind it; so no job
  disturbs the copy of another, and at the end of one the copy is whole (`FilesAreWhole`).
  The count of sessions with the one that is being started is exact, by the cardinality of
  the set of live sessions (`CountExact`).
- **UsbSourceProofs**: also when events are dropped, the sticks in the queue are newer than
  the one at `/usb` and in the order in which they came (`Fresh`, `Rising`), and `s_vfs` never
  names another stick than that one; a task with an open file has the mutex, so the stick
  stays under it (`OpenFileSafe`).  Without a loss, plugging and unplugging alternate in the
  queue, the last event is what became of the port, and nothing is mounted when a stick is
  announced (`OrderInv`, `MarksInv`); these make `MarksSafe` inductive.
- **AvrAccessProofs**: the inductive invariant says of each flash that had the wires for
  itself which pages match (`SuccessIsFlashed`), of each call in the loops that its file
  was accepted and its index is inside the device (`RefusalKeepsProgram`, type
  correctness), and of the flag who holds it (`FlagExact`, for any number of web tasks).
  `CallsRunOut` is the variant of a call: its place, and in the loops the attempts
  (`AttemptsLeft`) and the pages up to the length of the file; calls of other tasks do not
  set it back.
- **TargetBringupProofs**: the inductive invariant says where nRST is low (`PinInv`), that
  from the reset to the end of a connect the core is anywhere but halted where the program
  happened to be, and at the vector from the halt that was seen until the next restart
  (`VectorInv`), and what reset and resume leave (`RunInv`), as long as no access was lost.
  Restarts may come between any two steps: a target that restarts before the halt is seen
  runs, and the halt is not seen; one that stops again stops at the vector.
  `ConnectStopsCore` and `TargetLeftRunning` follow.  `RightTarget` is about the table: the
  assumption on foreign addresses makes the row the one of the device.  `AttemptsRunOut` is
  the variant of a session: the attempt, then the place in its course, then the address
  that is tried; a repeat always counts an attempt, also when the target restarts.

Only model-checked are the liveness properties (`RunEnds`, `CallersAnswered`,
`RadioReturns`, `CallReturns`, `TransferEnds`, `SilenceShows`, `JobsEnd`, `FallsBack`,
`CallsReturn`, `CallEnds`): liveness under fairness and ENABLED are outside what the prover
does.  For `CallReturns`, `RunEnds`, `TransferEnds`, `CallsReturn` and `CallEnds` the half
that needs no fairness is proved for all constants: every step of the loop that is taken
counts towards an end (`CallsRunOut` of Adiv5Proofs, `RunsRunOut`, `TransfersRunOut`,
`CallsRunOut` of AvrAccessProofs, `AttemptsRunOut`); that a step is taken stays with TLC.
The disagreements of section 4.2 are runs that end in a counterexample and have no theorem.

## 6. Not modelled, and why

- `flm_generated.c`, 34456 of the 46300 lines of the implementation, is a generated table
  of machine code of flash loaders.  It enters as the constants `Algos` and `Loaders`.
- Bits on the wires, pin timing, drawing, log output, HTTP and HTML (swd_phy,
  display_oled, most of web_ui, the frames of the AVR drivers): no property of this
  project is about them.
- avr_image: a parser without state; AvrDriver takes its outcome.
- input_enc and the menu navigation of ui: sequential code over variables of one task; a
  dropped key is a key that was not pressed.
- The event handler of net_wifi (five reconnects, credentials, mDNS): what it does depends
  on the order of events of the WiFi library.  The models take from net_wifi that the radio
  is on or off.  They assume that `esp_wifi_start` succeeds when it restarts a radio that
  already ran; when it fails, its result is ignored (`net_wifi.c:380`) and the device is
  unreachable until the next session.
- The WebSocket list of web_ui and its push task.
- A configuration transfer during a flash (`web_ui.c:532`): nothing excludes it and nothing
  depends on it in the code; the target is halted and the transfer times out.
- A protection level that cannot be read does not stop a flash (`prog_session.c:307`); the
  code says that it intends this, and `KnowsTheTarget` says what is left.
- Power failure of the programmer in the middle of a write to its store: LittleFS and FAT
  decide what is left, and no code of the repository repairs anything at the start.
- Bus errors: in the model of the target all addresses are mapped.
- Reading and writing core registers (`cortexm_reg_read`, `cortexm_reg_write`): part of the
  one step that FlmRunner makes of a call in the target.
- The directories and logins of ftp_srv, `target_serial_set_baud` and `cortexm_halt`, which
  nothing calls, the formatting of a store that cannot be mounted, and the AVR self-test.
- Host tools, their tests and the web page in the browser.
