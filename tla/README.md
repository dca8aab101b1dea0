# POFOSCAB in TLA+

POFOSCAB connects an Atari Portfolio (an 8088 palmtop with a DOS of its own) to
other computers over the Smart Parallel cable.  This directory models its logic
in TLA+, checks the models with TLC and proves theorems about them with TLAPS.
Paths below are relative to the repository.

## 1. The system

| Component | State it keeps | Operations | Interacts through |
|---|---|---|---|
| **PFTD driver**, `src/pftd/PFTD.asm` | receive buffer, response buffers, `critical_error_flag` | the int 0x61 hook: let the ROM receive a block, dispatch it on its first byte, transmit the response | sits inside the ROM's File Transfer Server: a block is offered to the driver's handlers first, then to the ROM |
| **file commands**, `mkdir.inc`, `delete.inc`, `rmdir.inc`, `rename.inc` | response buffer | one DOS call each, its carry flag, the int 0x24 flag and an error table | int 0x21, `critical_error.inc` |
| **COPY**, `copy.inc` | two handles, byte counts, DTA, response | Find First, Open, Create, a loop of Read / Write / progress, two Closes, a cleanup for each way to fail | int 0x21, `critical_error.inc`, `gui.inc` |
| **queries**, `hello.inc`, `drives.inc`, `list.inc` | list buffer | read-only answers; LIST's searches may set the int 0x24 flag | int 0x21 |
| **date and time**, `datetime.inc` | none | two DOS calls per command | int 0x21 |
| **screen**, `drawascii.inc`, `gui.inc` | saved screen | draw, restore, progress bar | int 0x60 |
| **bridge link**, `MameLink` in `tools/mame_bridge.py` | TCP socket, `_recv_buf` | `send_raw`, `upload_file`, `download_file` over `_send_block` / `_receive_block` | the byte protocol of the cable, forwarded by MAME |
| **bridge threads**, `BridgeState`, the detect loop and the HTTP handlers of `tools/mame_bridge.py` | `connected`, `pftd`, the socket, one lock | detect, reconnect, publish; check, lock, transfer, answer | shared memory under a lock |
| **PFTC**, `src/pftc/*.c`, `src/pofo/smartcable.c` | the screen shown, saved screens, pending settings, an edit copy on the heap | nine screens, six requests, an exchange with retries | int 0x61 AH=0x30, a configurable device at the other end |
| **validators**, `src/pftc/valid.c` | none | pure functions on texts | called by PFTC's editors and, to parse, by Apply |
| **cable framing**, `_send_block`, `_receive_block`, `tools/smartcable_server.py`, the loop of `tools/smartcable_pftc.py` | the block in progress, replies not yet read, Port C events | `Z` / 0xA5 sync, length, payload, checksum and its echo; one request and one reply per byte; CANCEL | requests to and replies of MAME's card, over TCP |

What is hard here:

- **Failure of any call.**  DOS reports errors in the carry flag, a full disk as
  a short count, and a media fault by calling int 0x24 in the middle of the
  call; the handlers must look at all three, in the right order, and undo
  exactly what they did (`PftdCopy`, `PftdServer`).
- **Lost acknowledgements.**  Every block ends in one byte that tells the sender
  it arrived.  If that is lost, the two ends disagree for the rest of the
  session, and the bridge retries (`BridgeSession`, `Pftc`).
- **Late replies.**  A host that has stopped waiting for a byte operation still gets
  its reply, during the next one; the bridge and the mock server deal with it
  differently (`SmartCableBlock`).
- **Two consumers of one stream.**  Each block the ROM receives passes through the
  driver's dispatcher first, pieces of uploaded files included.
- **Threads.**  The detect loop closes and reopens the socket that handlers wait
  to use; what it publishes is read outside the lock, by `/status` in two reads (`MameBridge`).
- **State that outlives its screen.**  PFTC's settings survive sub-screens and must
  be dropped on every way back to the list (`Pftc`).
- **Parsing without looking.**  What Apply sends was a text; it is parsed without a
  check because every way out of an editor was one (`PftcFields`).

What makes each component correct is stated as the properties of its module;
`PROJECT.json` lists the hazards they are for, each at its line.

## 2. The modules

| Module | Models | Checked by | Proofs |
|---|---|---|---|
| `PftdCopy` | `dispatch_copy`, one action per DOS call | `MCPftdCopy` | `PftdCopyProofs` |
| `CopyContract` | what COPY promises, abstractly | | |
| `PftdCopyRefinement` | `PftdCopy` implements `CopyContract` | `MCPftdCopy` | `PftdCopyRefinementProofs` |
| `PftdQueries` | LIST, DRIVES, GETDATETIME and SETDATETIME, one action per DOS call | `MCPftdQueries` | `PftdQueriesProofs` |
| `PftdServer` | the hook, the dispatch, the file commands and the ROM around them | `MCBridgeSession` | `BridgeSessionProofs` |
| `BridgeSession` | `MameLink`'s three calls, composed with `PftdServer` | `MCBridgeSession` | `BridgeSessionProofs` |
| `BlockContract` | what one direction of the cable promises, abstractly | | |
| `SmartCableBlock` | one block byte by byte, for the bridge and for the mock server; implements `BlockContract` both ways | `MCSmartCableBlock` | `SmartCableBlockProofs` |
| `MameBridge` | detect loop, handlers, `/status`, lock, socket, MAME coming and going | `MCMameBridge` | `MameBridgeProofs` |
| `Pftc` | PFTC's main loop, screens, settings and exchanges | `MCPftc` | `PftcProofs` |
| `PftcFields` | the texts: reports, editors, `valid.c`, the request and the device that reads it | `MCPftc` | `PftcFieldsProofs` |

### PftdCopy

`pc` is the label `dispatch_copy` is at; `fs` the disk; `openH` the handles DOS
holds open, `srcH` and `dstH` those the driver remembers; `critical` the int
0x24 flag; `total`, `done` and `rd` the 16-bit words of the same purpose.
`FindFirst`, `OpenSource`, `CreateDest`, `ReadBlock`,
`WriteBlock`, `Progress`, `CloseSource`, `CloseDest`, the three cleanup steps
and `Respond` are the DOS calls and the tests after them.  `Int21` is the one
place a media fault enters: the handler sets the flag, answers Ignore and the
call returns with either carry flag.  History variables (`orig`, `hit`,
`lost`) record the disk at the start, the calls a fault hit and handles DOS
opened on a call the driver took for failed.

A file is the first `len` bytes of what a path held at the start: that is all
the properties distinguish of its contents.  The sum in the progress bar is
16-bit arithmetic as in the code, the division's overflow included.

### PftdServer and BridgeSession

`phase` says who has the block: the ROM's receive, the hook, the hook's
transmit, the ROM, the ROM's transmit.  `rom` is what the ROM's own server is at:
waiting for a command, in an upload, in a download.  The file commands are `Mkdir`,
`Delete`, `Rmdir` and `Rename`, four uses of `OneCall` with the tables of
their `.inc` files; `Copy` is what `PftdCopy` comes to in one step, after a fault what that
can leave with an ok included (a fault in Find First or Close is not looked at); HELLO,
DRIVES and LIST are `Query`.  Other blocks pass the hook (`NoHandler`) and reach
the ROM.

The client is `send_raw` (request, wait for the response, start over
until the deadline), `upload_file` and `download_file`.  A block transfer has three
outcomes: both ends agree it went through; only the receiver thinks so; neither
does.  `owner` and `resultOf` are histories that tell which call's request the
server answers.

A request may be `Empty`: `_send_block` of no bytes returns True at once
(`mame_bridge.py:186-187`), so that a `/sendRaw` without data goes on to receive
whatever the server still has to say to a call that was given up.
`AnswerMatchesRequest` says so.

### SmartCableBlock

Both ends of a block run the same little machine: `Sender` takes `Z`, gives 0xA5, the
length, the payload and the checksum, and takes the checksum back; `Receiver` is its mirror
image.  `AfterGive` and `AfterTake` are its steps, `Collect` what `_receive_block` does
with each byte.  One end is the Portfolio (`pofo`), the other the host (`host`),
which gives or takes a byte by way of a request to MAME's card (`reqs`) and a
reply (`reps`).  `program` says which host it is:

- `bridge`: `send_raw`'s retry loop (`Attempt`), `_drain_stale` (`Drains`),
  `detect_once` (`Detect`).  A timeout fails the block and leaves the request and
  its reply where they are.
- `server`: `receive_atari_block` and `send_block_after_sync` under the loop of
  `smartcable_pftc.py` (`WaitEvent`).  A timeout sends a CANCEL and drops
  replies up to the cancellation's own (`Cancelled`).

`PassByte`, `LoseByte` and `CancelByte` are the card, `PofoGivesUp` the Portfolio's own
timeout, `PortC` a message about Port C, which the server counts whenever it comes, in a
handshake or not.  `MaxLen` is the longest body the host takes (`--max-len`), `RomMaxLen`
the longest the Portfolio does; PFTC's buffers have 360 bytes at most.

`toPofo` and `toHost` are histories, for each direction, in the terms of
`BlockContract`: the block on offer, what the receiver has taken, whether the sender is
sure of it.  `BridgeSession` and `Pftc` take a block transfer to have exactly
the outcomes that contract allows.

An 8-bit sum does not keep that contract for all payloads.  With the server it does for
those that are *plain*, one by one: a response is a `PlainResponse` if its sum tells it
from any cut-off part of itself that goes on with the `Z` of later calls, and a
`PlainRequest` has no piece behind an 0xA5 that passes for a block; nor may the echo of
the sum be the `Z` or 0xA5 of the next handshake.  These conditions are not there for the proof alone:
with a request whose sum is `Z`, or a response whose sum is 0xA5, TLC finds the contract
broken.  `Distinguishable` asks it of all the blocks of a behaviour, and of the constants
that a length read of an idle line be more than the ROM takes (`RomMaxLen`) and more than
anybody reads of it (`MaxNoise`).  The host's own limit need not be small: with the default
`--max-len` of 60000 the server starts to collect such a length, but the Portfolio waits for
a block for some seconds only, and nobody reads 23040 bytes in them (`StillWaits`).

`MCSmartCableBlock` has TLC evaluate which blocks that PFTC and the mock server really
exchange are plain: all the requests (SET_NETIF with the mock's own settings) and all the answers
but that of GET_DASHBOARD, whose 106 bytes, cut after the 71st and filled with `Z`, have a sum
that fits, and of GET_WIFISCAN, which is too long for the list.  Of SET_NETIF requests
with random texts about one in 250 is not plain.

### MameBridge

A step is what runs between two points where another thread, or MAME's exit, can
come in.  `sock` is `none`, `open` or `dead` (open here, the peer gone).
`_reconnect_to_mame` is the chain `Clear`, `ClearPftd`, `RetakeLock`, `Connect`:
it withdraws the two attributes before it takes the lock.  The handlers are
`Post` (a request comes in), `Check` (`connected`, the path and the body),
`WaitLock` and `Transfer`.  GET `/status` reads the two attributes one after the other
and takes no lock (`ReadConnected`, `ReadPftd`); `steady` is a history of whether either
was written in between.  `main`'s own `link.close()` at exit (`mame_bridge.py:735-737`),
which takes no lock either, is outside the model: the process ends with it.

### Pftc

`nav` is the `nav_state` that main switches on and `at` where the program is:
about to call a screen, waiting for a key, in the scan menu, sending, receiving,
or off.  `frames` is `screen_stack_depth`, `edit` the malloc'ed edit copy, `item`
the `last_item` of a settings screen.  Each `screen_push` and each malloc may
fail.  A request goes out through `Exchange`; `SendBlock`, `SyncMissed`,
`SendFails` and `ReceiveFails` are `smartcable_exchange`, and an
`After...` action is what the caller does with an accepted response.
`confirmed` is a history of what the user left the settings screens with.

What an entry of a settings menu says (`NetEntries`, `IpEntries`) is modelled
apart from what the code does with the chosen position (`NetDoes`, `IpDoes`), as
in the code, where the text builder and the switch have only the order in
common.

### PftcFields

A text is a sequence of characters, of which digits and the dot are told apart.
`Ipv4Char` is one turn of `is_valid_ipv4`'s loop on its three registers, folded over the
text; `IsValidPrefix`, `ParseIpv4` and `ParsePrefix` are the other three functions of
`valid.c`, in 16-bit arithmetic.  `EditField`, `Enter` and `Escape` are
`edit_field_validated`: a refused text stays in the editor, ESC puts the backup
back.  `FromReport` is `init_interface_settings` with its `sprintf`s,
`Request` what `apply_netif_settings` builds and `ParseSetNetif` what the mock server
makes of it.  `Pftc` models which screens lead there.

The properties define what a text means a second time, by the places of its dots and
digits (`Octet`, `Number`, `Proper`), and compare.

### PftdQueries

`pc` is the int 0x21 call the handler is at.  `used` is `di - list_response` and
`count` the entry counter: a listing is what it takes in the buffer, not what
it says.  `Entry` is one round of the `.entry` loop, its room check, its name of any
length and the Find Next after it; nothing makes DOS stop finding.
`TimesClusters` is the two multiplications of `list.inc` on registers of `Word`
values.  `PackDate`, `PackTime`, `UnpackDate` and `UnpackTime` are the shifts of
`datetime.inc` as arithmetic.  `Tick` is DOS's own clock, which goes on between any two
calls; `ticked` and `midnight` are histories of it.

## 3. The runs

| Run | Question | Bounds |
|---|---|---|
| `copy` | What does each response mean, what is left on the disk and open, does the flag tell the truth, does the copy implement its contract, is every COPY answered? | two names, two handles, sizes 0 and 513, two commands, a fault possible in each call |
| `copy_corrupt` | violation, see 5 | |
| `copy_divide` | violation, see 5 | |
| `session` | Do client, hook and ROM agree on what is under way, do responses belong to their requests, does ok mean done, do faults stay in their command, are files whole, does every call end? | two calls, two attempts each, three names, two pieces per file, an empty request |
| `session_retry` | violation, see 5 | |
| `session_codes` | violation, see 5 | |
| `blocks` | Does a block count as sent, or come back, only if it was taken, or transmitted, byte for byte; whose reply is it? | two calls, two attempts, four requests (none, one byte, an 0xA5 and a byte, one too long for the ROM), one response, real byte values and maximum length |
| `threads` | Does the loop survive, is a socket in use left alone, what can `/status` show, does the status converge, does every request end? | two handlers, one reader |
| `threads_dropped` | violation, see 5 | |
| `pftc` | Whose settings are sent, what becomes of confirmed edits, screens, edit copies and retried requests, do menus mean what they say?  What leaves an editor, what does the device read from the request, does everything fit? | two interfaces, one SSID and PSK next to the empty ones, two addresses, two retries, three changes or Applies; two visits to an editor, 107 addresses, 61 prefixes, five lengths of passphrase, three of SSID, two reports |
| `pftc_defaults` | violation, see 5 | |
| `queries` | Does a listing fit, is the space exact, what does an answer of SETDATETIME mean, does every command end? | names of 2 and 13 bytes, four-bit registers, four date and two time words, a fault possible in each call |

Why the bounds are enough:

- `copy`: 513 bytes are one full and one partial buffer, so the loop goes round, is
  left at the end of the file and can fail in each round; 0 is the other
  boundary.  The second command meets what the first left behind: the
  flag, the handles, the disk.  Two handles make the third Open run out.
  Sizes above 64K are `copy_divide`'s.
- `session`: with two calls the first can be given up with the server still busy
  on it, which is what the second must not mistake for its own answer; two
  attempts make a retry; two pieces have a first, a last and an order.  Faults are
  left to a query, which does not look at the flag, to two commands with
  unlike tables and to COPY.  An empty request is one of the eight and another block:
  it needs an earlier call to find an answer of.
- `blocks`: the byte values are the real ones (256 values, `Z` = 90, 0xA5 = 165), and `Mixes`
  are what a receive reads that catches the idle `Z` between its bit pairs: `Z`
  turned by two, four and six bits.  A payload of three bytes is longer than
  `RomMaxLen` = 2; `MaxLen` is the default 60000, so that two `Z` are the beginning of a
  body, of which five bytes (`MaxNoise`) are read at most.  `MaxTries`
  stands for the 3 s deadline: two attempts make a late
  reply of the first meet the second.  The payloads satisfy `Distinguishable`, which TLC
  evaluates; one of them holds an 0xA5, at which a receive that was late can begin.
- `pftc`, the texts: each octet takes 0, 255 and 256 in all combinations, and in each place in turn is
  empty, zero-padded, too long, not a digit, or 999; addresses have one to five octets or
  something after the last; prefixes are all texts of one character and those of two
  that start with a 0, a 3, a 9 or no digit; passphrases are at and one beyond each limit.
  After a refusal the user types one of a few texts (`Retyped`), valid and not.  A
  report keeps to the protocol: 32 characters of SSID, prefix up to 32, enabled 0 or 1.
- `threads`: one handler in its transfer and one waiting is all two handlers and
  the loop can show; `MameBridgeProofs` covers any number.
- `pftc`: two interfaces can be mistaken for each other; three changes let a user edit,
  confirm, edit again and apply; two retries have a first and a last.
  `PftcProofs` lifts all the bounds.  `MCPftc` runs the screens and the texts side by side, as
  one specification with two halves: a behaviour starts the client as `Pftc` does and, from
  the first wait for a key with the dashboard fetched, goes on with the screens or with the
  texts in their editors (`half`).  What `Pftc` treats as a text is a value, so that neither
  half reads the other's variables.
- `queries`: the buffer has its real 2048 bytes, and 2-byte and 13-byte names end at
  every distance from its limit; products of four-bit registers carry and
  overflow as those of sixteen bits do; the words include a date and a time DOS refuses.
  `PftdQueriesProofs` lifts the bounds.

Deadlock is checked in `threads` and `queries`.  In the others the bounded environment stops:
no more commands, calls or changes, and PFTC has an Exit.

**Fairness.**  `copy`: weak fairness of the driver, which is straight-line code
between DOS calls that return; `queries` the same.  `session`: weak fairness of the client, whose every
socket wait has a timeout, and of the server, whose transmit returns with a
status when nobody takes the block.  `threads`: weak fairness of the loop and of
each handler's own steps; strong fairness of the acquires, because each holder
releases the lock and the loop sleeps 100 ms or more with it free, and none for
MAME or the user.  `pftc`: weak fairness of main and the exchange, none of the
user.  `blocks` checks safety only and assumes none: that a block transfer
ends is what `session` takes from the timeouts.

## 4. The theorems

Each proof module proves one inductive invariant and derives the
properties from it.  All are for `Spec`, safety only, and hold for every value of the
constants the module's ASSUME admits.

- `PftdCopyProofs` (`CopyInv`; any paths, handles, sizes, partial writes, faulty
  calls).  The promises concern the end of a command; the invariant says at
  each label how far the copy is: what DOS holds open is what the
  driver remembers plus what it lost (`HandleInv`); what was read and what was
  written differ by the block in hand (`CountInv`); the progress words equal
  the true counts below 64K (`ProgressInv`) and the bar with them (`BarInv`); a
  file copied onto itself is empty from Create on (`SelfInv`); error 255 is set
  only behind a test of the flag (`FlagInv`); the cleanup has undone at each of
  its labels what the copy had done so far (`UndoInv`).  From it:
  `OkMeansCopied`, `FailedCopyCleansUp`, `HandlesReturned`,
  `CriticalIsTruthful`, `NoDivideError`, `BarFullAtEnd`, type correctness.
- `PftdCopyRefinementProofs`: `ImplementsContract`, the whole refinement.  `Request`
  maps to the contract's `Submit`, `Respond` to `Answer`, each DOS call in
  between to `Work` or to a stutter, because it changes the destination at most;
  that `Respond` may answer what it does follows from `CopyInv`.
- `BridgeSessionProofs` (`SessionInv`; any names, disk, requests, pieces, faults, tries
  and number of calls).  The promises are about one end, the reasons for them at the
  other: so the invariant says for each station of the client what
  the server can be at.  While a response is awaited the server has this very
  request in hand, and what the ROM transmits tells what the ROM goes on to
  (`WaitInv`).  From the answer to an upload's init block on, the ROM is at that upload
  with its count of pieces in step, or at nothing (`AtUpload`, `AtNothing`); a
  download is counted down as it is taken (`DownloadInv`); what a handler transmits is true of
  its own block (`HandlerInv`); and while an empty request waits, the block the server has is an
  earlier call's (`OwnerInv`).  From it: `AnswerMatchesRequest`,
  the exception for the empty request included, `OkMeansDone` (for every `FaultyOps`: of a COPY
  a fault has hit an ok says no more than that both names are files),
  `FaultStaysInItsCommand`, and, for pieces that do not
  start like a command (`PiecesAreData`), `TransfersAreWhole`.  The condition is
  needed: the hook tells a piece from a command by its first byte alone
  (`PFTD.asm:119`).
- `SmartCableBlockProofs` (`ServerInv`, `CableInv`; any byte values, payloads and maximum
  lengths, the server's default of 60000 included).  When the mock
  server waits for a reply, one request or its reply is under way and nothing else;
  when it does not, nothing is.  During a CANCEL the two may cross, and the invariant
  lists the orders in which requests and replies can then stand (`Crossing`).
  From it: `RepliesAreOwn`.  `CableInv` is for the server (`Programs = {"server"}`) and
  any sets of plain payloads (`Distinguishable`), and so for every behaviour whose blocks are:
  it relates the two ends of the cable while a
  request is with the card (`AskedInv`) and once it has been answered (`FineInv`).  The
  Portfolio has heard a response as far as the host has given it, or is away from it
  (`Heard`, `Astray`), and what it collects is the response's beginning with perhaps some
  `Z` after it (`Hearing`).  The host reads a stretch of a request that was transmitted,
  behind some 0xA5 in it, or an idle line (`Reads`).  Only a whole frame then fits its sum
  (`CutFits`, `SpoiltCollects`, `NoiseIsNoBlock`).  From it both refinements of
  `BlockContract`, step by step: `SentBlocksAreTaken`, `TransmitsAreTaken`.
- `PftcFieldsProofs` (`SizesInv`, `TextsInv`; any texts typed, any report the protocol
  allows).  Each text is at most as long as its array, and a passphrase outside the editor
  at most 63: the request's 17 + 32 + 63 bytes are the 112 it has room for.  From it:
  `TextsFit`.  `TextsInv`: every text but the one in the editor means something, the backup
  too; the editor holds such a text before the first Enter.  That this survives Enter is
  `ValidatorIsProper`: the functions of `valid.c` accept exactly the texts that mean something.
  A validator is a fold over the characters, and the proof follows its registers along the
  text (a table of what they are after each character): the accumulator is the
  number since the last dot, the count that of the dots.  `ParseIsQuad` and `PrefixIsByte` say what
  `parse_ipv4` and `parse_prefix` make of such a text, `ReportedAddressComesBack` that an address
  printed by `init_interface_settings` is parsed to the same octets; with the layout of
  the request (`LaidOut`) the device reads back what the screen shows.  From these:
  `OnlyProperTexts`, `RequestSaysWhatIsShown`.
- `PftdQueriesProofs` (`QueriesInv`; any names up to 13 bytes, any register width,
  drives, words, clock).  `ListFits` is inductive with the room check as the step's
  guard.  `SpaceExact` rests on `TimesClustersExact`, that two half products and a
  carry make the product; `SetAnswersTruthfully` on the round trips `DateRoundTrip` and
  `TimeRoundTrip` over all 16-bit words and on `ClockSet`: between the two calls the
  date was taken and is still the clock's unless a day went by.
- `MameBridgeProofs` (`BridgeInv`; any number of handlers).  The lock's holder is
  the one thread in a critical section (`LockInv`), the loop's knowledge of the
  socket is still true after it waited for the lock because nobody else closes
  it (`SockInv`), and the two published attributes are written in an order that
  keeps `pftd` under `connected` (`PubInv`); what a `/status` half-way has read is what is
  published unless a write came in between (`StatusInv`).  From it: `DetectSurvives` and the
  action properties `StatusIsConsistent` and `SocketStableInUse`.
- `PftcProofs` (`PftcInv`; any interfaces, texts, addresses, retries and number
  of changes).  `RequestWhere` says on which screen a request is under way,
  `SettingsWhere` that the initialized flag is up exactly while the settings are
  those of the selected interface and as confirmed, `EditWhere` what the edit copy
  is and that the highlighted entry exists in its menu.  From it:
  `SettingsOfSelected`, `ConfirmedEditsKept`, `ScreensBalanced`,
  `MenuDoesWhatItSays`, `SentOnce`.

Only model-checked: all liveness (`Answered`, `CallsEnd`, `Connects`, `Disconnects`,
`RequestsEnd`, `ComesBackToUser`), which is beyond this prover; and `SentBlocksAreTaken` and
`TransmitsAreTaken` for the bridge, which takes a late reply for the next byte's, so that
which payloads are safe depends on how many replies can be late at once.  The theorems about
the cable say nothing of a behaviour in which some block is not plain: an eight-bit sum does not
protect those, and `MCSmartCableBlock` lists which of the real ones are.

## 5. Where the code and its own words part

- **`copy_corrupt`.**  `docs/source/protocol.md:167-168`: "a failed COPY never
  leaves a corrupt file behind".  The destination is created with the
  source's attribute, and DOS does not delete a read-only file: a copy of a
  read-only file that fills the disk leaves the part it wrote.
- **`copy_divide`.**  `copy.inc:120-123`: the lost high word "never affects the actual
  copy loop".  For a source just above 64K the divisor is tiny and the division faults.
- **`session_retry`.**  `mame_bridge.py:326-328`: "Only the initial 'Z' sync
  inside _send_block is retried".  A lost response sends the whole request again,
  and the server carries it out again: a RENAME whose response was lost comes
  back as an error.
- **`session_codes`.**  `docs/source/protocol.md:236`: code 1 is "Path or file not found",
  and 240 keeps 0xFF for an error whose cause could not be determined; `delete.inc:10`:
  "0xFF=critical error fired", and 23-24: the codes reachable "are mapped in
  .dos_error".  DELETE maps 2 and 5 only (`delete.inc:96-100`): a file in a directory that does not
  exist (3) is answered with 0xFF, as if a media fault had hit it; MKDIR, RMDIR, RENAME and COPY
  map that code to 1.  RMDIR does the same with 16, the current directory
  (`rmdir.inc:107-111`).
- **`threads_dropped`.**  `mame_bridge.py:621-624`: a request during which MAME's
  port dies is reported as not connected.  If it waits for the lock meanwhile,
  its exception is not caught and it gets no answer.
- **`pftc_defaults`.**  `gui.c:342`: defaults are for what GET_NETIF does not supply.
  It does supply the address mode and the IPv6 flag (`pftc_proto.h:56-57`), which are replaced by
  DHCP and off and sent with the next Apply.

## 6. What is outside the code

The ROM, DOS, MAME and the device PFTC configures are not in the repository.  They are
modelled from how the code uses them and marked external in `PROJECT.json`:

- DOS calls: succeed, are refused with a code the handlers' tables know or not, or meet a
  fault; CREATE truncates; a read-only file is not deleted; a write may be short.
- ROM server: a block it has no command for is ignored, except in an upload,
  where each block is the next piece.  That the ROM takes the pieces with the same
  int 0x61 receive the driver hooks is inferred from `PFTD.asm:121-123`.
- MAME's card, as the bridge and the mock server meet it: each request gets one reply of
  three bytes that arrive together; a byte may have gone over although the reply
  says it has not; a send may be confirmed by the Portfolio's own clock while the
  Portfolio is giving a byte itself; a receive may catch the idle `Z` in the middle.
- Smart cable port, as PFTC meets it: status 6, sync missed, means the other end has taken
  nothing; any other failure leaves open whether it has.
- The device: takes a SET_NETIF as a whole or refuses it.

A block the bridge has given up can still be taken, by a byte operation whose request was
left with the card: in `SmartCableBlock` that is the late `Take` of `BlockContract`, in
`BridgeSession` the outcome in which only the receiver thinks the block went through.

Behaviours the models have, or leave out, that no property judges, because nothing in the
repository says what is right:

- A piece of an uploaded file that starts like a command goes to that command's handler
  (`PFTD.asm:119`); the theorem about transfers assumes there is none.
- After a scan an open network keeps the old passphrase (`gui_iface.c:359`).
- A GETDATETIME across midnight pairs the old date with the new time
  (`datetime.inc:71`, between `GetDate` and `GetTime`); a SETDATETIME refused
  for its time has set the date (`datetime.inc:197`).
- A driver that starts after the File Transfer Server is not noticed (`mame_bridge.py:545`).
- `_drain_stale` could cut a reply in two if the network had parted it
  (`mame_bridge.py:309`).
- A `/sendRaw` without data is answered, with the late response to an earlier call or after
  the timeout (`mame_bridge.py:186-187`); nothing says what it should get.
- A block size of 0 in the ROM's answer to an upload's init would have `upload_file` send empty
  pieces for ever with the lock held (`mame_bridge.py:427-434`), and an empty file has no pieces at
  all: the model takes the ROM to announce a size of one byte at least and has files of one piece
  at least (`MaxPieces`).
- The scan menu has 432 bytes for up to ten networks with names of up to 32
  characters (`gui_iface.c:250`); its text is not modelled.

**Not modelled**: what is drawn and where, in the driver (`drawascii.inc`, `gui.inc`)
and in PFTC, whose screen library wraps int 0x60 and int 0x10 without a decision of its own
(`pofo_line_edit` is in `PftcFields`, `screen_push` and `screen_pop` are
in `Pftc`); residency and installation, which run once and alone; the pattern,
drive letter and entry fields of LIST; the fixed answers of the mock server; diagnostics,
the tests, the Lua scripts and CI.  `PROJECT.json` gives the reason for each.

## 7. Plan

Done, in this order: COPY and its contract; the session of bridge, driver and ROM; the
bridge's threads; PFTC; LIST, DRIVES and the clock; the framing of a block and its
contract; PFTC's texts; the proofs of the refinement and of the session; the proofs about
PFTC's texts and the validators; the proof that the mock server keeps `BlockContract`.  Left:

1. **LIST's entries**: the fields of an entry and the pattern, so that the response is one
   the host can take apart.
2. **The display** of PFTC: the status line against the saved screens (`gui_core.c`).
3. **Proofs**: `BlockContract` for the bridge, with a condition on the payloads that takes
   its late replies into account.
