# ZRouter: TLA+ models, checks and proofs

ZRouter builds firmware for small FreeBSD routers. Most of the repository is a
build system, board descriptions and third-party code. Its own run-time logic
is small and exposed to everything that is hard to test: cut-off connections,
failing flash writes, power loss, several processes, timeouts and retries.

* **Firmware upgrade** (`target/sbin/upgrade`): a program started by inetd that
  reads a multipart upload, collects the image in a file, copies it to the
  firmware partition and reboots.
* **Web UI and link events** (`profiles/lua_web_ui`): `httpd.lua` configures the
  router and serves pages; `collector.lua` takes events from the scripts of
  mpd, dhclient and racoon and forwards them to `httpd.lua`; `devd.lua` does the
  same for link events and watches the reset button.
* **Configuration**: a tree in httpd's memory, edited by requests
  (`lib/conf.lua`, `cmd.xml`), and its way to a flash partition and back
  (`profiles/SMALL_/files/etc/rc.save_config`, `rc.restore_config`).
* **Device events** (`target/sbin/cdevd`): a daemon that runs handlers.

Paths below are relative to the repository; `W` stands for
`profiles/lua_web_ui/files/etc/www`.

## Inventory

| Component | State | Operations | Hard behaviour | What makes it correct |
|---|---|---|---|---|
| Upload ring (`http_input.c:43-287`) | `struct rbuffer`, `wrbuf` | `ring_buffer_init/append/drain`, `local_write`, `local_close` | index arithmetic, matcher without back-up, buffers at their limit | the file is exactly the image |
| `http_input` (`http_input.c:289-653`) | `struct args`: read buffer, position, declared length | `local_read`, `read_line`, `test_part_header`, body loop | short reads, closed and reset connections | READY only for the whole image; returns while the connection is up |
| `upgrade` main (`upgrade.c:157-470`) | target size, loop index, exit code; shared memory disk and device | size checks, open, copy loop, reboot | failing writes, several processes | reboots only into the image; flash untouched until the image is complete |
| Collector (`W/collector.lua`) | event queue, `r`, default route, LED | accept, `process`, `call_server` | refused calls, 60 s timeouts, late answers | no event lost, order per interface |
| Web server (`W/httpd.lua`, `W/htdocs/event.xml`) | `r`, tasks, listen queue | accept, `event.xml`, `configure_wan` | waits for the collector, which waits for it | waits end; agrees with the collector |
| Event scripts (`mpd-linkup`, `mpd-linkdown`, `dhclient-script`, `racoon/phase1-*.sh`) | none | one request to the collector | concurrent | - |
| devd relay (`W/devd.lua`) | none | link events to httpd, reset button | failed calls are dropped | a link gets its dhclient |
| Configuration store (`profiles/SMALL_/files/etc/rc.save_config`, `rc.restore_config`, `buttons/WDS.sh`, `W/htdocs/cmd.xml`) | `/tmp/etc` in memory, temporary file, flash partition | save, restore, reboot, boot | power loss, shared temporary file, unreported errors | the partition holds one whole configuration; answers are true |
| Configuration tree (`W/lib/conf.lua`, `node.lua`, `utils.lua`, `cmd.xml`) | XML tree | look up, create, set, save, load | requests that fail half-way, order of keys, texts that do not survive a save | requests do what they say; a restart keeps the configuration |
| cdevd (`target/sbin/cdevd`) | rules, child processes | match, run handler, daemon, signal | failing exec and fork | handlers run once, in order, all of them |
| Route selection (`W/lib/route.lua`), C configuration library (`target/sbin/conf`, `target/bin/conf`), pid file (`W/lib/pidfile.lua`) | | | | not modelled, see below |

They interact as follows: inetd starts `upgrade`, which calls `http_input`,
which calls the ring; main then uses the file and the size it returns. Scripts
call the collector on port 8; the collector calls `event.xml` of httpd on port
80; `configure_wan` in httpd calls the collector on port 8. devd calls httpd on
port 80. httpd, the shells its restore command starts, `devd.lua` and a handler
of cdevd run `rc.save_config`.

### Not modelled

* `route.lua`: dead code. Nothing calls `ROUTE:event`; the collector sets the
  default route itself, which `EventBus` has.
* The C configuration library and program: unfinished, built by no profile.
* `pidfile.lua`: rc starts collector and httpd once, and the loop that would
  restart the collector (`collector.sh`) is behind an `exit`. Two instances never
  start together.
* `parse_config` of cdevd: the model starts from the rules it has read. (Its
  result is ignored; after a syntax error the last rule has no handler.)
* The rest of httpd: pages, and functions that only run commands or write the
  files of other daemons.

Outside of this system's own logic: the build system (`Makefile`, `share/mk`,
`boards`, `socs`, `profiles/*.mk`), host tools that convert images (`tools`),
the start-up framework taken over from FreeBSD (`rc`, `rc.subr`,
`network.subr`), libraries that only run commands or write the configuration
files of other daemons (`dhcpd.lua`, `hostapd.lua`, `mpd.lua`, `linktest.lua`,
...), and vendored code (`contrib`, `ports`, Lua, opensips, LuaSocket). The
vendored opensips alone is about four fifths of the C code in the
repository, so the models cover a very small share of all lines, and most of
the run-time logic that was written for ZRouter.

## Modules

| Module | Models | Used by |
|---|---|---|
| `UploadRing` | the ring buffer, the matcher, the write buffer | `HttpInput`, `MCUploadRing`, `UploadRingProofs` |
| `Transfer` | the contract of `http_input` as main relies on it | `HttpInput` (refinement), `HttpInputProofs` |
| `HttpInput` | one call of `http_input`, on top of `UploadRing` | `MCHttpInput`, `HttpInputProofs` |
| `Upgrade` | `main` of upgrade.c, any number of processes | `UpgradeProofs` |
| `EventBus` | scripts, collector, devd.lua and httpd | `EventBusProofs` |
| `ConfigStore` | configuration in memory and on flash, everybody who saves it | `MCConfigStore`, `ConfigStoreProofs` |
| `ConfTree` | the tree, the requests that edit it, saving and loading | `MCConfTree`, `ConfTreeProofs` |
| `Cdevd` | cdevd and its processes | `CdevdProofs` |
| `MCUploadRing`, `MCHttpInput`, `MCConfigStore`, `MCConfTree` | bounded streams; request bodies in a small alphabet; sizes of configurations; a small tree, requests, and what the parser does to their texts | TLC |
| `*Proofs` | theorems | TLAPS |

Operators whose comment starts with *Mutant* are deliberately wrong variants of
the definition that follows them. They are used by no specification; each one
has been substituted for the right definition to see that the property named in
`PROJECT.json` is then violated.

### UploadRing

The variables are the fields of `struct rbuffer` and `wrbuf`; `written` is what
went to `write(2)`, `input` the history of the stream. `RingAppend`,
`DrainShort`, `DrainByte`, `DrainEnd`, `LocalClose` are the functions of the
same name, with the loop of `ring_buffer_drain` taken one turn at a time.
The constants are assumed to satisfy: the marker has at least two bytes, holds
no line feed, and is at least three bytes shorter than the ring (72 against 256
in the code).

### HttpInput

`pc` walks through `http_input` and `test_part_header`. All reads go through
`Filled`, `LocalRead` and `LocalReadNone`, which are `local_read`: the buffer is
refilled only when `inbuf_p` wraps to 0, a failed `read(2)` makes `inbuf_l`
huge, and the end of a short read looks like the end of the connection. Bytes
of the body are model bytes; a header line of a part is a single byte that says
which kind of line it is. The request line and the headers are one step.
`read(2)` and the connection are external: with `Pieces` it returns any number
of bytes, without it the full buffer as long as the client has `sent` it; with
`Faults` the peer resets, or closes behind any byte, so that the last buffer may
be short.

Two abstractions: the counter stops one above the declared length, since beyond
it only `counter_value != len` and the wrapped `len - counter_value` matter; and
the authentication branch (`http_input.c:543-550`) is left out because main
clears `args` (`upgrade.c:251`) after it has stored `-H` and `-M` there, so that
the branch is never entered.

### Upgrade

One process per upload; `outfile` is the memory disk every process uses, `dev`
the partition. A byte is symbolic: who sent it and which byte of the image it
is. `http_input` is represented by its contract (`TransferByte`,
`TransferReady`, `TransferFails`, together `TransferStep`), with the one thing
module `Transfer` does not have: the file has an end, and bytes behind it are
dropped silently. `LocalStep` is the rest of main, which waits for nobody. With `-G`
the target size is uninitialised and `TargetSizes` is any value. Each turn of
the copy loop writes a block completely, or in part with an error; the file
offset of the device descriptor moves by what was written, as in the code.

### EventBus

The collector is `Accept`, `AcceptTimeout`, and per queued event `Send` or
`SendFails`, `Answer` or `CallTimeout`; httpd is `StartServer`, `Serve`,
`ConfigureWan`, `WanConfigured`. `Process` is `process()`, `SeenAfter` what
`event.xml` keeps. `listening` is httpd's listen queue: a request
stays there when the collector has given it up (`live = FALSE`), and httpd
executes it all the same. Every event source sends a `gw`, so an event sets the
LED; whether `route(8)` succeeds is left open. httpd sends the header "200"
before it runs `event.xml` under `pcall` and ignores its result
(`httpd.lua:460-496`), so a script that failed would be acknowledged like one
that did its work; `event.xml` does not fail on what the scripts send, and `Serve`
has no such step. `CollectorDies` is an error in
`process()` or in the `assert` around `send`: the process ends, its queue is
gone, and it is not started again.

`LinkChange` is the cable; `RelaySend`, `RelayFails` and `RelayTimeout` are
`devd.lua`, which tries each link event once. `ServeLink` is `event.xml` for
`linkup` and `linkdown`: `run_dhclient` looks at the link as it is then
(`RunDhclient`), not at the event. `missed` records that the last event was
refused, until `configure_wan` looks for itself.

### ConfigStore

`tree` is httpd's configuration; `mem` is what differs in `/tmp/etc`: the
contents of `config.xml` and the size of `config.xml.bak`, which nobody reads but
`tar` archives. `flash` are the blocks of the partition, each tagged with the
contents whose archive it belongs to. `SaveConfig` and `SaveFile` are `save_file`,
which empties the file before it writes it and may fail in between
(`SaveFileFails`: a write that fails goes unnoticed, a close that fails ends the
request). `RestoreConfig` and `Wake` are the restore command, which removes
`config.xml`; `Press` is the reset button, which renames it (`MvConfig`), or the
WDS button, which only saves. A process that runs `rc.save_config` (`SaveStep`)
goes through `tar` and `dd` block by block. `temp` is the name
`/tmp/etc.tar.gz` and `file` the files behind it, so that a file removed while
another process has it open stays readable for that process, and a file opened
again is emptied. An archive is too big (`TooBig`) when the sizes of `config.xml`
and `config.xml.bak` together exceed what is left of the partition. `Boot`
restores what is on the flash; from a damaged archive `tar` may unpack each file,
half of it, or nothing. httpd does not start from half a `config.xml`, nor from
one of `Odd`, which stands for what module `ConfTree` finds: a whole
configuration with texts it cannot read back. `mixed` (jobs overlap, or a step of
one failed unnoticed) and `spoiled` (the partition was left by such a job, or by
a cut during `dd`) are history variables that say which executions the properties
leave out.

### ConfTree

A tree is a sequence of nodes with parents. `getNode`, `getOrCreateNode`,
`value`, `setValue`, `setAttr` are the functions of `conf.lua` and `node.lua`,
`setmany` is the loop in `cmd.xml` that ends at the first error. `Reloaded` is
`xmldump` followed by the parser. Texts beside each other become one, the white
space around a text is stripped and a blank text makes no node
(`xml.lua:199-206`), entities are expanded, the value of an attribute ends at its
first quote, an element without attributes has no attribute table any more. The
parser fails (`Parsable`) on a tag in a text, which has no end tag (`BadText`),
on `>` in an attribute (`BadAttr`: `xml.lua:289` calls `string.sub` with the
library instead of the string), on names that read differently in the start and
the end tag (`BadName`) and on text behind the last tag (`BadEnd`).

Texts, names and attributes are not strings: the constants `Read`, `ReadName`
and `Bad` say what the parser makes of each, and the theorems hold for any such
functions. `MCConfTree` has one of each kind: plain, blank, padded with white
space, empty, with an entity, with a quote, with a tag, with `-->` and a tag; a
name with a space and one that ends in `/`. `Word` are the names that `getNode`
accepts in a path (`conf.lua:33`); `getOrCreateNode` creates others too. Two
limits: a text or name that would be read as further nodes or attributes (a
complete element, a comment with `-->`, a quote followed by another attribute) is
not among the inputs, and names of attributes are in lower case, as the parser
makes them.

### Cdevd

Every process is a record: where it is in `event_loop` or `run_handler`, its
event and rule, the child it waits for. An event is the set of rules it
matches; `Broken` are the rules whose handler cannot be executed. Forking takes
a free slot of `Procs` or fails. `ExecFails` makes the child a copy of its
parent at the next rule, as the code does. `returned` (wait has returned for
such a child), `refused` (a fork failed) and `stopped` (a signal arrived, or
`select` or `read` failed and the process ended, `ReadFails`) are history
variables.

## Runs

All runs use the definitions as they are; configurations only give values to
constants. `CHECK_DEADLOCK FALSE` is set everywhere because each of these
programs legitimately stops (the request is answered, the process exits, no more
events happen).

| Run | Result | Shows | Bounds |
|---|---|---|---|
| `UploadRing` | holds | `RingTypeOK`, `RingInv`, `ImageExact`, `MatcherExact`, `FileIsPrefix` | every stream of at most 8 bytes over {CR, LF, -, b}, ring of 6, marker of 3, write buffer of 2: the ring wraps and the write buffer is flushed several times |
| `HttpInput` | holds | `InputTypeOK`, `ReadyMeansImage`, `ImplementsTransfer` | 18 bodies: images with fragments of markers and line breaks, a part with more header lines, fields before and after the firmware part, forms without a file, non-multipart bodies; the client closes behind any byte |
| `HttpInputPieces` | holds | `ReadyEndsWithImage`, `ReturnsUnlessClosed` | 4 bodies, all ways to cut them; the client closes behind any byte |
| `Upgrade` | holds | `TypeOK`, `UpgradeInv`, `RebootsIntoImage`, `FlashUntouchedBeforeImage`, `AtMostOneExtraBlock`, `EndsAfterTransfer` | HTTP and file mode, image sizes 0..7, file 7, blocks of 2, device 8: whole and partial last blocks; any target size, as with `-G` |
| `EventBus` | holds | `TypeOK`, `WanTaskEnds`, `AllDelivered`, `LinkGetsDhclient` | two interfaces, 2 events plus the one of configure_wan, 2 link changes; the collector may end |
| `EventBusSlow` | holds | `NoEventLost`, `BusInv`, `LinkServed`, `AgreementUnlessOvertaken` | the same, any call may time out, and the backlog is small enough to fill up |
| `ConfigStore` | holds | `TypeOK`, `FlashWhole`, `SavedIsStored`, `RestoreIsStored` | archives of two blocks; three configurations: the default one, one httpd cannot start from, one that does not fit, neither as `config.xml` nor as `.bak`; httpd and one other process, 2 runs of `rc.save_config` and 1 restore request per boot, any number of boots; power loss, failing `save_file`, `tar` and `dd` |
| `Cdevd` | holds | `TypeOK`, `OneActor`, `InOrderOnce`, `AllRun`, `AllHandled` | 3 rules of which the middle one is broken, 2 events with any matches, 4 processes: the chain grows until fork fails |
| `ConfTree` | holds | `TypeOK`, `PathsStable`, `ReadBack`, `OthersUntouched`, `RestartKeeps`, `StartsUnlessOddText` | trees of up to 9 nodes, 22 requests of one or two keys in either order, texts, attributes and names of each kind, a path with two instances, one with a comment in front |
| `HttpInputReset` | violated | `ReadyMeansImage` | finding below |
| `UpgradeTwo` | violated | `RebootsIntoImage` | |
| `EventBusFifo` | violated | `QuietAgreement` | |

Passing runs and violated runs of the same property differ in what the
environment does, and the difference is the condition under which the code is
right: `ReadyMeansImage` holds when the body arrives in full buffers, may be cut
off, and is larger than the ring; it fails with short reads, resets and tiny
images. `RebootsIntoImage` holds for one upload that fits into the memory disk.

### What the violated runs show

1. **Reset** (`http_input.c:311`): the -1 of `read(2)` is stored in an unsigned
   length; stale buffer contents are read as body bytes.
2. **Two** (`upgrade.c:440`, `rc.d/UPGRADE_MODE:36`): two uploads mix their images.
3. **Fifo** (`collector.lua:231`): a failed call lets newer events overtake, and
   the older state of the interface stays in httpd.

### What the conditions of the properties leave out

The properties that hold are stated with the conditions under which the code is
right. Each condition is an observation about the code; dropping it makes TLC
show an execution.

*Upload.* A short read inside the part headers ends the header loop as the empty
line does (`http_input.c:465`; the test of line 466 cannot be reached), and the
rest of the headers ends up in front of the image: hence `ReadyEndsWithImage`
for bodies in pieces. The discard loop does not end when the client closes
before the declared length (`http_input.c:629`): hence `ReturnsUnlessClosed`. A
part smaller than the ring is written with its CR LF and marker
(`http_input.c:277`): hence images larger than the ring in `MCHttpInput`, and
the condition in `ImageExact`.

*Events.* `alive`: when the collector ends, its queue is lost. `~overtaken`: see
Fifo. `~missed`: a link event that httpd refuses is dropped (`devd.lua:106`
compares nil with false).

*Configuration store.* `~spoiled`: `dd` overwrites the only copy in place;
overlapping jobs share one temporary file; `config.xml` is emptied before it is
written (`utils.lua:136`), and a button pressed in between, or a write that
fails, saves half a file. `~mixed`: the script's exit status is that of its last
message (`rc.save_config:54`), so failures of `tar` and `dd` are reported as
success. The restore script is appended to, not written (`cmd.xml:81`): the n-th
request starts n shells. `TooBig` in `RestoreIsStored`: the reset button renames
`config.xml` instead of removing it (`devd.lua:153`), so an archive that was too
big stays too big, `rc.save_config` refuses it, and the router reboots into the
configuration that was stored before, although `devd.lua:146` and `157` speak of a
reset to default. The restore command, which removes the file, does not have this
problem unless an earlier `.bak` is there. Not every whole configuration starts
httpd: see *Tree*.

*cdevd.* `~returned`: when a process of the chain exits - also because it calls
`daemon()` - its parent goes on with rules that have been run already, and two
processes read events. `~refused`: a handler is passed over when fork fails,
which every broken handler brings closer.

*Tree.* `PlainRequests`: `getOrCreateNode` compares the index of a path, a
string, with a number (`conf.lua:129`) and never descends to an existing
sibling; the missing child of `x[2]` is created, or overwritten, one level up.
`r.ok` in `ReadBack`: a value for a node whose first child is an element is
appended as a text nobody can read, and printing it raises an error in the
middle of the request. `RestartKeeps` is about trees that can be parsed and whose
names are read as they are, and about values the parser does not change: white
space around a value is stripped, a blank value is gone, entities are expanded,
an attribute ends at its first quote, since `xmldump` escapes nothing. An element
saved without attributes has none after the restart and can get none
(`node.lua:30`, `cmd.xml:48`). `StartsUnlessOddText`: what has to be in
`config.xml` for httpd to end at every start. A tag in a text does it, `>` in an
attribute (`utils.lua:35`, `xml.lua:289`), a name that is not a word, a text
behind the last element; and a blank text in front of an element at a path of
the board's information, which is dropped, so that the value written there
cannot be read (`httpd.lua:1018`). A comment that comes first is taken for the
value (`node.lua:43`).

Three more observations: a short read in the body makes `http_input` give the upload up though the
connection is fine (`BodyFails`, `http_input.c:612`); an image larger than the
memory disk is cut off silently (`TransferByte`, `http_input.c:184`), which is
why `SingleUpload` asks for `MaxImage <= OutCap`; and the copy loop writes one
block behind the image although `upgrade.c:407` says that it does not copy empty
blocks, which is why `AtMostOneExtraBlock` allows for one.

### Fairness

`InputSpec` has weak fairness of the process: it is scheduled, and as long as the
connection is up the client keeps sending (a blocking `read(2)` returns). Faults
are never fair. `Upgrade!FairSpec` has weak fairness of `LocalStep`, what each
process does once `http_input` has returned; the transfer itself is not fair,
because its reads have no timeout and its discard loop does not end after a close
(`http_input.c:629`), so that `EndsAfterTransfer` promises an end only from there
on. `Cdevd!FairSpec` has weak fairness of each process: handlers are assumed to end,
since cdevd waits for them without a timeout. Signals and failing reads need not
happen.
`EventBus!FairSpec` has weak fairness of the collector, of devd.lua and of httpd,
each as a whole: all are loops whose every wait is bounded (accept 5 s, HTTP request
60 s), except the `fetch` in `configure_wan`, which ends when the collector has
accepted it, or has ended. Events, link changes and errors need not happen. In that run (`SlowServer = FALSE`) a call
only times out while httpd waits for the collector: if httpd needed more than
60 s for every single request, nothing could ever be answered, so delivery is
claimed for an httpd that answers in time; the safety properties are checked
without that assumption.

## Theorems

Proved by TLAPS for every value of the constants that satisfies the named
assumptions:

| Theorem | Statement | From |
|---|---|---|
| `RingInvariance`, `RingTypeCorrect` | `RingSpec => []RingInv`, `RingSpec => []RingTypeOK` | `RingAssumption` |
| `UploadedImageExact` | `RingSpec => []ImageExact` | and `MarkerAssumption` |
| `MatcherIsExact` | `RingSpec => []MatcherExact` | |
| `OutputIsPrefix` | `RingSpec => []FileIsPrefix` | |
| `RingUsedAsSpecified` | `InputSpec => RingSpec` | and `InputAssumption` |
| `InputTypeCorrect` | `InputSpec => []InputTypeOK` | |
| `InputInvariance` | `FormUploads` implies `InputSpec => []InputInv` | and `BoundaryAssumption` |
| `ReadyIsImage` | `FormUploads` and `~Pieces` imply `InputSpec => []ReadyMeansImage` | |
| `ReadyEndsImage` | `FormUploads` implies `InputSpec => []ReadyEndsWithImage` | |
| `TransferImplemented` | `FormUploads` and `~Pieces` imply `InputSpec => ImplementsTransfer` | |
| `UpgradeTypeCorrect` | `Spec => []TypeOK` | `UpgradeAssumption` |
| `FlashIsSafe` | `Spec => []FlashUntouchedBeforeImage`, any number of processes | |
| `SingleUploadReboots` | `SingleUpload` implies `Spec => []RebootsIntoImage` | |
| `UpgradeInvariance` | `SingleUpload` implies `Spec => []UpgradeInv` | |
| `CopyStops` | `Spec => []AtMostOneExtraBlock`, any number of processes | |
| `BusInvariance`, `BusTypeCorrect` | `Spec => []BusInv`, `Spec => []TypeOK` | `BusAssumption` |
| `NothingIsLost` | `Spec => []NoEventLost` | |
| `LinksAreServed` | `Spec => []LinkServed` | |
| `AgreementHolds` | `Spec => []AgreementUnlessOvertaken` | |
| `StoreInvariance`, `StoreTypeCorrect` | `Spec => []StoreInv`, `Spec => []TypeOK` | `StoreAssumption` |
| `FlashStaysWhole` | `Spec => []FlashWhole` | |
| `SavedAnswerTrue`, `RestoreLeavesDefaults` | `Spec => []SavedIsStored`, `Spec => RestoreIsStored` | |
| `CdevdInvariance`, `CdevdTypeCorrect` | `Spec => []CdevdInv`, `Spec => []TypeOK` | `CdevdAssumption` |
| `OneActorAtATime`, `HandlersInOrder`, `NoHandlerMissed` | `Spec => []OneActor`, `[]InOrderOnce`, `[]AllRun` | |
| `TreeTypeCorrect` | `Spec => []TypeOK` | `TreeAssumption` |
| `PathsAreStable` | `Spec => []PathsStable` | |
| `OthersAreUntouched` | `Spec => []OthersUntouched` | |
| `RequestsReadBack` | `OneValuePerPath` implies `Spec => []ReadBack` | |
| `TreeInvariance` | `Spec => []TreeInv` | and `DefaultAssumption` |
| `RestartKeepsAll` | `Spec => []RestartKeeps` | |
| `StartFailsOnlyOnOddText` | `Spec => []StartsUnlessOddText` | |

**Ring.** `RingInv` is inductive: `WindowInv` (slot `i` holds the byte of the
stream at position `Pos(i)`), `MatchInv` (`matched` counts marker bytes at the
end of the stream, and any run of marker bytes that starts a line has exactly
that length - which is where the marker without line feed is needed, because the
matcher does not back up), and `StreamInv` (what went to `local_write` is a
prefix of the stream, and how long it is in each phase; during the drain the
index and `filesize` move together). None of the properties is inductive alone:
`ImageExact` speaks of the closed file, and what is still in the ring and in
`wrbuf` has to be accounted for before.

**http_input.** `RingUsedAsSpecified` is the composition: every step of
`http_input` is a step of the ring or leaves it alone, for any body and any
behaviour of the connection, so the theorems about the ring can be used inside
`http_input` without being proved again. What `http_input` adds is how the bytes
get from the socket to the ring. `InputInv` has four layers. `ReadInv`: the
read buffer is a window on the body that ends where `read(2)` stopped, which is
what the wrap of `inbuf_p` and the reuse of the buffer could break. `LineInv`:
the line that `read_line` is collecting starts where a line of the form starts,
so that each test in `test_part_header` looks at the line it was written for.
`BodyInv`: the ring gets a run of the body that begins behind the disposition
line and ends with the marker behind the image, and begins with the image when
no short read has ended the header loop early. `FileInv`: what is written, or
buffered for writing, is a prefix of the image; it is not implied by the ring's
invariant, since the matcher has to have found the right marker. The theorems
about READY then follow from `ImageExact` of the ring.

Their hypothesis `FormUploads` says what they are about: no reset (run
`HttpInputReset` shows that they fail with one), and bodies as a browser builds
them for the form that `http_index` serves (`http_input.c:119-122`): the marker
line, the disposition line of the firmware field, further header lines that fit
into the line buffer, an empty line, the image, and the marker, which does not
occur before. The image and the marker line together fill the ring; a
smaller image is written with its marker, as said above. `MCHttpInput` evaluates
the hypothesis on `MCFormBodies`. Bodies with fields before the firmware, forms
without a file and bodies that are no form are only model-checked.

**Upgrade.** `FlashIsSafe` needs only that main gets past `http_input` with
complete images (`ImageComplete`). For `SingleUploadReboots` the invariant adds
`CollectInv` (the file holds what was received) and `FlashInv` (without a failed
write, the descriptor stands at the loop index and all blocks before it are on
the device). `SingleUpload` (one process, image fits into the file) is an
explicit hypothesis; `UpgradeTwo` shows what happens without its second half.
`CopyStops` needs neither: `CopyBound` says that the descriptor is not ahead of
the loop index and the index, a multiple of the block size, not behind the last
block of the image.

**Event bus.** `NoEventLost` is only inductive together with `CallInv`: a live
request in the listen queue is the one the collector waits for and carries the
event at the loop index, so an answer never removes another event;
`EmittedInv` bounds the identifiers. `LinkServed` needs `LinkInv` (the last
unread link event tells the state of the link). `AgreementUnlessOvertaken` speaks
of quiet states only; the invariant behind it says what holds before: events are
queued in their order (`OrderInv`), the live request is the collector's last one
(`LastInv`), while events of an interface are queued so is the newest (`Newest`),
and when that is gone httpd has executed it and no older request of the
interface is left (`Settled`, `Credited`).

**Configuration store.** `LoneInv`: a job that is alone (`~mixed`) carries the
same contents from `config.xml` (`Carries`) through the temporary file into the
blocks `dd` has written; from this the partition is whole when `dd` is done.
`JobInv` says what those contents are: the tree for a save, no `config.xml` for a
restore. `RestoreIsStored` looks at every step that ends a restore job: after `dd`
the partition has what was carried, without a partition there is nothing to
restore from, and a refused archive is one of `mem`, which is then too big.

**cdevd.** `ChainInv`: who waits has a child of its own, and the chain has one
process that can go on; `OrderInv`: what has run lies before what any process
will run next, and that before what is queued; `DoneInv` is `AllRun` for the
waiting processes too.

**Tree.** Paths and requests are walked by recursive functions, and the provers
cannot instantiate the induction theorems of the library. The proofs
do without: a set of naturals has a least element (`LeastOf`, from the
well-foundedness of `<`), hence a *set* that contains 0 and is closed under
stepping contains `0..n` (`AllReached`), and that lemma takes no operator. It is
used first to show that the recursive functions exist (`WalkOf`, `CreationOf`,
`RequestOf`), then for whatever holds along a walk.

The state properties about requests need no more than a tree. `Extends` (a
tree grows at the end; names and places stay) gives `PathsAreStable`: the first
of several children, and the one with a given index, stay what they were.
`KeyValues` says what one key of a request changes; `OthersAreUntouched` is that
along the request. For `RequestsReadBack` a later key must not overwrite what an
earlier one has set: it would have to lead to the same node, and paths without
index that lead to one node are the same path (`PathOfNode`, by walking back to
the root). What is left is the hypothesis `OneValuePerPath`; keys of a Lua table
are distinct, but two of them can name the same path, `a.b` and `a..b`.

`RestartKeeps` and `StartsUnlessOddText` are not inductive. `TreeInv` adds
`Separated` (each text is the first child or comes after something else), since
the parser would join a value with a text beside it, and `HasInfo` (a running
httpd has a value at the path of the board's information), since a value must be
there before the save to be there after it. `PathReloaded` says that every path
leads to the node with the new number (`Num`): numbering keeps the order, nodes
with a name are never dropped, so the index among nodes of one name is kept
(`IndexReloaded`, a bijection). `AttrReloaded` and the lemmas on values say the
same of what hangs on the node, for values that `Read` leaves alone. `DefaultAssumption` is what `load_file` makes of
the `config.xml` of the repository: one text between two tags, and no
`info.device` or `info.soc` element, so that there is room for the values.

Only model-checked: liveness (`ReturnsUnlessClosed`, `EndsAfterTransfer`, `WanTaskEnds`,
`AllDelivered`, `LinkGetsDhclient`, `AllHandled`), which is out of reach of the
installed provers, and `ReadyMeansImage` and `ImplementsTransfer` for bodies
other than `FormUploads`. All invariants and action properties of the passing
runs are theorems.

## Plan

Done: upload ring, `http_input`, upgrade main, event bus with devd.lua and the
end of the collector, configuration store, configuration tree, cdevd, with the
theorems above. Left:

1. Composition of `HttpInput` and `Upgrade` over `Transfer`: `Upgrade` uses the
   contract and `HttpInput` is proved to implement it, but the two are not
   checked in one state space.
2. Theorems for bodies with fields in front of the firmware part: `LineInv` would
   have to follow the loop that skips a part.
3. `configure_wan` in its other modes (PPPoE, DHCP), if its shell commands can be
   given effects that matter.
