# A verification of micropython-pydevices

TLA+ specifications, TLC models and TLAPS proofs about the parts of
micropython-pydevices in which several threads, cores, interrupts or callbacks
share state: the USB host (`modules/usbhost/`), the audio ports
(`modules/audioif/`), Bluetooth audio (`modules/btaudio/`), the camera
(`modules/cameraif/`), video casting (`modules/castif/`), the displays
(`modules/displayif/`) and mDNS (`modules/mdns/`). In the sections about the USB host, paths are relative to
`modules/usbhost/src/`; everywhere else, to `modules/`.

- [The repository](#the-repository)
- [Components](#components)
- [Modules and their correspondence to the code](#modules-and-their-correspondence-to-the-code)
- [Runs, bounds and fairness](#runs-bounds-and-fairness)
- [What is proved](#what-is-proved)
- [Where the code and its documentation differ](#where-the-code-and-its-documentation-differ)
- [Stated and not run](#stated-and-not-run)
- [What is not modelled](#what-is-not-modelled)
- [Plan](#plan)

To check a model, `tlc -config MCHostTask.cfg HostTask`; to check a proof,
`tlapm PcmSink_proofs.tla`. `PROJECT.json` lists the runs, the mutants of every
property, the lines the definitions model, and the hazards of the code with
the properties that cover them. A helper of a line or two has no lines of its own there
where those of the actions that use it cover them.

## The repository

The repository is an overlay on MicroPython and CircuitPython: a build driver, a
set of patches and variants, and C modules frozen or linked into the firmware.

| Part | State it keeps | What it does | Here |
|---|---|---|---|
| `usbhost` | tasks, rings, device and pipe tables, a host lock | USB host: enumeration, transfers, isochronous streams, tethering | most of it |
| `audioif` | the I2S channel pair, DMA and capture rings, file feeds | audio output and capture | the ESP32's port, I2SOut, the pump's port, WASAPI, the Giga's capture |
| `cameraif` | two frame buffers, a controller, sensor tables | cameras | buffers, opening and closing, orientation, exposure, white balance, what a frame becomes |
| `castif` | HLS segments and clients, a cast's task, a sound ring | video casting | both classes |
| `tsmux` | continuity counters | MPEG-TS packets | no |
| `btaudio` | Bluedroid connection state, a ring | A2DP audio | the ring and the link |
| `displayif` | frame buffers, panel buses, encoder and touch state | displays on every port | the ESP32's RGB and DSI panels, the RP2350's DVI, HUB75 matrices |
| `mdns` | service tables, a socket or a thread | mDNS advertisement | unix and Windows |
| `ppa` | clients with a flag, the hardware's handles and a scratch picture | scaling, turning, converting pictures, on the ESP32-P4's hardware or in software | all but the colours |
| `jpegio` | the engine's kept buffers | JPEG | the encoder against the cache; not the decoder |
| `pngio`, `h264enc`, `vision`, `tflite`, `picotts` | codec contexts | bindings to codecs and engines, most of them vendored | no |
| `variants/webassembly/wasmbridge` | a table of host callbacks | the browser bridge | no |
| `build_mp.py`, `patches/`, `scripts/`, `boards/`, `variants/` | a build record, lock files | fetch, patch, configure, build | no |

## Components

| Component | State | Operations | Interaction | What makes it correct |
|---|---|---|---|---|
| Event ring (`shared/usbhost_ringbuf.c`) | `slots`, `head`, `tail`, `dropped` | push, pop, take_dropped, init | host task pushes, interpreter drains, no lock | a consumer never sees a torn record; events are handed out once and in order; a loss is told |
| Playback gate (`shared/usbhost_pcm_sink.c`) | `live`, `users`, `busy`, `last_gen` | open, close, write, space | any task writes, the stream's owner closes and frees | no call inside a ring that was closed; one producer; a dead sink stays dead; close returns |
| Host task (`usbhost_host.c`) | task handle and flags, device table, install verdict, abandoned count, wedged | install, loop, attach, gone, teardown, uninstall | the interpreter starts and stops it; callbacks from the library | the library owns what is queued; nothing is left open when the client deregisters; a start finds the library uninstalled; stop returns |
| Control transfers (`usbhost_host_xfer.c`) | one busy flag, one semaphore, the abandoned tag | control transfer, abandon, callback | the call waits without the lock, the pump completes | an answer is the caller's own; a live transfer is never freed |
| Pipes (`usbhost_host_xfer.c`) | claims, pipes with `busy`, `kept`, `done`, a cached transfer | claim, release, transfer, poll, gone | as above | in flight = busy; a woken call was woken by its own transfer; kept bytes are not lost |
| Streams (`usbhost_host_stream.c`) | slots, transfers in flight, the ring, the gate | open, callback, stop, gone | the pump resubmits, the interpreter stops | a slot is freed only when its transfers are back; its ring outlives them |
| Tethering (`usbhost_host_net.c`) | one network interface, transfer tables | start, transmit, receive, stop, gone | lwIP transmits, the host task completes | no transfer is freed in flight; stop and gone agree |
| TinyUSB engine (`usbhost_tuh.c`) | device, claim and pipe tables, a control generation | as the host task and the pipes, from one core with interrupts | scheduler nodes and soft timers | no buffer is the controller's and somebody else's; a wait on a device that goes ends |
| Byte ring, UVC frames, queue and pace (`shared/usbhost_byte_ring.c`, `_uvc_frame.h`, `_iso_queue.h`, `_iso_pace.h`) | small structs | pure algorithms | called from the stream callback | no byte lost at a wrap; no record of two frames or of a marked one; the queue covers a missed tick; no drift |
| Binding (`mod_usbhost.c`) | the running flag, ring roots, the soft-reset guard | the Python module | calls all of the above | rings stay rooted; a start never wipes queued events |
| I2S channel (`audioif/_audioif.c`) | the pair's two handles, who holds them, the clock | open, configure, write, close, rx_open, rx_close | an output and a recorder share it; the pump's thread writes | neither takes the port from the other; a handle is held as long as it is open |
| Capture ring (`_audioif.c`, `audioi2sin.c`) | ring, two counts, `armed`, dropped | interrupt's push, pull, arm, disarm | interrupt on one core, recorder on the other, a spinlock about the ring's life | in order; never after the free; drops are told |
| File feed (`audiobusio.c`) | source block, block in hand, the ring, `feed_done` | play, feed (node and polls), stop, pause, retarget | scheduler node, polls of `playing`, the pump's pulls | the file in order, once; padded once; it ends |
| Starved count (`_audioif.c`) | two plain words, two counts, the time of the last descriptor | the interrupt's two callbacks, write, reset, hold, resume, read | three threads, plain words | silence before the first write does not count, nor any twice |
| STM32 capture (`audioif_stm32.c`) | head, tail, skip, dropped, the guard | begin, poll, pull, discard, end, finaliser | circular DMA, soft timer, reader | a sample is copied before it is written again; losses counted; a guard ends its own recording |
| Camera (`cameraif/src/mod_cameraif.c`) | two buffers, `fb_held`, `fb_done`, the stage it came to | make_new, wait_frame, deinit, both callbacks | CSI interrupt, soft reset | DMA and reader never hold one buffer; nothing freed is written |
| A camera's picture (`mod_cameraif.c`, `sensor_table.c`) | the sensor's flips and their copies, the Bayer order, the loop's statistic and skip, matrix, gains, black, curve, a table's heap blocks | flip, mirror, exposure, gain, auto_exposure, awb, wb_gains, ccm, gamma, black_level | ISP's interrupt, the loop in wait_frame | the ISP reads the colours the sensor sends; the loop steers toward the target; black is taken off; nothing leaks |
| A camera's frame on its way (`mod_cameraif.c`, `ppa_hw.c`, `ppa_sw.c`, `mod_ppa.c`, `jpegio_enc.c`, `jpegio_hw.c`) | `take_buf`, `yuy2_buf`, ppa's `used_hw`, handles and scratch, the engine's input buffer; memory and cache | frame, capture, take, reconfigure, capture_jpeg, capture_scaled, capture_yuy2; ppa's srm, convert, fill, blend; JpegEncoder.encode | the sensor, the PPA and the engine write memory, the CPU its cache; threads in ppa have let the interpreter's lock go | a call's picture is of the frame it claimed, in the form asked, and stays; a block scales exactly when it is said to; no pixel is read or written outside its block |
| Hls (`castif/src/castif_hls.c`) | segment slots, clients, playlist, `front`, `back`, two flags | start, stop, offer, the task's iteration | HTTP clients, interpreter's core and the task's | the segment being sent stays; no torn frame |
| Cast (`castif/src/mod_castif.c`) | dirty rows, `want_idr`, `new_bitrate`, sound ring, timestamps | start, stop, close, mark_dirty, set_bitrate, feed_audio, the task's frame | two cores, plain words | what was marked is sent; one task; sound beside its picture |
| WASAPI (`audioif/audioif_wasapi.c`) | a device, a fifo of what came early, a thread for a Ring | open, write, drain, read, free | the pump or the stream's own thread uses it, the device plays beside it | frames in order, each once; drops told; nothing used after free |
| Pump port (`_audioif.c`) | a recursive lock, a wake, a pace, a thread | lock, wait, wake, pace, start, stop, on three systems | the engine's pump and the interpreter | one holder; no wake lost; stop returns |
| btaudio (`btaudio/esp-idf/btaudio/btaudio.c`) | a ring with wrapping positions, what is known of the sender, changed bits, the volume | start, stop, read, changes, set_volume, Bluedroid's callbacks | Bluedroid's task and the reader | frames in order, none of before a reset; a change is told; both ends agree on the volume |
| RGB panel (`displayif/.../esp32/mod_dotclockframebuffer.c`) | two buffers, which is drawn, what is dirty | construct, paint, refresh, flip, deinit, soft reset | the scanout wraps at any moment | nothing on screen is painted; what was drawn is shown |
| DSI display (`esp32/mod_mipidsi.c`) | five handles mirrored in statics | Bus and Display, construction in six steps, deinit, soft reset | ESP-IDF's objects outlive the heap | no handle lost or freed twice; what was written reaches the DMA |
| DVI (`rp2/picodvi_rp2350.c`) | two DMA channels, a command list | construct, start, the interrupt, stop | an interrupt restarts the DMA | the DMA reads only what is held |
| HUB75 matrix (`common/rgbmatrix/`) | Protomatter's static core, two buffers, a timer | construct, refresh, deinit, soft reset | a timer interrupt loads and lights rows | a row is lit by its own bits; refresh ends |
| Panel buses (`mod_spibus.c`, each `mod_i80bus.c`, `gpio_bitbang.c`) | a static that names the newest bus, pins, a FIFO or a queued transfer | construct, send, deinit, soft reset | a transfer's end comes by interrupt; the PIO clocks beside the program; another device uses the SPI | the panel takes the command, then the data, each byte once; no peripheral lost |
| QSPI bus (`esp32/mod_qspibus.c`) | a held command, two DMA buffers, a semaphore, a count of what is out | send, write_command, write_data, deinit | transfers end by interrupt | the panel is told what was said, in order; the count is right |
| mDNS, unix (`mdns/src/mdns_posix.c`) | the Server's services and names, a thread, a pipe | construct, deinit, add, remove, rename, find | the responder's thread and the interpreter | a listener knows what is advertised; find gets what came; deinit returns |
| mDNS, Windows (`mdns/src/mdns_windows.c`) | registrations and a browse with what Windows owes them | register, withdraw, rename, find | Windows calls back on a thread of its own | nothing freed that Windows still calls back about |

The hard behaviours: waits with the lock let go, on both sides of which state
must be read again; timeouts that race a late completion; a device unplugged in
the middle of anything; a teardown that pumps the very callbacks that change what
it tears down; library calls that never return; rings and flags shared without a
lock between an interrupt, a timer or another core and the interpreter; a
constructor that fails half-way; finalisers at a soft reset.

## Modules and their correspondence to the code

| Module | What it is |
|---|---|
| `PcmGate` | what `usbhost_pcm_sink.h` promises: phases, the set of callers inside, the bytes stored |
| `PcmSink` | `usbhost_pcm_sink.c` with its owner, refining `PcmGate` |
| `EventFifo` | what `usbhost_ringbuf.h` promises: a bounded FIFO that counts what it turns away |
| `EventRing` | `usbhost_ringbuf.c` with `host_start`, `host_stop`, `host_drain`, refining `EventFifo` |
| `HostTask` | a host session: `usbhost_host.c`'s task and teardown with the control transfers of `usbhost_host_xfer.c` |
| `HostXfer` | the bulk and interrupt pipes of `usbhost_host_xfer.c` |
| `StreamSlots` | what `usbhost_host_stream.c` promises of its slots: free, running, draining, and what the library holds |
| `HostStream` | the streams of `usbhost_host_stream.c` with their rings' roots in `mod_usbhost.c`, refining `StreamSlots` |
| `HostNet` | `usbhost_host_net.c` between the interpreter, the host task and lwIP's thread |
| `TuhEngine` | `usbhost_tuh.c` on its three levels of execution |
| `ByteRing`, `UvcFrame`, `IsoPackets` | the algorithms of `shared/` with the bus, device or program beside them |
| `I2sChannel`, `CaptureRing`, `StarveCount` | the ESP32's audio port, `_audioif.c` with `audiobusio.c` and `audioi2sin.c` |
| `FileFeed` | `audiobusio.I2SOut` playing a file |
| `RxRing` | the Giga's capture, `audioif_stm32.c` |
| `CameraBuffers` | `mod_cameraif.c`'s buffers, from the constructor to the soft reset |
| `CameraTune` | `mod_cameraif.c` and `sensor_table.c`: orientation, exposure, white balance, a table's life |
| `PpaPictures` | `mod_cameraif.c`'s calls for a frame over `ppa` and `jpegio`'s engine |
| `HlsSegments`, `HlsHandover` | `castif_hls.c`: the segments and their clients; `offer()` |
| `CastSession`, `CastAudio` | `mod_castif.c`: the cast and its task; its sound |
| `PumpPort` | what `_audioif.c` gives the audio engine to run its pump on, on three systems |
| `Wasapi` | `audioif_wasapi.c` with `_audioif.c`'s Input and sink |
| `BtAudio` | `btaudio.c`: the ring of frames; everything else it shares with Bluedroid |
| `Mdns` | `mdns_posix.c` under `mod_mdns.c`: the responder, its thread and `find()` |
| `MdnsWindows` | `mdns_windows.c`: memory shared with Windows |
| `RgbPanel`, `DsiPanel` | the ESP32's `mod_dotclockframebuffer.c`; its `mod_mipidsi.c` |
| `PicoDvi` | `picodvi_rp2350.c` under `mod_picodvi.c` |
| `RgbMatrix` | `mod_rgbmatrix.c` over `protomatter/core.c`, and its own scan where there is no Protomatter |
| `PanelBuses` | `mod_spibus.c` and the 8080 bus on the ESP32, the RP2, the i.MX RT and the SAMD; the ESP32's `mod_qspibus.c` |
| `Panels` | what `RgbPanel`, `DsiPanel`, `PicoDvi`, `RgbMatrix` and `PanelBuses` promise together |
| `MCSafeParts`, `MCLiveParts` | for TLC: the modules with safety properties only, side by side; those that must also end |
| `..._proofs` | the theorems and their proofs: a module of its own for each of four components of the USB host, `TwoSides_proofs` for what two cores or threads hand over without a lock (`EventRing`, `HlsHandover`, `BtAudio`) and for `HlsSegments`, `SoundParts_proofs` for what carries sound, `NetPictures_proofs` for what serves a network or carries pictures and for the pipes of `HostXfer`, `PanelParts_proofs` for the displays and their buses |

In the modules of `MCSafeParts` and of `MCLiveParts`, every name begins with the component's
prefix (`Ic`, `Cr`, ...; `TuhEngine`'s do not), since SANY takes them together.

The components of the USB host are not composed with each other: `PcmSink` and
`EventRing` share nothing with the rest but their calls, and the two halves of
`usbhost_host_xfer.c` use disjoint state (`usbhost_xfer_ctrl_*` in `HostTask`, the
pipe and claim tables in `HostXfer`). A stream's stop comes before its
interface's pipes are dropped (`usbhost_xfer_drop_pipes`), under the same lock: it is
`StopItf` in `HostStream` and left out of `HostXfer`'s releases. Each module carries
the environment it needs. Outside the USB host a module is the composition of the
parties that meet in its state: `I2sChannel` is the output, the recorder, the port
and the pump; `CaptureRing` is `_audioif.c`'s interrupt and `audioi2sin.c`'s recorder.

### PcmSink

One atomic access of the C code is one step. `live`, `users`, `busy`,
`last_gen` and `frame` are the struct's fields. `owner` and `storage` stand for
`usbhost_host_stream.c` and `mod_usbhost.c`: the ring is built (`SetRing`), the
stream opened (`OpenPrepare`, `OpenPublish`: the generation is chosen, then
published), closed (`CloseStore`, `CloseDone`: the wait for `users`) and the
ring let go (`Release`). A caller goes `Find`, `Current`, `EnterCount`,
`EnterCheck`, then `Refuse`, or `TryLock`, `Room`, `Push`, `Unlock`, `Leave`. An
interpreter thread looks the generation up each time; a native task keeps the
one it was issued until it is refused. Bytes are counted, not stored. The
operations on `live` and `users` that the argument needs are sequentially
consistent in the C code.

### EventRing

Each access to a word the other side may touch is a step. `Look` is the single
read of `tail`; `Write` and `Publish` are the record's copy and the store of
`head`; `LoadDropped` and `StoreDropped` are the two halves of `dropped++`, a
volatile word and not an atomic one; `TakeDropped` and `ClearDropped` are the two
halves of `usbhost_rb_take_dropped`. `Start` is the reservation in `host_start`,
which happens only when the host is not running. Whoever emits holds the host
lock, so there is one producer. Stores are assumed to be seen in program order:
the code uses `volatile` and no barrier, so the model says nothing of a machine
that reorders them (see the hazards).

### HostTask

A region under the host lock is one step, since every entry point takes that
recursive lock; what a caller does without it is where the others move. `task`
is the place in `usbhost_host_task`: install, verdict, loop, the teardown's
close loop with the retirement of abandoned transfers (`TearClose`,
`TearRetire`, `RetireEnds`), the pumping that follows, deregistration, the wait
for ALL_FREE, the forced release, uninstall, exit. `api` is the interpreter's
call. `host_running` is `mod_usbhost.c`'s flag. The library is external: `lib` is
its view of each device, `events` what it has for our client, `where` the
queue a transfer is in. A library call may hang (`Hang`), as the code's own wedge
handling expects. `slots` holds the listed devices; a row is not modelled apart
from its device.

### HostXfer

`in_use`, `busy`, `kept`, `done` and `xfer` are the pipe's fields; `full` says
that a transfer's buffer holds bytes no call was given. A call is one step under
the lock until its wait, one for the wait's end, one under the lock afterwards.
`now` (a poll that does not wait) is a kept read that times out at once. A
release goes through its pipes one by one, since dropping a busy one lets the
lock go. Device tables and claims are reduced to one device and one interface.

### HostStream

`used`, `open`, `gone`, `inflight` are the slot's fields and `key` its device
address and endpoint; `queued` and `back` are what the library has of its transfers;
`rooted` says whether `usbhost_stream_owner` holds the ring of the slot's stream. The
host lock is recursive, and a stop waits by pumping while it holds it. So two
stops can be under way: the interpreter's (`Close`, `CloseAll`, `StopItf`) and that of
a device that goes (`DevGone`), run by the host task or nested in a wait of the
former. `stage`, `cur` and `todo` are the place, the slot and the rest of the loop of
each; only the inner one runs. `StopSlot` is the entry of `stop_locked`,
`RetireEnds` the end of its first wait (freed, halted and flushed, or, when the
device is gone, waited for again), `HaltEnds` the end of the second, after which a
slot with transfers out is left as it is. `Callback` is `usbhost_stream_cb`. `Root`
and `ReleaseOwners` are `mod_usbhost.c`'s, without the lock. The library may refuse a
resubmission, ignore a flush and keep a transfer for ever; it need not hand
everything back before it reports the device gone. There is one device at a time,
and each endpoint is its interface's only one; packets' bytes are left to the plan.

### HostNet

`open`, `netif`, the transfers and their `busy` marks are the struct's. The
interpreter's `start` and `stop`, the completions and `gone` hold the host lock and
are one step each, but for stop's wait of half a second, which pumps. lwIP's transmit
takes no lock: it looks at `open`, finds an idle slot and marks it, submits; the others
run in between. A session allocates its own transfers, so one that is still out
when the next begins shows.

### TuhEngine

Three levels: the controller's interrupt queues a completion (`Complete`), TinyUSB's
task hands it to its callback (`Deliver`), the interpreter does the rest with PendSV
held off. A call is the part up to its wait, what a wake-up finds (`Woken`,
`Relock`, `Resolve`, `CtrlResolve`) and the end. `Mount` and `Unmount` are TinyUSB's callbacks;
a device that goes orphans the pipes calls wait on (`Orphan`). `GenMod` bounds the
control generation by which a late answer is told from one's own.

### ByteRing, UvcFrame, IsoPackets

A push and a pop of `ByteRing` are two steps each, the read of the other's index
with the copy, and the publication; bytes are numbered. `UvcFrame`'s packets are
with payload or without, the end marked in them or not, an error or not; one of payload is its
frame's number and its own. The camera ends a frame in its last packet of payload or in a
header alone after it, and may send headers alone anywhere, after the end too
(`test_iso_stream.c:153` ends a frame so). A frame of which only headers came is counted nowhere:
the code looks at `seen` and `fill` before it counts (67, 73). A packet of payload that is lost leaves no
trace: a frame without it is published if its end is heard, and `UvcSafe` asks for the
order of what is there. A packet of less than two bytes is ignored, as a lost one is. The
ring holds records as `usbhost_stream_cb` writes them, and what it uses
is the records' packets (the length of their `FlattenSeq`) and a length for each.
`IsoPackets` has a queue and a pace. The queue (`Iq...`) chooses an endpoint and a tick
at the start, computes the number and length of transfers as `usbhost_iso_queue.h` does,
and lets the bus run for three ticks from any phase. The pace (`Pc...`) sends packets
from a ring that a source fills with an odd number of bytes.

### I2sChannel

`icCh` is what `_audioif.c` keeps of the channel: both handles, the halves held,
whether the capture is armed. An open with the other half running joins it at its
clock or is refused, as the code decides; `play()` closes and opens again in two
steps, with the pump's thread and the recorder in between.

### CaptureRing, StarveCount, RxRing

The interrupt of `CaptureRing` looks at `armed`, pushes its descriptor and leaves;
disarming takes the spinlock and the ring is freed after it. `CrOwed` is history: a drop not yet
told. `StarveCount` has both witnesses `starved()` adds up, the dry descriptors (`scDry`) and
the time the DMA stood still (`scHalted`). A step of the pump's thread or of the interpreter is
one access to one of the words they share with the interrupt: `play()` forgets in four
(`ScPlay` to `ScPends`), the pump marks in three (`ScLooks`, `ScMark`, `ScCounts`), a pause holds
in two and a resume in two. The interrupt is two callbacks (`ScSent`, `ScDry`); the interpreter, on
the interrupt's core, sees them as one, the pump, on the other, does not. The channel's opening
(`ScReopen`) is one step, since its interrupt is not enabled yet and the pump is joined.
Time is in descriptors, and a gap of g is charged g - 1 if g > 2, as the code does with
microseconds. `RxRing` writes whether anybody reads or not; poll and copy are
steps, and a copy remembers how many samples it was to copy from where.

### FileFeed

One call of `audiobusio_feed` is one step, from the node or from a poll. Frames are
numbered, silence is 0. `FfHalts` and `FfDrained` are `get_playing`'s end of a file.

### PumpPort

`ppAt` has the place of the pump and of the interpreter; the lock's owner and depth are
explicit, and `audiopump_wake` is one bit, as a notification, an auto-reset event and a
condition with a flag all are. A driver is chosen at the start. What the engine does is
external: it takes the lock for a block, waits for room, and paces itself.

### Wasapi

A stream is a speaker, a microphone read by the pump, or one that a thread reads into a
Ring. A write is its look at the padding, its copy and its count; the device plays or
captures between them. Frames are numbered.

### BtAudio

Positions are words (`BtWord` stands for 2^32) and a frame is its number. The data
callback writes and publishes in two steps, `btaudio_read` loads, copies and stores in
its own. In the link (`Bl...`) a callback is the list of stores it has yet to make, each under the
lock, and the program reads between them.

### Mdns, MdnsWindows

What the interpreter does with the lock is a step. The thread is at the top of its loop,
in `poll()`, or has woken to a timeout or a packet; a wake is a byte in the pipe. A
listener keeps what it was sent: `mdHeard`. In `MdnsWindows` every registration is a
block with what Windows owes it, and a call of the program is a list of steps between
which Windows calls back.

### RgbPanel, DsiPanel, PicoDvi, RgbMatrix

`RgbPanel` has a step wherever the scanout can come between two lines of a call; a
buffer is the colours of its cells. `DsiPanel` tells the construction a handle is of, so
that a stale one shows. `PicoDvi`'s DMA walks the words of an object's list, and
`pvMem` says whether that object is still held; the collector is an action. `RgbMatrix`
has the interrupt as one step, the rows, planes and buffers it latches as state, and a
heap of blocks with their roots.

### PanelBuses

In the buses that send at once (`Pb...`) a port is chosen at the start and the same `send()` goes over it: a list of
bytes written pin by pin, a transfer `esp_lcd` has queued, or a FIFO the PIO pulls from. The panel keeps
what it was clocked while selected (`pbSeen`); an object is its construction's number, so
that an old one can be told from the one the statics name. In the QSPI bus (`Qb...`) a call is the list of what
it has still to do (`qbDo`), and the panel is compared with what the calls said (`qbDue`).

### CameraBuffers

`cbLevel` is the stage `make_new` came to; `CbTear...` are the levels of its teardown.
The interrupt's two callbacks come in either order (`CbOrders`), at any moment.

### CameraTune

`ctAspect` is the one of three things a behaviour is about. `ctFlip` has the sensor's register
and the copies the code keeps of it; `CtGetFlip` answers as the kind of sensor does. The loop is
two steps, `CtLoop` and `CtWrites`, because the write to the sensor takes milliseconds and the ISP's
interrupt (`CtStat`) may come before it; `ctSince` counts the frames since. In `ctW` are
the program's matrix, gains and black, and what the ISP was given of them. `ctBlocks` names
the blocks a described sensor has on the C heap, which a parse that raises must give back.

### PpaPictures

`paAspect` is the one of three things a behaviour is about. In "shot" a call is the list of what
it has still to do (`paDo`), since frames arrive and cache lines are evicted between any two of
its steps; a buffer has its memory, its line in the cache and whether that is dirty, and what is in
either is a frame's age (the one claimed, a later one, or neither) and its form. `PaTakes` and its
like translate the calls, `PaInHardware` what `hw_srm` makes of them; `PaHow` says which of hardware
and software does it. The properties speak of what the program sees (`PaSees`) when a call has
returned. In "call" threads are in `ppa` without the interpreter's lock, a client being the one for
the `hardware` they asked (`PaModes`). In "fit" a state is one operation: `PaPixel`, `PaReads` and
`PaWrites` are compared with a picture scaled, turned by quarters and mirrored one after the
other (`PaTurned`), and `PaBlock` with what the hardware's sixteenths make of it.

### HlsSegments, HlsHandover, CastSession, CastAudio

`HlsSegments` has one step for an iteration of the task, which may cut a segment, and one
for each client's request, its progress and its departure. `HlsHandover` has a step for
each store of `offer()` and of the task's swap. `CastSession` is the interpreter's
calls against the places in the task's frame; an encode may outlast stop's second.
`CastAudio` counts time in blocks of 10 ms, keeps the ring's stamps and follows the
pacer's decisions: hold, chase, rejoin, settle.

## Runs, bounds and fairness

| Run | Properties | Shows |
|---|---|---|
| `host_task` | TaskSafe, CallsReturn | a session from start to stop with timeouts, unplugs, late completions and hangs; `TaskSafe` is the conjunction of what the library owns, whose an answer is, a clean deregistration and a fresh install |
| `host_xfer` | InFlightIsBusy, WokenByOwn, KeptBytesStay, CallsReturn | the pipes under reads, writes, polls, releases and unplugs |
| `host_stream` | RingIsHeld, StreamSlotsSpec, CallsReturn | the streams through opens, stops, unplugs nested in stops, and transfers that never retire |
| `tuh_engine` | EngineSafe, GoneEndsWait | the TinyUSB engine with a hub and a device that come and go |
| `safe_parts` | NoFalseAlarm, FifoSpec, BrInOrder, UvcSafe, IsoSafe, CrSafe, ScNoStartup, CameraSafe, HoNeverTorn, CsSafe, CaBeside, WsSafe, BluetoothSafe, MwSafe, PanelsSafe, PanelsEncode | the components with safety properties only, but for four, against what runs beside it |
| `live_parts` | FfSafe, FfPlayingEnds, MdSafe, MdEnds, PpSafe, PpStopEnds, SinkStaysClosed, GateSpec, CloseReturns, NetSafe, IcShared, RxKept, HsSentIsKept | the file feed, the mDNS responder, the pump's port and the playback gate, which also have to end; and four that only have to be safe: the network adapter, the I2S channel, the STM32's capture, the HLS segments |
| `event_ring_overflow` | OverflowNeverSilent | violated: a loss may go untold |
| `host_task_late` | AbandonedAreQueued | violated: a completed transfer may be abandoned |
| `host_xfer_gone` | StatusIsThere | violated: a status is read from a transfer that was freed |
| `camera_shared` | CbNeverShared | violated: the reader is given the buffer the DMA writes |
| `feed_tail` | FfWhole | violated: the end of a file may never be heard |
| `rgb_flip` | RpNeverOnScreen | violated: a flip given up is adopted, and the buffer on screen is painted |

`safe_parts` and `live_parts` are several models in one: the variable `part` names the
component a behaviour is of, chosen in its initial state, and only that component moves.
The components share no variable, so the states are the sum of theirs and not the
product, and what is found of the run is found of each. Fairness is stated for the
components of `live_parts` that have to end; four that only have to be safe are there so that
neither run is much the longer. A property named `...Safe` is the conjunction of its
component's invariants, each with a name and a comment of its own in the module; four
join components that serve one purpose (`IsoSafe`, `BluetoothSafe`, `CameraSafe`,
`PanelsSafe`). What the panels promise is two properties: `PanelsSafe` of their steps,
which is also proved, and `PanelsEncode` of how pixels, colours and bytes are coded.

Bounds:

- `PcmSink`: one interpreter thread and one native task are two producers,
  which is what a race for the try-lock needs. Three bytes of ring with
  requests of 1 and 3 and frames of 2 meet an exact fit, a partial one and a cut
  frame. `GenMod = 3` gives two generations, and `MaxOpens = 3` lets them come
  round, which the 32-bit word does after four billion opens.
- `EventRing`: three slots hold two records; five emits (`MaxEmits`) come past the
  ring's end and to it again; limits 0 and 2 are a drain that only asks for the overflow and
  one that takes several. `Word = 8` keeps `dropped` from wrapping within the run.
- `host_task`: two devices for one row of the device table meet a full table;
  two transfers meet an abandoned one beside a live one. Sessions are unbounded
  and the state space is finite.
- `host_xfer`: one IN and one OUT endpoint; pipes are independent but for the
  release that goes through them, and two meet a release with one busy and one
  idle. The device comes and goes for ever.
- `host_stream`: two slots for two endpoints, so that a loop over the slots has a
  second one to come to while the first one pumps; two transfers a stream, so
  that one may be back and one out; two addresses, so that a lingering slot of a
  device that went may or may not stand in the way of the next device's.
- `tuh_engine`: one device, a hub, one IN and one OUT endpoint, two pipes and three
  control generations (484,000 states) meet an abandoned transfer beside a live one.
- USB, in `safe_parts` and `live_parts`: `HostNet` with three sessions meets a transfer of the first
  still out in the third; `ByteRing`'s word is three times its size, the least it may
  be, and fourteen bytes wrap it; `UvcFrame` has frames of one and of three packets, too large, for which
  the ring has no room, or lost in part or whole; with three frames the first and the third have one ID, and without
  what `UvcTurns` says of the bus they run together; `IsoPackets` takes every interval a descriptor can name, both speeds, and the
  fastest and slowest tick of the ports, and eleven packets at three rates, 11025
  among them, which no period divides.
- Media, in both: bounds are per component and named in `MCSafeParts.cfg` and `MCLiveParts.cfg`. Rings are
  as short as a lap with a part of a lap needs (three frames against bursts of two;
  five samples with a margin of two); words wrap within the run (`CrWord = 8`,
  `HsWord = 16`, `BtWord`); `ScMax = 7` has room for two gaps of the DMA that are charged (`ScStill = 3`); counts of opens, plays, starts and takes are two or three, so that a second
  session meets what the first one left; `HsClients` are two for three slots: the
  segment just cut may be the only one to reuse.
- `safe_parts`, displays: a panel of one column and two rows has a cell in each bounce buffer and
  a rectangle that is not the whole; two constructions meet what the first one left in
  its statics; two matrices of one and two tiles, one address line and two bit planes
  give a row a neighbour and a plane a longer one; three bits with the byte of all ones, data
  longer than the PIO's FIFO of two, and two constructions, for the buses; three chunks of
  pixels for the two buffers of the QSPI bus.
- `safe_parts`, `CameraTune`: one camera of each kind of sensor with each Bayer order and every
  pair of flips; an exposure of 6 steps and a gain of 2, so that either comes to its end; a dark,
  a bright and a burnt-out measure, and one of zero, which the loop takes for one; gains past the
  ISP's limit, a black of 2 quarters that moves less than a step, one of 40 that saturates and one of 200, which
  `black_level()` clamps and a constructor takes. A sensor applies an exposure a frame later.
- `safe_parts`, `PpaPictures`: two frame buffers, one buffer of each other kind, lengths of 1 and 2
  for the kept ones (0 to 3 for the engine's), so that each is kept, outgrown and made again; each take() in three formats at
  the sensor's size, one that scales exactly and one that does not. Two threads with three calls
  of `ppa`. Four cameras' frames against every FrameSize and 90x90. Blocks of up to 3x3 pixels anywhere in
  4x4, in four pairs of formats, every turn and mirror. The P4's drivers drop their destination
  and write back their source (`PaSyncs`), as ESP-IDF's do. Numbers have no width: sizes are below
  2^31 in the code's words.
- `live_parts`: two service types for two slots, two names, one `find()`, three calls and
  one packet or signal beside them meet an announcement, a goodbye and a query in every
  order with a deinit; two starts of the pump's thread meet what the first one left.

Fairness is weak, and only on threads the code never blocks: a call that has
entered the gate runs on and `close()` keeps looking (`PcmSink`); the host task
goes from one bounded wait to the next and an interpreter's call returns from a
wait that was given a timeout (`HostTask`, `HostXfer`); TinyUSB's task delivers what is
queued and a woken call goes on (`TuhEngine`). Nobody is obliged to
call, to answer, to plug or to unplug, and the library is obliged to nothing:
`CallsReturn` holds with a device that never answers and, in `HostTask`, with a library
call that never comes back. In `HostStream` fairness is strong on each stop's steps:
the inner stop of a device that goes suspends the outer one, but both waits measure
time, so the outer one ends however often it was suspended. `FfPlayingEnds` is about a
program that polls, so `FileFeed`'s fairness is on polling and on the pump;
`MdFairness` is on the responder's thread (a `poll()` with a byte in the pipe comes back) and
on a deinit that was begun; `PpFairness` on the pump's thread, on a call of the interpreter
that was begun, and on a wait that was woken: `PpStopEnds` counts on no wait's ceiling. In
`TuhEngine` `FairSpec` has TinyUSB's task deliver and a woken call go on.

The passing configurations switch the check for deadlock off, since their bounds end a
behaviour: `opens` reaches its bound, a component has made its last call, or, in
`HostTask`, the host is wedged and only a reset helps. That nobody waits for ever is what
the liveness properties are for.

Every property of a passing run has a mutant in `PROJECT.json`: a plausible bug in one
mapped definition, kept in the module as an operator whose comment begins "Mutant:",
under which the same run finds the property violated.

## What is proved

Proofs are for every value of the constants, under the assumptions that the modules name and
TLC evaluates: finite disjoint sets of callers, clients or devices; natural bounds; words of
at least two values; rings of at least one slot, shorter than their words; endpoints that are
either IN or OUT; nobody, no name and no finder being a value of their own. Nothing is
assumed of how many callers, slots, bytes, endpoints or services there are. What an assumption
says of numbers, the code justifies:

- `BrAssumption`: the word is at least three times the byte ring's size.
  `usbhost_byte_ring.h:13-14` allows any size up to 2 GB, which is more than a third of
  a 32-bit word, but no ring the ports allocate comes near either.
- `CaAssumption`: a session's first stamp is later than the sound ring is long. The origin is
  90000 ticks, 100 blocks, and the ring has 64.
- `RxAssumption`: the margin is less than the ring, as `audioif_stm32.c` has it.
- `IqNeverDry` and `IsoKeepsItsPromises` are for ticks of 1 to 21 ms: beyond, the cap of twelve
  transfers may no longer cover three ticks. The ports' ticks are of 10 ms or less.
- `IcAssumption` and `RpAssumption` are of the model only: no handle is a wire, and a panel's
  sides are natural numbers.
- `RpPaintsOffScreen` is for `RpKeepsOld = FALSE`, a program that does not go on with a panel it
  has replaced (see "Stated and not run").
- `MwAssumption` has a number of slots, as the code's `MDNS_MAX_SERVICES` is one.
  `MwFreesNothingHeld` is for `MwLate`, `MwBreak` and `MwRefuses` false, the three in which the
  property fails (see "Stated and not run").
- `BluetoothKeepsStep` is for `BtMax < BtWord` and `BtSlow = FALSE`: at the word's end the places in the
  ring jump, and a slow callback writes a ring that was freed (see "Stated and not run").
- `UvcAssumption`: a frame has a packet of payload. That of the frame after a lost end something is heard is
  the model's (`UvcTurns`): only the frame's ID tells that an end was lost, and it has two values, so a whole
  frame lost behind a lost end leaves it as it was. `WsAssumption`: a period is no longer than Windows' buffer, and blocks are not empty.
  `FfAssumption`: counts of frames and blocks are natural numbers, and a ring's block has a frame.
- `DpAssumption`: a row, a cache line and the frame have at least a byte. `PvAssumption`: every stretch of a
  frame has lines, and the doubled lines divide the active ones, as `picodvi_rp2350.c`'s modes do.
  `RmAssumption`: address lines and planes, at least one of each (`mod_rgbmatrix.c` and `_PM_init` have
  no fewer), and a value that is no matrix. `PbAssumption`: bytes of at least two bits, and
  `QbAssumption`: the commands for pixels and for the end are none of the others.
- `PanelsKeepTheirHardware` is for each proviso under which "Stated and not run" has one of its parts
  violated: a program keeps and uses its newest display, matrix and bus (`RpKeepsOld`, `DpStale`, `RmOld`, `PbOld` false,
  `PvKeeps`, `RmKeeps` true) and draws through no view it kept (`RmViews`); the collector does not run
  inside `_PM_begin` (`RmGcNow`); the PIO's last byte is out when its FIFO is empty (`PbSlow`), no transfer
  outlasts its second (`PbLate`, `QbLate`) or fails (`QbErrs`), and no bus's constructor fails
  past its claim (`PbLeaky`). The DSI host's and the matrix's constructors may fail at every step.
- `CtAssumption`: an exposure range of two steps or more and a gain range, natural measures, integers for
  what a program sets, and matrices of nine integers. `CtKeepsThePicture` is for `CtPlain`, which
  excludes what "Stated and not run" has `CtColours`, `CtTowards` and `CtFresh` fail under: a table without
  a flip register, a write of the exposure or of the making that the sensor refuses, an exposure set by hand of
  a sensor that cannot be asked, and one that shows more than a frame after its write.
- `PaAssumption`: frames and sizes have pixels, and no frame is less than a pixel across in the shape
  of a size asked, since `cameraif_block` would take a block of none; sensors and `FrameSize`s are
  tens of pixels wide or more. `PaGivesTheFrame` is for `PaSynced`, a
  PPA driver that drops its destination from the cache, a PPA and an engine that refuse nothing that fits
  them, and a program that writes into no view; `PaThreadsOwn` is for `PaShares = FALSE`, no two threads in
  one client's scratch; `PaPlain` is both. They are what "Stated and not run" has `PaCurrent` and
  `PaOwn` fail without. Interrupts, evictions, the ratios, the driver that does or does not write back
  its source, and what each call before left in the buffers are not restricted.
- `PpKeepsTwoThreads` is for `PpEarlyStop = FALSE`, the pump having paced once before a stop
  (see "Stated and not run" for what happens otherwise); `PpLocksAndWakes` is for either.

| Theorem | Module | States |
|---|---|---|
| `TypeCorrect` | `PcmSink_proofs`, `HostStream_proofs`; of `EventRing` in `TwoSides_proofs`, of `HostXfer` in `NetPictures_proofs` | `Spec => []TypeOK` |
| `CallsFindTheRing` | `PcmSink_proofs` | `Spec => []RingOutlivesCalls` |
| `ProducersExclude` | `PcmSink_proofs` | `Spec => []OneProducer` |
| `ImplementsGate` | `PcmSink_proofs` | `Spec => GateSpec` |
| `RecordsAreWhole` | `TwoSides_proofs` | `Spec => []NoTornRecord` |
| `OverflowsAreReal` | `TwoSides_proofs` | `Spec => []NoFalseAlarm` |
| `ImplementsFifo` | `TwoSides_proofs` | `Spec => FifoSpec` |
| `PipesOutliveTransfers` | `NetPictures_proofs` | `Spec => []InFlightIsBusy` |
| `WakeupsAreOwn` | `NetPictures_proofs` | `Spec => []WokenByOwn` |
| `KeptBytesAreCollected` | `NetPictures_proofs` | `Spec => KeptBytesStay` |
| `InflightIsTrue` | `HostStream_proofs` | `Spec => []InflightIsHeld` |
| `RingsStayRooted` | `HostStream_proofs` | `Spec => []RingIsHeld` |
| `EndpointsAreSingle` | `HostStream_proofs` | `Spec => []OnePerEndpoint` |
| `ImplementsSlots` | `HostStream_proofs` | `Spec => StreamSlotsSpec` |
| `ByteRingTypeCorrect` | `SoundParts_proofs` | `BrSpec => []BrTypeOK`: no index and no sum of indices leaves its range |
| `ByteRingCounts` | `SoundParts_proofs` | `BrSpec => []BrCounts`: the words tell what is queued |
| `ByteRingInOrder` | `SoundParts_proofs` | `BrSpec => []BrInOrder` |
| `ByteRingApart` | `SoundParts_proofs` | `BrSpec => []BrApart`: a push and a pop under way touch no common byte |
| `HandoverIsOwned` | `TwoSides_proofs` | `HoSpec => []HoOwned`: flags, pointers and pictures agree |
| `HandoverNeverTears` | `TwoSides_proofs` | `HoSpec => []HoNeverTorn` |
| `HandoverShowsEach` | `TwoSides_proofs` | `HoSpec => HoEachShown`: every frame taken is encoded next, none twice |
| `HostTaskSafe` | `HostTask_proofs` | `Spec => []TaskSafe`: deregistration is clean, a start is fresh, no live transfer is freed, an answer is the caller's own |
| `TuhEngineSafe` | `TuhEngine_proofs` | `Spec => []EngineSafe`: pipes, claims, buffers and waits stay with whoever has them |
| `IqNeverDry` | `SoundParts_proofs` | `IqSpec => []NeverDry`, for ticks of up to 21 ms |
| `PaceKeepsRate` | `SoundParts_proofs` | `PcSpec => []PaceSafe` |
| `IsoKeepsItsPromises` | `SoundParts_proofs` | `IqSpec /\ PcSpec => []IsoSafe`, both of the above |
| `CrKeepsOrder` | `SoundParts_proofs` | `CrSpec => []CrSafe`: what is recorded is in order, and drops are told |
| `RxKeepsRecording` | `SoundParts_proofs` | `RxSpec => RxKept`: a recording is whole, counted, and ends by its owner |
| `ScCountsNoStartup` | `SoundParts_proofs` | `ScSpec => []ScNoStartup`: what `starved()` reads is within the time since the first write and the gap that landed in |
| `PpLocksAndWakes` | `SoundParts_proofs` | `PpSpec => [](PpExclusive /\ PpNoLostWake)` |
| `PpKeepsTwoThreads` | `SoundParts_proofs` | `PpSpec => []PpSafe`, where no stop comes before the first pace |
| `CaStaysBeside` | `SoundParts_proofs` | `CaSpec => []CaBeside` |
| `CaGoesOn` | `SoundParts_proofs` | `CaSpec => CaInOrder` |
| `HsKeepsSent` | `TwoSides_proofs` | `HsSpec => []HsSentIsKept` |
| `CsMarksReachThePicture` | `NetPictures_proofs` | `CsSpec => []CsSafe` |
| `NetKeepsTransfers` | `NetPictures_proofs` | `NetSpec => []NetSafe` |
| `MdTellsWhatThereIs` | `NetPictures_proofs` | `MdSpec => []MdSafe` |
| `SinksStayClosed` | `PcmSink_proofs` | `Spec => []SinkStaysClosed` |
| `IcSharesThePort` | `SoundParts_proofs` | `IcSpec => IcShared`: one clock, and neither half is the other's to take |
| `RpPaintsOffScreen` | `PanelParts_proofs` | `RpSpec => []RpSafe`, for a program that keeps no replaced panel |
| `DpKeepsTheHost` | `PanelParts_proofs` | `DpSpec => []DpSafe`, where no display is used whose bus is gone |
| `PvReadsWhatIsThere` | `PanelParts_proofs` | `PvSpec => []PvSafe`, where the object that shows is kept |
| `RmKeepsTheMatrix` | `PanelParts_proofs` | `RmSpec => []RmSafe`, where the newest matrix is kept and used, and not through an old view |
| `QbTellsInOrder` | `PanelParts_proofs` | `QbSpec => []QbSafe`, where no transfer fails or outlasts its second |
| `PanelsKeepTheirHardware` | `PanelParts_proofs` | `RpSpec /\ DpSpec /\ PvSpec /\ RmSpec /\ PbSpec /\ QbSpec => []PanelsSafe`, under the provisos of each |
| `CbKeepsApart` | `NetPictures_proofs` | `CbSpec => []CbSafe`, the buffers' part of `CameraSafe` |
| `CtKeepsThePicture` | `NetPictures_proofs` | `CtSpec => []CtSafe`, the picture's part of `CameraSafe`, under `CtPlain` |
| `PaPixelsFit` | `NetPictures_proofs` | `PaSpec => [](PaFits /\ PaTaken /\ PaMapped)`: a block is in its frame, a buffer fits, software writes the picture's pixels, for any frame and size |
| `PaThreadsOwn` | `NetPictures_proofs` | `PaSpec => [](PaOwn /\ PaTold)`, where no two threads share a client's scratch |
| `PaGivesTheFrame` | `NetPictures_proofs` | `PaSpec => []PaCurrent`, under `PaSynced` |
| `PaKeepsThePicture` | `NetPictures_proofs` | `PaSpec => []PaSafe`, the three above, under `PaPlain` |
| `CameraKeepsItsPromises` | `NetPictures_proofs` | `CbSpec /\ CtSpec /\ PaSpec => []CameraSafe`, under `CtPlain` and `PaPlain` |
| `MwFreesNothingHeld` | `NetPictures_proofs` | `MwSpec => []MwSafe`, where Windows answers `publish()` in time, takes a changed name, and Ctrl-C waits for a name change |
| `UvcFramesAreWhole` | `SoundParts_proofs` | `UvcSpec => []UvcSafe`: a record is of one frame in order, ended and unmarked; each frame of which payload came is counted once |
| `WsKeepsItsPromises` | `SoundParts_proofs` | `WsSpec => []WsSafe` |
| `FfFeedsInOrder` | `SoundParts_proofs` | `FfSpec => []FfSafe`: a file in order, and a block of silence at the most |
| `BluetoothKeepsStep` | `TwoSides_proofs` | `BtSpec /\ BlSpec => []BluetoothSafe`, for streams shorter than the word and callbacks that end before the ring is freed |

- `PcmSink`. None of the invariants is inductive: what keeps a call's ring alive
  is that `users` is the number of counted calls (`Cardinality` of the callers
  between their increment and their decrement), that `live` is zero unless the
  stream is open and equals `last_gen` then, and that a call inside entered under
  `last_gen`. With those, `CloseDone` (users = 0) implies that nobody is inside,
  and nothing after it can touch the ring. `OneProducer` needs that `busy` is set
  exactly while somebody holds the try-lock and that nobody but the holder
  lets `fill` grow. The refinement maps `opening` to the abstract `closed`, since
  nothing can enter before `live` is published.
- `EventRing`. The inductive invariant says which slots hold a record (those from
  `tail` to `head`), that the consumer past its look has one, that the producer
  past its look has room, and that what the consumer copied is the slot at `tail`
  still. `NoFalseAlarm` counts the losses no drain has accounted for against what
  `dropped`, the producer's load and the consumer's load can still make of them.
  The refinement maps the slots from `tail` to `head` to the abstract queue; its
  lemmas say what a store at `head`, an advance of `head` and one of `tail` do to
  that sequence.
- `HostXfer`. The invariants strengthen each other; two facts complete them. A
  pipe a call waits on is not kept (a kept read is taken over by the call that
  collects it), and a queued transfer's buffer holds no bytes yet (it was emptied when
  it was submitted).
- `HostStream`. A free slot is closed and counts nothing, so an open starts from
  nothing held; the slot a stop waits for stays closed, since no open can run before
  the lock is let go, so what the stop frees was draining; and the interpreter's
  stop belongs to a call that is not an open, so a ring on its way to its root is not
  forgotten. The refinement maps `used` and `open` to free, running and draining, and
  what is queued or back to what is held; the second freeing of a slot by the outer of two
  stops is a stutter.
- `ByteRing`. The arithmetic of the double lap comes first, as lemmas about the index
  after an advance and the span between two indices; then what a side was told of
  the other's index stays a bound while the other runs, and the bytes from the tail are
  the stream's, byte by byte.
- `HlsHandover`. The invariant says, for each place of either side, which of the two
  flags is set and which buffer is whose; both cores' steps keep it.

- `HostTask` (`HtInv`). `TaskSafe` rests on where the task and the one caller can be at the
  same time (`HtPlaces`): a start makes a task only where there is none, and a stop waits for
  it. A device is open only from the loop to the close loop of the teardown (`HtOpen`), so
  none is when the client deregisters. A call that waits has its own transfer in `cur`, allocated and not among those given up,
  which are counted (`HtCall`), so an answer is never another's; and a task that ends
  unwedged leaves no transfer, row or client (`HtLeft`), which is what the next start finds.
- `TuhEngine` (`TeInv`). A busy pipe has exactly one transfer of TinyUSB's and an idle one
  none; a waiting call has its pipe, marked with its wait, and no other pipe is (`TeCall`,
  `TeApart`); at most one control transfer is on its way, and while the controller has it
  `ctrl` is busy or stale (`TeCtrl`); a mounted device is listed, and a stopped host has no
  transfer, event or call left (`TeListed`). Generations go round, and
  two are enough: the proof needs only that the next one differs.
- `IsoPackets`. `IqInv` bounds what is queued from below by what two ticks take, for a
  quotient rounded up: `num * pkts * interval * slot >= 3 * tick`, with the cap of twelve and
  the least of three by cases. `PcInv` has what is carried as the rest of (packets sent times
  rate times period) by a second, so what was sent is the quotient: no drift, exactly.
- `CaptureRing` (`CrInv`). The slots from the reader's position on hold numbers that rise to
  the interrupt's clock, one by one as long as nothing was dropped; a push in hand has room
  behind them; a pull in hand is of the first of them; and a drop that was not told of is
  owed. Counts are words that wrap: their difference is the number of unread frames because
  the ring is shorter than the word.
- `RxRing` (`RxInv`). Tail, head and the DMA's position are in this order within a lap, so that
  the distance modulo the ring is the true one (`ModDistance`); a pull's samples are clear
  of the DMA by the margin; and what the tail passed the reader by was counted.
- `StarveCount` (`ScInv`). Counting, or about to begin it, is behind a write (`ScBehind`). What the two witnesses have
  charged, with the gap that is open and the descriptor known to be dry but not yet counted, fits the time
  since that write and the gap it landed in (`ScWithin`): a gap of g is charged g - 1 at most, the dry descriptor at its end 1,
  and g has passed. While `play()` forgets word by word, nothing counts and what is cleared stays so (`ScForgets`).
- `PumpPort` (`PpInv`). One thread builds the lock (`PpOneBuilds`); who holds it, and how
  deep, follows from where each thread is (`PpOneHolds`); a wait that nothing asks for any
  more has its wake set or the waker on its way (`PpWoken`). With `PpTimerIsPumps` for the
  timer.
- `CastAudio` (`CaInv`). Each slot from tail to head holds the block of its number with its
  stamp (`CaHolds`); the slot being filled is none of them, since two numbers less than a lap
  apart share no slot; the track is past the last packet and past zero.
- `HlsSegments` (`HsInv`). `HsSentIsKept` is inductive with the types and with
  a client's having a slot exactly while it is sent one; a slot's count is the cardinality of
  its clients, through every arrival, departure and cut.
- `CastSession` (`CsInv`): a marked picture not yet sent is owed by the flag, by a failed
  frame, or by the task on its way from the one to the other (`CsMarkIsOwed`).
- `HostNet` (`NetInv`): where lwIP, the interpreter and an unplug can be at the same time
  (`NetOrder`); a mark is the library's transfer or a transmit's on its way (`NetMarked`,
  `NetTxOwn`).
- `Mdns` (`MdInv`): a type is advertised in one slot only (`MdOneEach`), so that a goodbye
  for one service takes nothing of another; a service has a thread to announce it, and a
  call that stops the responder took the Server down first (`MdPlaces`); what was announced
  is what the listener knows (`MdToldAll`).

- `PcmSink`, for `SinkStaysClosed` (`SinkInv`). Generations skip 0, so a full turn is
  `GenMod - 1` opens. Inductive is that the latest generation and the count of streams opened
  differ by whole turns, and so do a caller's generation and the stream it was read from: where
  the two generations are equal the two counts are too, or are a turn apart (`WholeTurns`).
- `I2sChannel` (`IcInv`). The operations on the channel are shown one by one to keep `IcOk`,
  what a channel may be between two calls: what is held is open, what nobody holds is closed,
  a ring is there while a recorder holds it, and two halves that are not apart are one wire,
  of two slots. The same lemmas say that each leaves the other half as it was, a failure
  at any point included. `IcAgrees` then has `IcSafe`.
- `RgbPanel` (`RpInv`). One object lives and has the host's panel (`RpOneLives`); a call past
  its first step has finished the flip that was pending (`RpCalls`); and a flip that is pending is to the
  buffer that was painted, which the screen has once a frame was counted, while without one the screen
  has the other buffer and takes no other (`RpFlips`). `RpAgree` is inductive with
  these: a flip copies what is dirty before it forgets it.
- `DsiPanel` (`DpInv`). The mirror is what ESP-IDF has; ESP-IDF's bus is the newest Bus object's,
  and a frame buffer is of one construction with its panel (`DpWhole`), so that whoever gives up
  the newest gives up what is there. Each way a step fails gives back what
  the steps before it took: the lemmas are about a state and what was given up from it (`DpWithout`),
  and the actions cite them.
- `PicoDvi` (`PvInv`). What runs is the active object's list, at the start of one of its commands
  (`PvRuns`): the words of a list are counted line by line, so that a command's end is the next one's
  start, inside what was allocated. An object with its memory is one somebody holds or the one that
  is active (`PvLives`); past the interrupt's disabling nothing starts it again (`PvStops`).
- `RgbMatrix` (`RmInv`). What the core is while the timer runs and while not (`RmCoreUp`,
  `RmCoreDown`), at each place of a construction, a refresh and an end (`RmPlaces`): its blocks are in the heap,
  and of an object that is held. `RmShown` has what the interrupt will latch: the row that was shifted in is
  the one the counters left, and the address lines carry the remembered row; `RmBuffers`,
  that the buffer on show is whole when there are two, and is the one that was drawn once the swap is done.
- `PanelBuses`. `PbInv`: what the panel has taken, followed by what is on its way or
  still to be put, is what the call says (`PbAddsUp`, with `PbLeft` for each place of a call), and
  what is claimed is what the statics name (`PbClaims`). `QbInv`: what the panel is still due is
  what is queued and then what the call has yet to say (`QbDueIs`); at most one transfer is queued,
  from the buffer that is not filled next (`QbQueued`), and `QbCounts` is inductive with these. Bytes are told apart only by equality, so sequences are compared as
  concatenations, and nothing is counted bit by bit.
- `MdnsWindows` (`MwInv`). A call of the program is a list of steps between which Windows
  calls back. `MwPlan` says what may be left of it: the last of `advertise()`'s five steps, the steps
  of a name change for one slot and the slots after it, or those of `deinit()`; and
  with each what its registrations are at that step, while all others in a slot are settled: held,
  under their own request, and owed nothing. So what a withdrawal frees is in no slot, and Windows
  owes it a call only while it is not done (`MwOwes`). `MwOneEach` needs that no two
  slots have one service (`MwApart`). For `find()` the count is inductive with the types.
- `BtAudio`. `BtInv` has the frames between the two positions in their places (`BtSits`), room behind
  them for the packet in hand (`BtArrives`), and what the reader has loaded bounded by what both
  positions are now; what it copied is in order and newer than the last change of stream. `BlInv` says what the
  stores a callback has left still owe: the mark of each property they set (`BlWillTell`), a
  scan mode that is the opposite of the connection (`BlWillHide`), and what will move the slider
  to the volume there is, a registration, an answer or `set_volume()`'s own telling
  (`BlWillFollow`).
- `UvcFrame` (`UvcInv`). A record is of one frame, whose end was heard and which is unmarked (`UvcRecords`). The
  assembler is between two frames, with nothing staged (`UvcBetween`), or inside one (`UvcInside`), which the camera still
  sends or has followed by one of which nothing was heard, so that a changed ID is another frame's and the same ID
  is not. An error is in the frame's mark until it ends, whichever came first, header or payload (`UvcMarked`). What
  is staged fits behind what is used (`UvcRoom`), however much of it the program reads meanwhile.
  `UvcUsed` is a sum over the records: its lemmas say what an `Append` and a `Tail` make of the length of a `FlattenSeq`.
- `Wasapi` (`WsInv`). The two ends are proved apart, since a stream never changes kind. For the speaker
  (`WsSpeakerInv`), what is queued is the last frames written with silence only before a block, and a
  block that is half written ends the queue. For the microphone (`WsMicrophoneInv`), the frames read,
  waiting, queued and lost add up, and those waiting are older than those queued. Both have who may use
  the stream at each place of a thread (`WsUsed`).
- `FileFeed` (`FfInv`). While there is a ring, what the ring's blocks, the block in hand and the rest of the
  source are end to end is a run of the file followed by silence, which with the silence heard is no
  longer than a block and is there only once the file has ended (`FfPromise`); and the next frame to read is the
  one after its last. The order of blocks is `FlattenSeq`, whose lemmas say what it makes of a block added
  and one taken. Without a ring nothing is left (`FfForgot`).
- What `FlattenSeq` computes is not shown by induction over sequences but by the least length at which
  two of their values would differ: the library's well-founded order gives a least, and the step to it is
  a single unfolding.
- `CameraTune` (`CtInv`). `CtOrient`: the copies of the flips are the register of a sensor that cannot be
  asked, and the ISP's order is the declared one seen from the ends the register says; each order turned
  either way being one of the four, `CHOOSE` has one to find. `CtExpose`: what the loop takes for the
  exposure in force is what the sensor has (`CtKnows`); the frames it still skips cover those the sensor needs
  (`CtSettles`); and a write that was decided on is aimed the right way from what is in force (`CtAim`),
  since a quotient by a larger measure is no larger (`CtRatioToward`). `CtBalance`: the
  ISP takes each matrix because clamped products are in its range, and a curve within its step of the
  black is left. `CtLife`: the blocks on the heap are those of the camera that is open.
- `CameraBuffers` (`CbInv`): what a frame is read from is what is held, and the DMA writes only
  while the driver streams.
- `PpaPictures`, a frame's sizes (`PaFitInv`): the operation looked at is none, one that passed `PaCheck`,
  or a frame's for `take()`. A block's sides are 16 times the size asked over a whole number of
  sixteenths, which is what makes the hardware's scale exact and keeps the block in its frame; and a pixel of
  the turned picture is followed back through each quarter and mirror.
- `PpaPictures`, threads (`PaCallInv`): what a thread and its client have at each place of a call
  (`PaRight`), and that of two threads in one client neither is told it is alone and one at most uses the
  scratch (`PaApart`).
- `PpaPictures`, a call for a frame (`PaShotInv`). A call is the list of what it has still to do, so the
  invariant is about lists: `PaPlace` has where the frame is (in memory, or as the CPU sees it), where the
  picture made of it is (in memory, or in the cache before it), and that what is left to do is right from there.
  `PaFromClaim` to `PaFromMem` say what "right from there" is, backwards from what is given. That each of
  the calls' plans is right from nothing (`PaPlansAre`) is put together from lemmas on lists of
  steps one after the other (`PaCat`); that a step, a frame's arrival and an eviction keep `PaPlace`, from
  one on each. No frame buffer is ever dirty, which is why what an interrupt writes stays; what
  another buffer holds from an earlier call is never looked at before it is written.

Every safety property that a run checks is so proved, but for `PanelsEncode`. It is out
of TLAPS's reach, whose sums and powers of two go over the bits of a number and the
rows of a scan, by recursive functions of more than one argument; and so are the liveness properties (`CloseReturns`, `CallsReturn`,
`GoneEndsWait`, `FfPlayingEnds`, `MdEnds`, `PpStopEnds`), as ENABLED is.

## Where the code and its documentation differ

1. **A loss may go untold** (`event_ring_overflow`). `take_dropped` reads
   `dropped` and then clears it; an event turned away in between is wiped with
   what was read. `usbhost_ringbuf.h:26` says "Overflow is recorded, never
   silent". It never cries wolf, though: `NoFalseAlarm` holds.
2. **A completed transfer may be abandoned** (`host_task_late`). A control
   transfer completes after the wait timed out and before the lock is taken
   again; `usbhost_xfer_ctrl` abandons it all the same, and nothing ever frees
   it, so the next stop finds `abandoned > 0` and wedges the host.
3. **A status is read from a transfer that was freed** (`host_xfer_gone`). The
   device goes while a call waits: `usbhost_xfer_drop_pipes` frees the transfer
   and the semaphore, and the call that wakes up reads them.
4. **The reader is given the buffer the DMA writes** (`camera_shared`). With
   nothing held, the interrupt that ends a frame hands out buffer 0 again; the
   claim comes after the task has woken.
5. **The end of a file may never be heard** (`feed_tail`). `feed_done` is set with the
   source's last block, and a last block that is longer than the room in the ring
   block at hand is cut there.
6. **The buffer on screen is painted** (`rgb_flip`). A flip the scanout did not come to in a tenth of
   a second is given up, and the next call adopts it although it is not known to be on
   screen; `mod_dotclockframebuffer.c`'s `settle()` says calls "never paint the buffer on
   screen".

## Stated and not run

Some properties are stated in the modules and not among the runs: each is about
something the code's documents say or a reader would expect, the model violates it, and
it is told here so that its definition is not taken for a result.

- `StartedHostRuns` (`HostTask`): after a failed start the task publishes its
  verdict before it clears its handle; a second `host_start()` in between finds a handle
  and returns success, and there is no host (`usbhost_host.c:212-214` says this is
  not done).
- `TransferIsCached` (`HostXfer`): when a longer transfer cannot be allocated, the
  shorter one has been freed already and the next call on the pipe reads through NULL. `host_xfer`'s
  properties hold across it because they speak of the flags; the model does not go on past
  the dereference (`Ready`).
- `ClearHasDevice` (`HostStream`): a stream's stop reads `gone`, waits by pumping, and
  clears the endpoint on a device the pump may have closed.
- `ScFromTheWrite` (`StarveCount`), without the gap of `ScNoStartup`: "Counting is off until the pump's first
  write" (`_audioif.c:969`), but the time of the last descriptor goes on before it. The DMA stands still for three
  descriptors, the pump writes and sets the word, and the next descriptor charges the whole gap (1139-1144).
- `ScAskedFor` (`StarveCount`): "Silence that was asked for is not starvation. A stopped output and a paused one
  both leave the channel clocking zeros on purpose" (`_audioif.c:3029-3030`). stop() leaves the word set, and the count
  grows until the next `play()`; and a pause that stores between the pump's two stores has it set again.
- `HsNewestListed` (`HlsSegments`): with more than one listed segment, six slow clients
  and the open segment use up the eight slots and the playlist gets a hole.
  `HsDurationTrue`: a segment's duration across a restart of the timestamps.
- `CsPinned` (`CastSession`): stop() gives up after a second, and close() frees the encoder
  and the framebuffer's pin though the task may still be encoding. `CsRateLands`: a second
  `set_bitrate()` between the task's read and its clear is lost.
- `CaForward` (`CastAudio`): a feeder that keeps the ring full has the track up to 63 blocks
  ahead of the stamps, which after three seconds is the reference (`mod_castif.c:208`); a
  pause of more than 100 ms that the ring outlasts then sets the track back (201-205) by that
  lead less the pause, so that the same time comes twice, where a comment has "a gap, then
  audio beside its picture again" (199-200). `CaInOrder`, which is proved, says what holds all
  the same: timestamps go forward unless the feeder led by more than a rejoin (`CaLed`).
- `MdToldAlways` (`Mdns`): when the records no longer fit `PKT_MAX`, nothing is announced
  and no goodbye is sent (`mdns_posix.c:9-10` says a listener is told). `MdAddsOnlyThere`: when
  `ask()`'s allocation fails (937-941), records gathered are not those asked for.
  `MdGathers`: with two finders, the second takes the first one's collector.
- `PpOneWaits` (`PumpPort`, with `PpEarlyStop`): a stop before the pump has paced once leaves
  two threads one timer (`_audioif.c:425-440`; the comment at 397-407 rules this out).
- `BtHoldsStream` (`BtAudio`) past 2^32 frames, 27 hours at 44.1 kHz: the positions wrap at a
  number the ring's size does not divide (`btaudio.c:41-42`). `BtFreedUnused` with
  `BtSlow`: stop() frees the ring 50 ms after it asks the callbacks to stay away (503).
- `BlStartAgain` (`BtAudio`): a start that failed after Bluedroid was set up cannot be
  repeated (477-487).
- `MwFreedUnused` (`MdnsWindows`) with a registration later than five seconds (`MwLate`), or
  with Ctrl-C in a name change (`MwBreak`), or a name Windows refuses (`MwRefuses`,
  `mdns_windows.c:212-217`).
- `RpNoLeak` (`RgbPanel`) and calls of a replaced object (`RpKeepsOld`); `DpSafe` with `DpStale`, a
  display used after what it was built on was replaced; `PvNoLeak` (`PicoDvi`), a channel
  lost by each construction that finds only one free, and `PvSafe` without `PvKeeps`, an object
  dropped while the DMA reads its list.
- `RmReadsHeld` (`RgbMatrix`) without `RmKeeps`: the core is static and its `m_malloc`ed
  blocks are nobody's root, so that dropping the matrix lets the collector free what the
  interrupt reads; and with `RmGcNow`, a collection within `_PM_begin` frees what
  `_PM_init` allocated. With `RmOld`, an older matrix's calls after a newer one was made
  violate `RmServed` (a constructor that failed leaves `doubleBuffer` set and no timer),
  `RmFreesOnce` (`core.c:478-491`) and `RmReadsOwn` (the conversion goes by the newest
  matrix's rows; `tools/test_rgbmatrix_smoke.py:41-57` makes this very sequence). `RmScansLatest`
  with `RmViews`: the scan without Protomatter swaps buffers under a memoryview that was
  kept (`mod_rgbmatrix.c:461-487`). `RmSamePicture`: that scan mirrors every odd line of a
  serpentine matrix, Protomatter every odd tile.

- `PbSaid` (`PanelBuses`) with `PbFirstOnes`: `gpio_bitbang.c:129` takes the pins to hold
  0xFF when a write begins, so that a first byte of 0xFF clocks whatever the last write left; with
  `PbSlow`: `wait_tx_done` of the RP2 (135-139) is content with an empty FIFO, though a
  byte is still being clocked when D/C or CS moves; with `PbLate`: a transfer that ends
  after its second leaves `s_color_done` given, and the next send returns before its own is out
  (the comment at 49-53 of the ESP32's is about this). `PbHeld` with `PbLeaky`: a constructor that fails
  past `esp_lcd_new_i80_bus`, or on the RP2 past its state machine, claims what nothing gives back. `PbBacked`
  with `PbOld`: an older object's `deinit()` takes the newer one's peripheral. `PbDeselected`: a
  send that raises leaves the panel selected.
- `QbFree` (`PanelBuses`) with `QbErrs`: an error in `send()` leaves `in_transaction` set, and the
  next `send()` waits for ever. `QbCounts` with `QbLate`: a transfer that outlasts its second is
  not counted back.
- `CtColours` (`CameraTune`) of a described sensor without a flip register ("bare"): `flip()`
  succeeds, the sensor stays as it is, and `follow_bayer` turns the ISP's order; and with a
  constructor whose `flip=` the sensor refused, which is not looked at. `CtTowards` when a write of the
  exposure failed, or after an OV5647's exposure was set by hand: what the loop takes for the
  exposure in force is its own last one. `CtFresh` with `CtDelay = 2`, a
  statistic between the loop's clear and its write being counted as one of the two it skips
  (the comment at `ae_step` has "a frame or two later"). `CtFlipsTold` of a table after a write
  that failed, and `CtRestKept` when the read did: `table_apply_orientation` does not look at it.
- `PaCurrent` (`PpaPictures`) where the PPA refuses an operation that fits it (`PaFails` has "ppa": no
  memory for its scratch, or for `capture_scaled` a `dst` that is not a whole number of 64-byte lines): software
  reads a frame whose stale lines were not dropped, since the calls drop them only for "an inexact
  ratio" (`mod_cameraif.c:2335-2337`), and leaves the screen's picture in the cache; where the
  engine refuses ("engine"), software encodes such a frame. With a PPA driver that does not
  drop its destination, `yuy2_buf` and the scratch, which are never written back once they are
  zeroed, as `take_buf` is, land on the picture. With `PaEdits`: `frame()`'s view is writable, and a line
  the program wrote lands on a later frame. `PaOwn` with `PaShares`: two threads in one client share
  its scratch (`ppa_hw.c:154-180`). `PaOneClient`: both register the client's hardware, and
  the first handle is lost (115-123). `PaYuy2Taken`: `yuy2_len` is not rounded up as the buffer is (1597-1598), so that 90x90
  goes to software where the comment at 1559-1566 has the PPA do it.

Beside the properties, read while modelling: on the RP2 `pio_claim_unused_sm(pio, true)` panics
where the code behind it raises OSError; the statics of the buses are not roots, and their objects
have no finaliser; nine-bit SPI without a chip select leaves the next frame misaligned; `soft_reset.c:77-78` says teardowns must not
`m_free`, and `rgbmatrix_host_teardown` does, through `_PM_deallocate`; the attribute handlers
of `picodvi` and `rgbmatrix` do not set the sentinel that lets a lookup go on to the type's
methods (`mod_picodvi.c:85-100`, `mod_rgbmatrix.c:512-526`; `mod_mipidsi.c:597` says why one must);
a block longer than WASAPI's fifo is cut without a count (`audioif_wasapi.c:469-471`); a camera's
`gain=` is ignored where the sensor has only an analogue gain, which `gain()` takes
(`mod_cameraif.c:1355` and 1887-1894); the comment at 2085-2087 has `bayer()` as the camera was opened, and
`follow_bayer` changes it; `ccm()` that raises half way leaves half of a matrix in force (2131-2147).

The modules' type invariants, and `RingOutlivesCalls`, `OneProducer`, `NoTornRecord`,
`InflightIsHeld`, `OnePerEndpoint`, `HoOwned`, `HoEachShown`, `BrCounts`, `BrApart` and `CaInOrder` are proved
and so not run as well.

## What is not modelled

- **Weak memory.** `PcmSink`'s words are sequentially consistent in the code;
  `EventRing`'s and the media modules' are volatile or plain, and the models take them in
  program order.
- **Undelivered detail of the libraries.** Which transfers complete with which
  status, split transactions and power, what a driver does inside a call: external.
- **Sizes and tables at their limit**: the pipe and claim tables are as large
  as needed in `HostXfer`; the device table's limit is in `HostTask`.
- **Diagnostics**: statistics, logs, `host_port_cycle`, `host_snapshot`.
- **Device-role hand-over** (`USBHOST_HOST_TAKES_DEVICE`), class filters, FIFO
  sizing, full-speed hold: configuration with no state the properties tell apart.
- **Several devices at once** in `HostXfer` and `HostStream`; the teardown's own
  `usbhost_stream_close_all`, which repeats `CloseAll` from the host task.
- **Pure loops over bytes**: descriptors, downmix, the audio interval, sample formats,
  RTP, RTSP, HTTP and TS bytes.
- **Back ends of `audioif`** other than the ESP32's, WASAPI and the Giga's capture
  (ALSA, the browser's), mixers and effects.
- **`displayif`**'s other ports, and the RP2040's DVI, whose scanout is libdvi's, a submodule
  that is not here; how its buses set up clocks, pins and the DMA's channels.
- **`mdns`** on the ESP32 and lwIP, which forward to their SDK's library.
- **`ppa`'s colours and `jpegio`'s decoder**: arithmetic over pixels and coded bytes.
- **`tsmux`**, the other **codecs** and engines, **wasmbridge**, the **build driver**: sequential code
  over bytes or files, or the binding of an engine that keeps the state.
- Repetition by polling against a Python source that never yields a frame: a looped
  source of empty blocks keeps `audiobusio_feed` in its inner loop.

## Plan

1. `HostStream` with `PcmGate`: the OUT half's gate opened and closed by the same steps, and
   several devices at once, whose departures nest more deeply.
2. The remaining ports of `displayif`.
