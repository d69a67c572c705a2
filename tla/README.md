# Verification of the Android Auto head unit and the ALinQ accessory host

TLA+ modules, TLC runs and TLAPS proofs about the code of this repository. Line
numbers in the modules and in this file refer to the sources below `src/`.

## 1. Inventory

The repository builds three programs out of a set of C and C++ files: the
Android Auto head unit (`main_auto.cpp`), the AOAP media service
(`services/aoap_service`), and interactive test tools for the ALinQ accessory
protocol.

| Component | State it keeps | Operations | Hard behaviour |
|---|---|---|---|
| Android Auto session, `hu_aap.c` | `iaap_state`, `transport_type`, receive buffer `rx_buf` (also `dec_buf`), `assy`/`assy_size`, latches `mic_change_status`, `out_state_*` | start, stop, encrypted send, receive loop, table of message handlers | a dozen error paths that must keep two states in step; packets across reads; fragments across messages; handlers that send while the receive loop is running |
| USB transport, `hu_usb.c` | `iusb_state`, device handle, libusb context | start with retries, switch of the phone to accessory mode, bulk transfers, stop | the phone leaves the bus and comes back while a start retries; a fatal transfer error closes the device inside the transfer |
| TLS, `hu_ssl.c` | global SSL object and BIOs | handshake carried in AAP messages | the object outlives the session; the end of the handshake is forced |
| Media rings, `hu_uti.c` 1131-1385 | head, tail, 16 slots each for audio and video | get a slot to write, get a slot to read | wrap, full, empty |
| Command call, `hu.c` | none of its own | `jni_aa_cmd`: start, send, Byebye, poll, then at most one result | result codes share a channel with lengths; latches reset when read; a poll that does not receive |
| Application, `AndroidAuto.cpp`, `main_auto.cpp` | codec, audio track, `gMicOn`, display thread | init, tick, exit | two threads on one codec; the result of the start is ignored |
| Microphone, `AndroidAutoMic.cpp` | `gAudioBuff`, `gAudioDataSize` | capture thread, `MIC_getData` | two threads and one plain `int` |
| Touch, `AndroidAutoTouch.cpp` | `event`: old and new button, x, y, whether a report is due | `TOUCH_getAction`: one kernel event, at most one message | one event per call, reports in pieces, dropped events |
| ALinQ commands, `android_commands.c` | command buffer, `CmdMutex` | twelve calls, most with a reply | several threads, reply timeouts shorter than the phone's worst answer |
| ALinQ browser, `android_browser.c` | current node, counts | select, list, level up | counts of a selection that failed |
| AOAP service with the HID pipe, `AOAPService.cpp`, `AOAPMediaControl.cpp`, `usbhost_hid.c` | `dev_handle`; on the phone, which key is down | start, media keys from binder threads | registered before the device is open; presses and releases of several threads interleave; transfers that fail before or after they arrive |
| USB host pipes, `usbhost_{bulk,iso}.c` | one device handle each | open, transfer, audio capture | error paths, callbacks, shared buffer |

How they interact. `main_auto.cpp` calls `AUTO_tick` in a loop. A tick asks the
touch panel, then the microphone, for a message, and passes it to `jni_aa_cmd`,
the only entry into the session. `jni_aa_cmd` starts the session, sends the
message or polls; a poll runs `hu_aap_recv_process`, which reads from USB, cuts
packets, decrypts them and calls a handler, which may send replies, fill a media
ring or set a latch. `jni_aa_cmd` then returns at most one thing: an error, a
notification, or the buffer at the head of a ring. All of this is one thread;
what interleaves with it is the phone and the cable. The display thread and the
capture thread are the only others. The ALinQ and AOAP components are separate
programs that share nothing with the session.

What makes each part correct is in section 3, property by property; `hazards` in
`PROJECT.json` lists what can go wrong at each line, with the properties that
would notice or the reason why none does.

## 2. Modules and code

`AapLink` (abstract) and `AapSession`. The session over USB: one action per
libusb call and the code up to the next one, so that every call may fail, time
out or succeed between any two steps. `iaap_state`, `iusb_state`,
`iusb_dev_hndl`, `tries`, `hs_ctr` are the variables of the code; `ctxRefs`
counts `libusb_init` against `libusb_exit`; `tls` abstracts the SSL object;
`packets`, `tail`, `replies`, `handler` are the locals of a running receive
loop; `sent` and `last` observe the wire and the results. `AapLink` is what a
user of the session relies on: it is down, connecting or up, the messages of a
start go out in order, encrypted traffic only when it is up.

`AapChannels` adds to each step of `AapSession` which messages it carries: the
handlers of `aa_type_array` that answer, save an id or stop the session are one
disjunct each, under the name they have in `hu_aap.c`. `ack_val` is `ack_val_aud`,
`ack_val_au1` and `ack_val_au2`; `todo` holds the answers a running handler has still
to send; `queue` holds what the phone has sent, its first `packets` messages being the
read that is worked on in `rx_buf`. The phone is external: `phase`, `sid` and `due` say
what it has opened, which id it gave a stream and which answer it waits for. It has one
request per channel under way and one media message without an acknowledgement, which
is what the setup answer of the head unit (`MAX_UNACK` 1) tells it. A session that is lost
takes with it what was not read, while `ack_val` stays, as the statics of the process do.

`AapFraming`. The receive loop of `hu_aap_recv_process`, in bytes that are only
counted. `pos`, `have_len`, `enc_len` are what the code computes; `start`, `end`,
`pkt` are where the phone's packets really are.

`VideoAssembly`. `iaap_msg_process` and `iaap_video_process`: which messages are
taken for video, and how the fragments of a unit are put together in `assy`. It
goes on across sessions, because nothing resets `assy_size`.

`MediaFifo` (abstract) and `MediaRing`. The two rings of `hu_uti.c`, which are
the same code twice; `MediaFifo` is a bounded queue.

`VideoPath` composes `VideoAssembly` with `MediaRing` through
`iaap_video_decode`, which queues a unit that was completed: a message of the
phone and what it does to the ring are one step, a read of the application is
another.

`AaCmd`. `jni_aa_cmd` with the indices of both rings (through `MediaRing`), the
latches and the up or down of the session; the messages of one read are handled
one at a time. `aud_empty` are the queued audio buffers of length 0, which a call takes
and returns as 0 (`hu.c:129`), like a call that has found nothing.

`TouchInput`. `TOUCH_getAction`: `event` is the static of the code, folded by one
kernel event per call. `finger`, `kernel` and `dropped` are the panel and the queue
of the kernel, which is external.

`MicCapture`. The capture thread and `MIC_getData`, one step for each load or store
of `gAudioDataSize` and each access to the buffer, with the arithmetic of a C
`int`. An error of `AudioRecord::read` is stored like a size, as in the code.

`HeadUnit` composes `TouchInput` and `MicCapture` under `AUTO_tick`. `step` is where
the main thread is in `AUTO_init`, a tick or `AUTO_exit`, `display` where the display
thread is; `codec` and `frames` stand for `gCodec`. `jni_aa_cmd` is a choice of its
results here, since `AaCmd` has its inside; `seen` is the finger as the phone knows it
from the touch messages that arrived. A call may lose the session (`lost`) and report
success, because `hu_aap_enc_send` discards the result of the transfer (`hu_aap.c:198`):
its message may then never arrive, later calls may still return media that were queued,
and the next message fails. `lost` is TRUE too when the start failed, which
`AUTO_init` does not look at. `AUTO_exit` passes no result buffer with its Byebye
(`AndroidAuto.cpp:313`), to which the call copies whatever is at the head of a ring;
`ByebyeCrashes` is that end of the program.

`HidService`. The main thread through `AOAPService::init` and `hid_init`, and any
number of binder threads that each press and release keys. `context` and
`dev_handle` are what `hid_init` sets up; `done` counts its transfers and `heard`
those the phone took; `down` is the key that the phone sees pressed. A call before
`dev_handle` is set ends the process.

`AlinqCommands`. Each call of `android_commands.c` is a sequence of exchanges: a
request, the number of its sends, whether its answer is read, and whether the mutex
is kept for the next one. `Locks`, `Sends`, `SendFails`, `Reads` and `ReadFails` run
the exchanges of any number of threads; `replies` is the pipe from the phone. A
transfer that fails may or may not have reached the phone, an answer may come after
its read has timed out (`lates` counts those), and the phone may not answer.

`AlinqBrowser`. `browserSetNode`, `browserGetNode`, `browserGetItem` and
`browserSetItem` in one thread, over `AlinqCommands`, which the other threads use at
the same time. A count is kept as the answer that brought it, so that the model can
tell the count of one node from that of another.

`MC*` modules only extend a module for TLC and give operators as constant values;
`*Proof` modules hold theorems. An operator whose comment begins with "Mutant" is
a plausible slip of the definition that follows it; no specification uses it, and
a run must find a property violated when it takes the place of that definition.

## 3. Runs

| Run | Question | Result |
|---|---|---|
| `session` | With every libusb call free to fail, do the two states agree (`LinkAgreement`), does every close give back the context of its open, so that only failing opens leak one (`ContextsGivenBack`), does encryption wait for the handshake (`EncryptedMeansFinished`), do results agree with the state (`ResultAgrees`), is nothing sent on a closed transport (`NoSendWhenDown`), is `AapLink` implemented, with the messages of a start in order and on one connection? Does the phone get no answer it does not wait for, acknowledgements with the id of this stream (`AnswersAwaited`), and is no request of it forgotten (`NothingForgotten`)? Does every call come back (`CallsReturn`)? | holds |
| `session_finished` | Is a started session one whose handshake finished (`hu_ssl.c:293`)? | violated |
| `aa_cmd` | Is what a call takes away what it returns, but for an audio buffer without audio, and is there nothing when it takes and returns nothing (`NothingSwallowed`)? Does the application learn of a microphone change (`MicTold`), get all media once the phone is silent (`Drained`), and hear of a lost session (`LossReported`)? | holds |
| `aa_cmd_wait` | Does a poll wait only with empty rings (`hu.c:88`)? | violated |
| `framing` | Does the loop hand TLS whole packets, account for each byte, and leave waiting packets untouched, if reads do not end inside a header? | holds |
| `framing_split` | And if a read may end there (`hu_aap.c:1265`)? | violated |
| `video_path` | Does the decoder get each complete unit whole and nothing else, is the ring a FIFO that loses only what it refuses, and are the units that wait in it whole and in order? | holds |
| `video_others` | And with fragmented messages on other channels (`hu_aap.c:1079`)? | violated |
| `head_unit` | While the session is up, is the phone told of a finger that goes down and up in turn, whatever the kernel drops (`Gestures`), does it see the finger as it is whenever no event and no message is under way (`Settled`), and in the end (`CaughtUp`)? In any case, is every capture sent whole, once and in order until a read fails (`HandedOver`), is the codec not released in use, and does a signal end the program (`Exits`)? | holds |
| `hid` | Is a key that is down always released, however calls overlap and transfers fail, unless the release itself is lost? Has a started service an open device? | holds |
| `alinq` | Does every call get the answer to its own request until one was left behind (`AnswersOwn`, `Backlog`), are the counts of the browser those of what it shows (`CountsHonest`), and is the mutex always given back? | holds |
| `hid_start` | Does a service start only with a phone that took its descriptor (`usbhost_hid.c:94`)? | violated |

The violated runs are the findings of `PROJECT.json`:

* `hu_ssl.c:290` forces `hs_finished = 1`; the loop before it ends after the
  second answer of the phone was given to TLS and before TLS looked at it. The
  error of line 293 cannot be reported, and a phone whose last answer TLS would
  refuse still gets Auth Complete and a started session. The first encrypted
  message then fails, which `EncryptedMeansFinished` confirms.
* `hu.c:27` computes `aud_bufs` from the indices of the video ring, and neither
  difference is wrapped. Queued audio does not keep a poll from waiting for the
  phone, nor does video whose tail has wrapped.
* `hu_aap.c:1307` reads a header whose bytes may not have come.
* `usbhost_hid.c:55` declares `r` unsigned, so `r < 0` is never true and `hid_init`
  succeeds whatever libusb answers. `LibusbInit` and `SetUp` therefore have no
  error path.
* `hu_aap.c:1079`: `&&` binds tighter than `||`, so a fragment flag alone makes a
  message video.

Seen while modelling, without a run of their own: `AOAPMediaControl.cpp:38` takes
events for playback states, so that `MEDIA_CONTROL_PLAY` sends the key for stop; two
overlapping `hid_send` of the same key are one press for the phone; a call that
comes between `startThreadPool` and the open of the device meets a NULL handle.

About the ALinQ requests: an answer that comes after its read has timed out is never
thrown away, so that from then on every request gets the answer to the one before
it; this is why `AnswersOwn` and `CountsHonest` are stated for `lates = 0`.
`ACOMMAND_SelectGroupItem` ignores whether `SET_ACTIVE_GROUP_ITEM` was sent
(line 454), so that the "number of tracks in activated group" (line 456) can be that
of the item that was active before; and it unlocks before it counts, so that another
thread can select in between. `CountsHonest` therefore speaks of the item that is
active on the phone, not of the one the browser chose, and only of this code, in which
no thread but the browser's selects: with two that do, it would fail. `SelectGroup` may hold the
mutex for about 15 s, while the others give up after one and return 0.

About the head unit: `decodeHwFrame` (`AndroidAuto.cpp:237`) has no limit, so that
after a failure of the codec the program does not see the signal; `Exits` leaves that
case out. A touch message whose transfer failed is told to nobody: `Settled`, `CaughtUp` and
`Gestures` are stated while the session is up, and what is left for the application is the
error of the next message or read (`LossReported`). A negative result of
`AudioRecord::read` corrupts the count of `MIC_getData` for good, so that `HandedOver`
ends there. A tick reads one event of the panel, so that a gesture is as many ticks
behind as it has events, and a touch that is on its way keeps the microphone waiting.
When the microphone is switched on, the first message is the capture that has waited
in the buffer since it was last on.

Bounds, and why they are enough.

* `session`: `MaxTries = 2` for 4 (`session_finished` has 4): one retry and the last
  one. `MaxPkts = 2` packets in a read are one that is not the last and one that is.
  `MaxCtx = 1` context that failing opens never give back; more look the same.
  `Chans` has a channel of every kind of handler, the three audio channels being
  one code with a variable each; `Asked = {11, 13}` are a request whose answer copies
  its value and one whose answer is fixed. `Sids = {0, 1}`: an id that was saved before
  and the one that is right. `MaxQueue = 2`: two messages read at once, of one channel
  or two. `MaxOpen = 2`: one channel's answers between those of another. The theorems
  cover any number of each.
* `NumBufs = 4` for 16: the smallest ring in which full, empty, wrapped and
  something in between differ; the theorem covers every size from 2 on.
* `MaxEmpty = 1` empty audio buffer in the ring, among others with audio or alone; the
  theorem covers any number.
* `MsgsPerRead = 2`, `Chans = {3, 4}`: two messages in one read, two latches, so
  that one can overtake or reset the other.
* `MaxRead = 20`, `MaxLen = 5`: a read can hold two packets of either header and
  end in a third; bodies are shorter, equal to and longer than the extra header
  bytes of a first fragment.
* `MaxFrags = 3`, `MaxUnits = 5` in `video_path`, 3 and 2 in `video_others`: first,
  middle and last fragments; several units after an abandoned one, and more than the
  ring of four slots takes. Units of three fragments do not fit a slot.
* `head_unit`: a panel of two places that differ in both coordinates, a kernel queue
  of four events, which is one full report, so that the second overruns it and loses a
  part of itself; `MaxInputs = 2` reports of the panel and captures together, one codec buffer. Reads
  return an error, nothing or a capture that takes two messages (`BuffSize = 2`,
  `HeadSize = 1`, `CmdSize = 3`); `IntLimit = 4` lets the count wrap after an error.
* `alinq`: a browser thread and one other with a call of each shape that the browser
  does not use; two groups, two items; `MaxTries = 2` sends for 10; `MaxLates = 1`
  answer left behind, after which nothing is claimed. The theorems cover any number.
* Two binder threads: the interleavings of press and release are pairwise. The
  theorems cover any number.

Fairness. `CallsReturn` assumes weak fairness of the steps inside `hu_aap_start` and
`hu_aap_recv_process` and of the stop after a Byebye: their libusb calls have limits
between 150 and 2000 ms. The exception is the read of the rest of a packet, which has
no limit (`hu_aap.c:1346`) in the only thread of the session: a call returns or waits
there (`WaitsForRest`), and nothing fair makes the phone send the rest. The
specification of `AaCmd` is fair to the steps of a running call, which has no
unbounded loop, and strongly fair to a tick while no call failed, because the
loop of `main_auto.cpp` calls `AUTO_tick` until it returns an error. `KeyReleased`
assumes weak fairness of the two transfers of a call, which have limits of 100 ms;
not of the calls themselves. `LockReleased` assumes weak fairness of the transfers of
each thread, which have limits of 1000 and 100 ms; not of the mutex, which a call may
fail to get for ever. `CaughtUp` and `Exits` assume weak fairness of the main and of
the display thread, the scheduler's; both are loops that block in no call of theirs,
provided that `jni_aa_cmd` comes back and the codec works. Nothing is assumed of the
phone, the panel or the signal.

`CHECK_DEADLOCK` is off for `HidService` and `HeadUnit`, whose processes really end,
and on in all other runs.

## 4. Proofs

For every value of the constants:

* `AapSessionProof`: type correctness, `LinkAgreement`, `ContextsGivenBack`,
  `EncryptedMeansFinished`, `ResultAgrees`, `WireOrder`, `NoSendWhenDown`, and
  that the session implements `AapLink`. The properties are not inductive: that
  a failed start leaves both states down needs to know, for every point of the
  start, which states and which handle it can have and which message was last
  sent, and that an open handle has a context (`ContextHeld`). The inductive invariant says this per program counter; each action then
  preserves it from the part for its own program counter. `CallEndsHolds`: every step of
  a call takes off `StepsLeft`, a number made of the tries and rounds that are left, the
  packets of the read and the replies of the handler.
* `AapChannelsProof`: every behaviour of `AapChannels` is one of `AapSession`
  (`ChannelsRefineSession`), so what is proved there holds with the channels too;
  type correctness, `AnswersAwaited` and `NothingForgotten`, for any of the channels,
  any ids, and queues and reads of any length. The invariant `CInv` says of each
  channel how the request under way, its place in the queue and the answers in `todo`
  belong together: at most one message of a channel's conversation waits for an
  answer, none stands behind it, and between a start and its stop `ack_val` of the
  channel is, or will be when the start in the queue is handled, the id the phone
  knows. It speaks of sequences; what `Tail`, `Append` and the cut of a queue keep of it
  are lemmas. `ChannelsKeepSession` collects what carries over from the session.
* `AapFramingProof`: wherever a read ends, type correctness, `NextUntouched`, that the
  position and `have_len` give the end of the received bytes (`EndKnown`), and that the
  loop ends (`LoopEndsHolds`), although it may take old bytes for a header. `WholePackets`
  and `BytesAccounted` are proved under `Splits = {}`, that is, if no read ends inside a
  header. That assumption is needed: the run `framing_split` shows what happens without
  it. Their invariant ties `pos` and `have_len` to where the packets are.
* `VideoPathProof` proves the parts and then their composition. A ring of any size
  implements the FIFO (`RingImplementsFifo`): the abstract queue is a function of the
  indices, and the arithmetic of the masked step is a lemma. `AssemblyFits` and
  `UnitsHandedWhole` hold for every number of units and fragments, under `OthersTold`:
  messages of other channels do not carry the flags of fragments. That too is needed,
  by `video_others`. A behaviour of `VideoPath` is one of the assembly and one of the
  ring (`PathKeeps`), and `QueuedInOrder` follows from both: the slots between head
  and tail hold units with growing numbers, and the newest is at most the last that was
  completed; that the masked indices run through them in this order is the lemma.
* `AaCmdProof`: type correctness, and `NothingSwallowed`, for rings of every size and any
  audio channels. That a call which returns nothing has left nothing needs to know that the
  video it has seen at its beginning is still there at its end, and that a call which reads
  has seen none (`SeenQueued`); an audio buffer without audio is the exception. `CallEndsHolds`: each step of a call
  takes off a number.
* `HeadUnitProof`: type correctness, `HandedOver`, `CodecInUse`, `Gestures` and `Settled`, for
  every panel, kernel queue, codec and capture buffer.
  `HandedOver` comes from the microphone alone: outside the stretch from the store of
  the capture thread to the subtraction of the main thread the count is 0, and inside it
  equals the size of the capture in the buffer, until a read fails.
  `Gestures` needs an invariant over the whole kernel queue: read from `event` on, its
  KEY events change the button each time and end at the finger of the panel (`Tells`,
  `Follows`), as long as none was dropped; `event.OldButton` is what the phone has seen
  or is just about to be told, while the session is up (`Behind`; once it is lost, it stays
  lost: `LostStays`). With events dropped only the second part is
  left, from which DOWN and UP still alternate. `CodecInUse` needs that the codec is
  released only after the display thread has ended (`CodecInv`). `Settled` adds to `Tells`
  that the coordinates which wait in the queue, read from those of `event` on, end at the
  finger's place (`Tracks`), and that what `event` holds and is not told yet is marked by
  `NeedsReport` or is in the message under way (`PlaceSeen`). `NoneWaitsHolds` and
  `NearerHolds` are the part of `Exits` that is not fairness: after a signal each step of
  the main thread takes off `MainLeft`, which nothing else adds to, and where it waits the
  display thread can go on and has a bounded number of steps to make.
* `AlinqBrowserProof`: type correctness, `Backlog` and `AnswersOwn`, for any set of
  threads, of groups and of items, any number of sends and of late answers. The
  invariant has three parts: a thread is inside an exchange exactly when it holds the
  mutex; while none waits for an answer the pipe holds at most the answers left
  behind, and while one does, one more; and with none left behind that one is the
  answer to the request of the thread that waits. That each call reads the answers it
  causes is a lemma about the table of calls (`ExchangesOK`). `CountsHonest` needs what
  the browser's call has yet to do and what it has got so far (`HonestInv`), and is
  proved under `BrowserSelects`: no other thread selects an item, as in the code, where
  `android_browser.c:279` is the only call of `ACOMMAND_SelectGroupItem`. With others the
  count would be of the item that was selected last. `LevelKeptHolds` needs neither that
  nor answers in time: the browser never takes the index of an item for a group.
  `OneInPipeHolds` is the mutual exclusion, and `HoldEndsHolds` bounds the transfers that
  the holder of the mutex makes until it gives it back.
* `HidServiceProof`: type correctness, `NoStuckKey` and `TickMeansOpen`, for any set
  of threads and any number of descriptor transfers. `NoStuckKey` is inductive over
  the types: a report that arrives makes the phone's key that of its sender, who
  holds it, and a call always goes on to its release.

Only model-checked: the liveness properties `CallsReturn`, `MicTold`, `Drained`,
`LossReported`, `KeyReleased`, `LockReleased`, `CaughtUp` and `Exits` (liveness under
fairness and ENABLED are beyond the proof system). Of `CallsReturn`, `LockReleased` and
`Exits` the bounds above are proved for every value of the constants: no step can be
repeated for ever, and what remains is that each libusb call and each thread goes on.
Every invariant and action property of the passing runs is proved. No module with a theorem uses RECURSIVE operators, which
the proof system cannot treat, and no theorem rests on induction over data.

## 5. Not modelled

`PROJECT.json` gives the reason for each component. In short:

* The protocol dump, the logging, file and process helpers of `hu_uti.c` and the
  metadata utilities have no state that a property could speak of.
* `hu_tcp.c` cannot be reached: `main_auto.cpp` starts over USB, and a Wi-Fi start
  fails at once because the calls of `ihu_tra_start` into it are commented out
  (`StartWifi` has that failure). `hu_ush.c` is not in `Android.mk` either; `hu_jni.c` and
  `hu_mai.c` are entry points that `main_auto.cpp` replaces.
* `usbhost_iso.c` is in no list of `Android.mk` and nothing calls `iso_init` or `ISO_IN`;
  `enable_iso_driver` and its counterpart are called from comments only.
* `Bulk_DriveInsert` runs once in `main_test.cpp` before any other thread exists.
* OpenSSL and libusb are headers and binaries of others, most lines of the tree; they
  are a choice of outcomes where the code calls them.
* Inside the modelled parts: the contents of messages, service discovery among them,
  the search over the device list, times and logging.
* Lengths of packets against the size of `rx_buf` and of media against that of a result
  code (`hu_aap.c:1346`, `hu.c:138`): packets and media are values in the models, of which
  only the audio buffer of length 0 is told from the others.

## 6. Plan

Built, in this order: session, framing, video, rings, command call, HID service,
microphone, touch and head unit, ALinQ requests and browser, then the channels over the
session, and the proofs of all safety properties. What a further step could add:

1. `HeadUnit` over `AaCmd` instead of the choice of its results. The rings, latches and
   two more threads multiply the states; it would say which media is queued when
   `ByebyeCrashes` happens.
2. The latches of `AaCmd` across a restart of the session, should the loop of
   `main_auto.cpp` ever be made to restart it: today the program ends at the first error.
3. The wait of line 1346 and the byte sizes of the receive buffer in one model.
