# A verification project for esp32lib

esp32lib is a C++ library for the ESP32: an asynchronous TCP client and server
over lwIP (ZZAsyncTCP), a logger that uses it (ZZTCPLog), settings kept in a
LittleFS file (ZZSettings), a WebSocket and Socket.IO client with heartbeat and
reconnection (WebSockets, WebSocketsClient), json-c (libjson) with a wrapper
around it (AXJSON), and mounting of the file system (ZZLittleFS).
AXSerialClient, a TCP client over a serial modem, is not used as the library is
configured. It has no tests. This directory holds TLA+ models of the parts whose
behaviour is hard to test, the TLC configurations that check them and proofs
checked by TLAPS. Paths below are relative to the repository.

    tlc -workers 2 -config AsyncQueue.cfg AsyncQueue
    tlc -workers 2 -config Json.cfg MCJson
    tlapm AsyncQueue_proofs.tla

## The system

| Component | State | Operations | Talks to |
|---|---|---|---|
| Event queue, service task (`src/ZZAsyncTCP.cpp:79-338`) | `_async_queue` of pointers to packets, the packets | `_tcp_*` callbacks post, `_async_service_task` dispatches, `_remove_events_with_arg` rotates | lwIP thread, application tasks, all clients |
| ZZAsyncClient (`:540-1212`) | `_pcb`, `_closed_slot`, busy flag, timeouts, acknowledgement counts | `connect`, `close`, `abort`, `add`, `send`, `ack`; one handler per event; `_lwip_fin` in the lwIP thread | queue, lwIP through `tcpip_api_call`, the user's callbacks |
| Closed slots (`:83-93`, the constructor, `_lwip_fin`, every `_tcp_*_api`) | `_closed_slots`, `_closed_index` | choose, stamp, guard | all accepted clients |
| ZZAsyncServer (`:1218-1330`) | `_pcb` | `begin`, `end`, `_accept`, `_accepted` | lwIP, queue |
| ZZTCPLog | connected and connecting flags, time of the last disconnect | `sendData`, callbacks | one ZZAsyncClient |
| ZZSettings | parameters by section, in memory; the settings file and a temporary file | `append`, `setParam(s)`, `setData`, `save`, `load`, getters | LittleFS |
| Frame codec (`src/websockets/WebSockets.cpp:56-719`) | header and payload being read | `createHeader`, `sendFrame`, `handleWebsocket`, `readCb`, `write` | the socket, `messageReceived` |
| WebSocketsClient | handshake and connection status, header being received, heartbeat counts | `loop`, `sendFrame`, `handleWebsocket`, ... | WiFiClient or WiFiClientSecure (`include/websockets/WebSockets.h:29`), the user's event callback |
| AXSerialClient | data or command mode of the modem, receive buffer | `connect`, `read`, `write`, `available` | a serial port |
| json-c containers (`linkhash.c`, `arraylist.c`, `printbuf.c`) | hash table with linked entries, array, text buffer | insert, delete, resize, iterate; put, delete, shrink; append, fill | json-c objects, parser and printer |
| json-c objects (`json_object.c`) | kind, value, reference count, user data | new, get, put, add, delete, deep copy, compare, numbers | containers, the application |
| json-c parser, printer (`json_tokener.c`, `json_object.c`) | stack of levels, text of the token under way; none | parse a buffer, whole or in pieces, reset; print in a style | objects, the application |
| AXJSON | a json_object per wrapper | get, set, parse, print | json-c |
| ZZLittleFS | mounted or not | mount, format | flash |

### What is hard about it

*ZZAsyncTCP* has no lock. Three kinds of thread meet in it: the lwIP thread,
which runs callbacks and API calls one at a time; the service task, the only
reader of the queue; application tasks that call `connect`, `close`, `abort`.
They share the queue and every client's `_pcb`. What can go wrong is spread over
threads and time: the rotation that removes the events of one client runs while
others post; a connection ends in the lwIP thread while an API call with its pcb
waits for that thread; an event that was queued for one connection is dispatched
in the life of the next.

*ZZSettings* holds a mutex in every public method; what is hard is the flash:
the power fails anywhere, writes and renames fail, and the file outlives the
firmware that wrote it.

*WebSocketsClient* runs in one task, but every look at `tcp->connected()` may
find something else, `clientIsConnected` disconnects as a side effect, and one
`WSclient_t` serves all connections of the client's life: flags, counts and
times survive from one to the next. Times are compared with `millis()`, which
wraps. A server may stop answering without the connection ending.

*The frame codec* reads and writes in the middle of everything else: a header
comes in up to three parts, a read may give up between any two bytes, memory for
the payload is known only to the callback of the read, and a write may come
short. A length has three forms, which meet at 126, 65535 and 4 GB.

*json-c* is sequential; what is hard is long sequences of legal calls. Deleted
places in a hash table on which searches, insertions, the copy of a resize and a
loop that deletes all depend; an array that is never cleared; sums near the
limits of `int` and `size_t`; an increment that moves a number from one type to
another; a deep copy that fails several levels down; a parser that may be left
at any character and called again with the rest of the text, or reset and
reused.

### What makes each part correct

- Queue: no packet is lost, duplicated or freed twice; a rotation removes all
  events of its client; every event is dispatched in the end; the events of a
  client keep their order (they do not: see Findings).
- Client: never two connections; none forgotten; `_pcb` not used after lwIP
  freed it; no event after onDisconnect; every `connect` is answered (not
  always: see Findings).
- Slots: one client per slot; a call never reaches another connection.
- Settings: the flash is always one of the files that were saved completely; the
  result of `save` is true; values stored survive reboots, upgrades and
  downgrades; an update changes all it names or nothing.
- WebSocket client: the application always knows whether it is connected; a
  connection is reported only when the server switched protocols, and starts
  afresh; the heartbeat drops silent servers and no others; whatever went wrong
  it reconnects, without flooding the server.
- Frame codec: however the bytes are cut, messages arrive whole, unmasked and in
  order, and the client then stands at the first byte of a frame; every payload
  is freed; the server reads what was sent.
- Containers: an object is an ordered map, an array a sequence; a key that is
  there is found; a loop visits everything once; nothing is read before it was
  written or written outside its memory.
- Objects: the reference count is the number of references at every step, and
  what exists can be reached; a copy has the same value and shares nothing;
  numbers saturate.
- Parser and printer: a text has one value, whole or in pieces, in a new tokener
  or a used one; what the strict parser accepts the lenient one reads alike;
  what is printed reads back as the same value.

## The modules

| Module | What it is |
|---|---|
| `AsyncQueue` | queue and service task, packet by packet, several clients |
| `AsyncClient` | one client over several connections: application, lwIP thread, service task |
| `ClosedSlots` | slots, stamps, guard; several accepted clients, pcbs that are reused |
| `ZZSettings` | memory, the steps of a save, load and merge, resets, firmware changes |
| `SettingsStore` | the atomic store that ZZSettings implements |
| `WebSocketsClient` | `loop`, handshake, heartbeat, reconnection; the application, the server, the network and time |
| `WebSocketsFrame` | frames byte by byte, both directions, with short reads and writes |
| `LinkHash` | the hash table, over the abstract `OrderedMap` |
| `ArrayList` | the array, over the abstract `ValueList` |
| `PrintBuf` | the text buffer and its arithmetic |
| `JsonNumber` | values of numbers, increments, every way to read one |
| `JsonObject` | ownership in trees: references, deletion, deep copy, equality |
| `Tokener` | the parser, one character at a time, as an operator on records |
| `JsonPrint` | the printer, as an operator on values |
| `JsonText` | a text on its way into two tokeners, and back from print |
| `Json` | the parts of libjson side by side, and what holds of them |
| `MC...` | instances for TLC (constants that are not atoms, symmetry, a view) |
| `..._proofs` | theorems and proofs |

Definitions named `...` after "Slip:" are plausible mistakes; each stands next
to the definition it would replace and shows that a property would notice it.

### AsyncQueue

A pointer to a packet is its index in `heap`; `freed` holds those given to
`free`. `LwipCallback` and `LwipPost` are the two halves of a callback (malloc;
send, which may wait for room), so that the tcpip thread can be inside a
callback for a while; `SendBack` is `_send_async_event`, `SendFront`
`_prepend_async_event`. `AppClear` is `_tcp_clear_events` from `close()` of an
application task. The service task (`pc`) is modelled call by call: `Get`, then
either a handler reduced to what it does to the queue and to the tcpip thread
(`Calls`, `HandlerClear`, `HandlerApi`, `HandlerDone`) or the rotation:
`ScanDrop`/`ScanHold`/`ScanEmpty` and `PutFirst` are the first loop of
`_remove_events_with_arg`, `PeekOn`/`PeekEnd`, `TakeDrop`/`TakeHold` and `Put`
the second. Peek and receive are separate steps, because something may be put in
front in between.

### AsyncClient

`conns` lists the connections the client opened, a pcb is an index into it. The
queue here has the events of this client only; a CLEAR removes them all, and of
what is posted while it runs it may remove a prefix or nothing (`ClearDrop`,
`ClearEnd`): AsyncQueue has the detail. The queue is shared, so the CLEAR of
another client takes this one's events out and sends them back as well
(`RotateBegin`, `RotateFirst`, `RotateTake`, `RotateSend`, `RotateEnd`). `queue`
is then the order the events will have when that is done; `moved` of them are
behind the first packet of the rotation already, one may be in its `hand`, and
what is posted meanwhile is inserted where it will stand (`SendBack`,
`SendFront`): ERROR may come before a CONNECTED or RECV that was posted earlier.
`_close` is three steps (`Detach`: unhook and post CLEAR; `CloseApi`:
`tcp_close`, `abort` if that fails; `CloseEnd`: `_pcb = NULL`, onDisconnect), in
the application or the service task. `Connected`, `Error`, `FinSeen`, `Dns`,
`Seen`, `TaskClose` are the handlers; `SynAck`, `Report`, `Fin`, `Reset`,
`DnsFound` what lwIP does, `Fin` with `_lwip_fin` in it. `view` is what the
application was told. The histories say when an assumption of a property was
broken: `lost` a connection attempt failed and its result was ignored; `early` a
FIN was handled before CONNECTED was dispatched; `hasty` the application
connected again although something of the last connection was not yet
dispatched; `mixed` an event was posted out of its order, into such a rotation.
ZZTCPLog is not hasty in practice: it waits five seconds
(`src/ZZTCPLog.cpp:67`). All five invariants except `early` and `hasty`;
`PcbSound` and `SilentAfterDisconnect` except `mixed` too, because they fail
without: an ERROR that stands before CONNECTED makes `_pcb` a freed pcb, and one
that stands before RECV lets onData follow onDisconnect. `OneConnection` and
`SilentAfterDisconnect` need `hasty` from the third connection on: the service
task may report the last disconnect once more while the next connection is being
made, and the application then connects again.

Simplified: the test of `_pcb` in `_close` and its five unhook calls are one
step with the posting of CLEAR; sending data and its acknowledgement timeout are
left out; the application connects only while it is told it is down.

### ClosedSlots

`Accept` is the constructor of an accepted client. The search for a slot is
stated as `Chosen`; `Loop` is the code's loop, a recursive function of how many
slots were seen (`Searched`), and `LoopFindsOldest` says they agree. lwIP has no
more pcbs than there are slots (`SlotsAssumption`), since the array has
`CONFIG_LWIP_MAX_ACTIVE_TCP` places. `Stamp` is the end of `_lwip_fin`. An API
call is two steps, since the calling task reads `_pcb` and then waits for the
lwIP thread: `Use` or `Close`, then `Run`, which evaluates `Guard` as
`_tcp_write_api` and the others do. `Reset` and `Error` end a connection without
`_lwip_fin`. An address of a pcb is used again for a new connection as soon as
it is free. `FinOutgoing` is `_lwip_fin` of a client that `connect()` made,
whose slot is -1: in the other modules this write outside the array is left out.

### ZZSettings and SettingsStore

A section and a name are one name; type, minimum and maximum are `range`, the
set of values `isValidValue` accepts. A file is missing, damaged (whatever
`load` refuses), legacy (no trailer) or whole. Every public method is one action
since all hold `m_mutex`, except that `save` is cut where a reset can come
between two effects on the flash: `Open`, `WritePayload`, `WriteTrailer`,
`Rename`, `RemoveTmp`. Any of them may fail. `PowerLoss` may come at any time;
`Boot` chooses the firmware that runs next. `LoadFactory` and `LoadStored` are
the two ways through `load`; `OverlayOne` merges one stored parameter. The
loops over parameters (`Apply`, `Overlay`) are recursive functions of how many
are done. `FirmwareAssumption` is about the caller: a firmware appends each of
its parameters once, with a value of the range it gives. LittleFS
is assumed to rename atomically, which is what it documents. `SettingsStore`
says what the flash should look like: one durable content, replaced as a whole
by what is in memory or not at all.

### WebSocketsClient

Every call of `loop` is a path through the actions of `LoopStep`. `LoopLost`,
`LoopWait`, `ConnectFails`, `Connects` and `Mismatch` are its half without a
connection. With one, `pc` goes from `data` (`handleClientData`: one line of the
answer, the body, or one frame) over `event` (the application's callback, in
which it may call anything) to `hb` and `timeout` (`handleHBPing`,
`handleHBTimeout`); `LinkLost` may come between any two. `HeaderEnd` is the
second half of `handleHeader`, with a connection that is lost or not at the
calls of `clientIsConnected` in it. `Enough` is the comparison that decides to
disconnect.

The server's answer is a sequence of lines that matter to `handleHeader`; a bad
one lacks a line, has a wrong one or never comes. Frames arrive whole; what a
bad or interrupted one leaves behind is part of `ReceiveBad`. Of a time that the
code keeps, `age` holds how long ago it was, cut at the largest value that some
comparison can tell apart; a time set to 0 is as long ago as the boot. The sum
that may wrap (`src/websockets/WebSocketsClient.cpp:539`) is modelled by its
effect: the answer is late at once. `Tick` is the passing of time; usually
`loop` has been called in between and has left nothing to read (`ran`).

Each thing that goes wrong costs one of `MaxTrouble`: a failed connect, a bad
answer, a lost link, a silent server, a bad frame, a write that times out, a
slow application, an unlucky wrap of the clock, a call of `disconnect` while
connected, of `begin` again, or of `enableHeartbeat` while it is enabled. The
histories serve the properties: `got` the lines of this connection, `calm` the
time since the last one ended or was attempted, `missed` the timeouts in a row
of pings of this connection, `tainted` that the code counted others (because it
began on an earlier connection, or because a pong was read and then forgotten:
just before the next ping was sent, or when the application called
`enableHeartbeat` again), `hurry`, `renewed` and `again` that an exception
applies: a certificate mismatch, a `begin` since the last connection ended, and
a `begin` during one.

Simplified: `enableHeartbeat` is called with the same times every time; a call
the application makes in the DISCONNECTED callback, inside `clientDisconnect`,
equals one right after it; connecting takes no time; sending messages changes no
state here and is left out, but a ping that cannot be written is not. `lastPing`
is set 500 ms more than the interval back to force a ping, which is the cut
value of its age.

### WebSocketsFrame

The connection with the server is one sequence of bytes each way. `ServerSends`
puts a frame on it. `Begin` is `handleWebsocket` asking for the first two bytes;
`ReadSome` is `readCb` between two bytes; `HeaderRead` and `PayloadRead` are its
last byte, with the callback that follows: `handleWebsocketCb` again for the
next part of the header, `handleWebsocketPayloadCb` (`Dispatch`) for the
payload. `ReadFails` is the other exit of `readCb`, `NoMemory` a failed malloc.
The connection may be lost between any two bytes. `SendFrame` makes the calls of
`write` in `Writes`: header and payload in one buffer and masked when there is
memory, or in the room that the caller left before the payload, or one after the
other. Each may come short.

The numbers are scaled so that every form of length is small: a length below
`Esc` (126) is in the header, `Base` (256) is the base of the extended ones,
`MaxData` is `WEBSOCKETS_MAX_DATA_SIZE`. The bytes of a length are its digits
(`Shifted`, `Bytes`), which `Number` puts together again; a length the client
handles has four (`size_t`), one in a frame has eight. `RfcDecode` is the
reference: a decoder written from RFC 6455 that knows nothing of the code. The
first two bytes of a frame are records, the others bits, which a mask changes as
XOR does. `WebSocketsClient` takes frames as whole; this module is what stands
behind that.

### json-c: containers

`LinkHash` has the places of the table as functions (`k`, `v`) and the links as
a sequence of places. `FoundAt` and `FreeAt` say where the two probing loops
stop. A resize is one step per entry (`AddResizes`, `Copy`, `Resized`), so that
what holds half way is checked and proved. A foreach loop keeps the entry that
comes next, as the macro does; `iter.spoiled` records that its body deleted that
one, which `ForeachVisitsAllUnlessSpoiled` excepts. `strings` counts the copies
of keys. `OrderedMap` is what a user of an object is promised: `ImplementsMap`
maps `fields` to keys and values along the links.

`ArrayList` shows memory place by place: fresh places are `Junk`, deletions
leave what was there, so a gap that is not cleared would be seen. `size_t`
wraps. A value is the application's, the list's or freed. `PrintBuf` keeps
sizes, positions and the highest byte a call wrote, not the text.

### json-c: numbers and objects

`JsonNumber` has the widths as constants and doubles in half units. Reads are
sets of results, because a cast of a double that does not fit is undefined.
`JsonObject` abstracts from how a slot is found (the containers). Freeing a tree
and deep-copying one are one json_object per step (`PutStep`, `CopyChild`,
`CopyUp`, ...), so that the count is compared with the references half way; a
copy may fail at each. `Reachable` is the least set that holds its starting
points and what is in the slots of its members. `Shape` is the value of a
json_object as a tree, level by level, and `Equal` the comparison of
json_object_equal, which recurs as deep as there are json_objects at most.

### json-c: parser and printer

`Tokener` is `json_tokener_parse_ex` as a function of a record and a character;
every `case` of its switch is an operator, and `Redone` follows `goto
redo_char`. What the code keeps in C locals for one call (`bytes`, `num`) is
made anew by `NewCall`. `JsonText` writes a text one character at a time into
two tokeners: `whole` is new and gets it in one buffer, `pieces` was used before
and gets it cut anywhere, ended by NUL or by a length. Both may be strict,
lenient, or one of each. `spoiled` marks the cases listed below in which the
code does not keep what it needs across a cut, or keeps too much for the next
text; the properties except them. `RoundTrip` prints the value read in five
styles and reads it again.

## The runs

| Run | Expected | Shows |
|---|---|---|
| `AsyncQueue` | pass | conservation, order when nothing is posted during a rotation, drops all of its client; every packet is freed unless the queue fills |
| `AsyncQueueOrder` | violation | `OrderKept` |
| `AsyncClient` | pass | one connection, silence after onDisconnect, `_pcb` live, connections reachable, onDisconnect true, with the exceptions `early` and `hasty`, the second and third also `mixed` |
| `AsyncClientLive` | pass | every connect is answered, with the exceptions `lost` and `hasty` |
| `AsyncClientFin` | violation | `Disconnected`: the exception `early` is real |
| `ClosedSlots` | pass | slots are exclusive and accounted for, the loop finds the oldest, the guard covers FINs until the slot is given away again |
| `ZZSettings` | pass | the flash is the atomic store; updates, loads and saves; the file settles |
| `ZZSettingsAppend` | violation | `StoredSurvives` |
| `WebSocketsClient` | pass | the application knows, connections start afresh, the heartbeat counts right and the server is not flooded (with the exceptions `again`; `tainted`; `hurry` and `renewed`), the client recovers |
| `WebSocketsHeartbeat` | violation | `DropNeedsMisses`: the exception `tainted` is real |
| `WebSocketsFrame` | pass | messages are read whole and in order, payloads are freed, the server reads what was sent |
| `Json` | pass | the nine properties of json-c, part by part |

In `Json` a behaviour chooses one part (table, list, buffer, numbers, tree,
text) and only that part moves; the others keep their initial state. The parts
share no variable, so this checks the same behaviours as a run of each would,
and each property names the part it is about.

Bounds. AsyncQueue: two clients (one cleared, one not), types of event that are
put behind, that post a CLEAR and that are put in front, four packets from lwIP
in three places: enough for a rotation with a packet of each client to be
interrupted by two posts, and for a full queue; `AsyncQueueOrder` has the 32
places of the code. AsyncClient: two connections, since every hazard is about
one connection and the next; at most one event waits when lwIP reports data or a
poll (what ends a connection is always posted), and one rotation for another
client, which is enough to put any two events in the wrong order (`MaxTurns`);
with two rotations the state space no longer fits. `MCAsyncClient` gives TLC a
view that leaves out what no later step and no property but the type invariant,
which is proved, reads: `event` when it is not being dispatched, the other
histories once `early` or `hasty` holds, `left` and `stale` once `mixed` does.
ClosedSlots: three slots and pcbs, four accepted clients: every slot can be in
use, and one can be released and given away again while a call with its old pcb
waits. ZZSettings: three names, three values, at most three parameters in a file
that can be read back, five kinds of first file; no bound on the number of
updates, saves, resets and boots. WebSocketsClient: two things go wrong, so that
one can happen while the client recovers from the other, or on the connection
after it; TLS without Socket.IO and Socket.IO without TLS; times of one or two
ticks, which keep PongTimeout < PingInterval; two timeouts until the heartbeat
gives up, so that one can be carried over; no bound on connections.
WebSocketsFrame: lengths on both sides of every limit (`Esc` 3, `Base`^2 - 1 =
8, `MaxData` 7), two frames, so that one follows another that was cut, refused
or interrupted, and one thing that goes wrong.

Json, table: three keys, two of which collide in the last place, tables of one,
two and four places, so that a search wraps, a deleted place is reused and two
resizes happen; no bound on additions and deletions. List: two values, a
`size_t` of 0 .. 7 and pointers of two bytes. Buffer: `INT_MAX` = 12, every
length and offset. Numbers: an `int` of three bits in integers of four, so that
every pair of a value and an increment is tried. Tree: four json_objects, copies
of two, so that a copy fails below its top. Text: nine alphabets, one per group
of states (arrays; objects; nested both; numbers; escapes and surrogates;
comments; words; negative numbers and Infinity; UTF-8), each with bounds on the
length of a token, on items and on depth; the length of the text has no bound,
because states of the tokeners repeat.

Deadlock is not checked where a bound stops the system or where it may stop by
itself: after the last packet, connection or character nothing is left to do.
ZZSettings, WebSocketsClient and WebSocketsFrame never stop and are checked for
deadlock.

Fairness. The service task is scheduled: weak fairness of its steps, and of the
lwIP thread finishing a callback it began. An API call of the service task waits
in the mailbox of the tcpip thread, which is served in order, so a call that is
again and again possible is run: strong fairness of the steps that make one.
Other clients are not closed again and again, so the service task comes to this
client's events between the rotations for them (`Progress`). lwIP gives every
connection attempt and every lookup an end because it limits their
retransmissions: strong fairness of the answer. Nothing is assumed of the
application and of the peer. WebSocketsClient: the application calls `loop`
again and again (weak fairness of `LoopStep`), what the server sent arrives in
the end, so that `available()` is not 0 for ever (strong fairness of the reading
steps), and time passes (strong fairness of `Tick`, which waits for a call of
`loop`). The server is assumed to answer unless trouble is left; without that
nothing could recover. The other runs check safety and need no fairness.
`EveryPacketFreed` promises nothing once the queue has been full: the service
task, its only reader, waits without limit for room to put a packet back
(`src/ZZAsyncTCP.cpp:135`), or calls the tcpip thread while that waits for room
in a callback (`:107`), and the system then stops.

## Findings

1. *Order* (`AsyncQueueOrder`). The rotation appends each packet it keeps behind
   whatever was posted meanwhile and stops when the first is in front again, so
   events change their order, RECV of another client among them. In the life of
   that client (`mixed` of AsyncClient) an ERROR can come before CONNECTED or
   RECV: the first leaves it with a freed `_pcb`, the second calls onData after
   onDisconnect.
2. *Early FIN* (`AsyncClientFin`). `_lwip_fin` knows the pcb only once CONNECTED
   is dispatched; before, it leaves the connection open, which CONNECTED then
   installs, while FIN tells the application that it is disconnected.
3. *Appended parameters* (`ZZSettingsAppend`). `append` after `load` doubles a
   parameter kept from the file, and the default wins at the second boot.
4. *Heartbeat* (`WebSocketsHeartbeat`). The count of timeouts is not cleared
   when the connection ends; the next connection is dropped after fewer timeouts
   of its own than the application asked for.

Met on the way, with no run of their own:

- `connect` ignores the result of `tcp_connect`: the application is never told
  and the pcb leaks. A CLEAR is not tied to a connection and removes the events
  of the next one if the application reconnects at once; such an application may
  also end up with two connections of one client. `AnsweredUnlessHasty`
  fails without either of its exceptions `lost` and `hasty`.
- A settings file that cannot be opened or read once is taken for missing or
  damaged and overwritten with factory values (the step `LoadFactory` with
  `ReadErrors`).
- An outgoing client's FIN writes `_closed_slots[-1]`; `_rx_ack_len` is used
  uninitialised; `begin()` of the server keeps a closed pcb after a failed bind.
- `begin()` of the WebSocket client while connected forgets its socket; after a
  certificate mismatch, and after `begin()`, there is no pause before the next
  attempt; a pong read by the `loop()` that sends the next ping is forgotten,
  and so is one read before `enableHeartbeat()` is called again; with a
  `pongTimeout` of `pingInterval` or more the heartbeat never counts a timeout;
  the first handshake after `begin()` needs no Upgrade line
  (`src/websockets/WebSocketsClient.cpp:40`). The body of a polling answer of
  256 bytes or more leaves its buffer without an end (`:560`).
- A write that comes short makes `sendFrame` return false but leaves a part of a
  frame on a connection that stays open (`src/websockets/WebSockets.cpp:276`); a
  length of 65535 is sent in the long form (`:60`).
- The body of a foreach loop that deletes the next key makes the loop go on in a
  freed place and then end (`include/json/json_object.h:473` promises that
  deletions are allowed). An addition that is refused because the table cannot
  grow leaks its copy of the key (`src/json/json_object.c:566`).
- `json_tokener_reset` keeps `high_surrogate` (`src/json/json_tokener.c:201`). A
  text in pieces: `[1` and then `-2]` is accepted (`:884`), so is `-1` and then
  `Infinity` (`:966`); UTF-8 is validated per call, so a cut inside a character
  is refused (`:300`, `:1224`). A text that ends in a comment inside a nested
  value gives success and the inner value (`:1236`;
  `include/json/json_tokener.h:246` says that more input is needed), and the
  tokener then reads the next text at the depth of that value: its levels are
  reset, `tok->depth` is not (`:1258`). `1e` is read as 1 unless strict. A field
  name ends at `\u0000`.
- `json_parse_uint64` accepts a negative number behind a tab and wraps it; a NaN
  read as an int is a cast that C does not define.

## What is proved

For every value of the constants, from the named assumptions in the modules. The
modules of json-c do not assume but define their assumption
(`LinkHashAssumption`, `TreeAssumption` and the others); `Json`, which puts them
side by side, assumes them all (`PartAssumptions`), so that TLC evaluates them.

- `AsyncQueue_proofs`: type correctness, `Conservation`, `RotationClears`,
  `OrderKeptWhenAlone`. Conservation alone is not inductive: a step that returns
  a packet to the queue must know that the packet in hand is allocated and that
  only the program counters of the rotation hold one. `IInv` is `TypeOK`,
  `Holding` (which thread holds what in which state) and `Conservation`. A few
  lemmas about ranges and injectivity of `Append`, `Tail` and `<<p>> \o q` carry
  the queue steps. For the rotation, `QInv` adds three things. `Swept`: what was
  queued when it began and is of its client lies ahead of `first`, which is in
  the queue and is where the second loop stops. `InTurn`: read from `first` on
  and then from the head, the queue has the order it will have when the rotation
  ends, and that is the order of the events; it holds as long as nothing was
  posted meanwhile. `Latest`: what the lwIP thread holds happened last.
- `AsyncClient_proofs`: all five invariants, for any number of connections and
  of rotations for other clients, as long as `mixed` is false: `PcbSound`,
  `Reachable`, `DisconnectedUnlessEarly`, `OneConnection`,
  `SilentAfterDisconnect`. That the second, third and fourth hold with one
  rotation that mixes events is only model-checked. None is inductive, and they
  hold together or not at all. The invariant is `TypeOK` and, while no exception
  occurred, nine facts: only the last connection can be alive and every event on
  its way is of it (`Single`); what the application was told agrees with `_pcb`
  (`Told`); up to SYN there are only polls (`Starting`), after it CONNECTED
  comes first (`Accepted`), a connection that is installed is hooked or its end
  is on its way (`Held`), and ERROR or FIN is the last that is heard of it
  (`Ended`); inside `_close` it is unhooked, and the service task still has its
  CLEAR before it (`InClose`); a name is looked up when nothing else goes on
  (`Resolving`); of a connection that was reported down there are only events
  that a CLEAR will remove (`Silent`). That a hasty application breaks `Single`
  was found while proving this.
- `ClosedSlots_proofs`: `SlotExclusive`, `SlotAccounting`, `SlotsSound` (with it
  that the loop finds the slot `Chosen` describes), `ReuseOldest`,
  `GuardCoversFin`. The first two depend on one another: a chosen slot is free,
  hence by accounting held by nobody, hence exclusive. `GuardCoversFin` is a
  property of steps and needs that a slot's last client is its holder (`Later`),
  so that a slot that was not given away again still has the stamp of the client
  that waits. `ReuseOldest` needs that stamps are in the order of the releases
  (`Stamped`), the first excepted. That a write outside the array needs a lost
  slot is a count: pcbs in use are as many as clients that hold a slot.
- `ZZSettings_proofs`: all its properties. `SaveTellsTruth` and that ZZSettings
  implements SettingsStore rest on `SaveInv`: during a save the settings file is
  the one it found, and a temporary file about to be renamed is complete. The
  refinement maps `mem`, `file` and "loaded" to the store's variables; only
  `Rename` changes `durable`. `MemorySound` rests on `MemInv`: from `load` to
  the reset the memory has the parameters of the running firmware, each name
  once, each value valid, whatever file was loaded, damaged ones and those of
  other firmware included. `UpdatesGuarded` follows step by step.
  `StoredOnceSurvives` and `SettlesAfterSave` are about what the merge of `load`
  computes, for files of any length: that a parameter stored once comes back
  with its value when the firmware still accepts it, and that loading what this
  firmware saved changes nothing (`FileInv`: such a file has sound parameters).
  The loops are recursive functions; what is needed of induction is proved in
  the module from well-founded sets (`Least`, `Induction`, `Recursion`), for
  sets instead of predicates.
- `WebSocketsClient_proofs`: all its safety properties, for all times, modes and
  any amount of trouble. `ToldTruth` and `ReadyToReceive`: neither is inductive
  alone, since DISCONNECTED is reported only when there is a socket, so a
  reported connection must have one, and the steps inside `handleClientData`
  must know that `loop` found one (`DataHasSocket`). The proof goes through
  every action; those that end a connection share the lemma `DisconnectSession`.
  `DropNeedsMissesUnlessTainted` needs `BeatInv`: unless tainted, the code's
  count is the number of misses of this connection and a ping without its pong
  is one of this connection's. `ServerSwitched` needs `HandshakeInv`: everything
  in the handshake record was noted from a line of this connection, through
  `HeaderEnd` and the body of a polling answer. `NoFloodUnlessMismatchOrBegin`
  needs `CalmInv`: without a connection the time the code keeps since the last
  failure is never longer than the calm there really was, unless `hurry` or
  `renewed` says otherwise.
- `WebSocketsFrame_proofs`: all its properties, for frames of any length, any
  keys, any base of the digits and any number of frames. `ReadInOrder` says what
  holds between two messages; what is kept by every byte is `InOrder`: the
  header and payload read so far and the unread bytes together are a stream that
  carries what was sent and not delivered. A stream is one frame of the server
  after the other: `Streams(F)` is the least set with the empty stream that
  grows by the frames of `F`, and `StreamDecodes` says that the RFC's decoder
  reads the messages of a stream from it. `Reads` ties the reading to the
  header: how many bytes `readCb` waits for is what the header so far asks for
  (`AwaitsHeader`, `AwaitsPayload`), so that when they have come they are the
  header of the first frame of the stream (`HeaderComplete`), whatever the
  pieces, and its length is the length sent (`NumberOfBytes`: the digits of a
  number make the number). `Answers` is the other direction: what was written is
  a stream that carries what `sendFrame` reported; masking twice with one key
  changes nothing (`MaskTwice`), which serves both. That a length has at most
  eight digits, and those of the client four (`FrameAssumption`), is all that is
  asked of it.
- `Json_proofs`: the containers and numbers of json-c. `TableSound`, and that
  LinkHash implements OrderedMap, for any keys, hash, first size and INT_MAX.
  Lookup is strengthened from "reachable" to `KeysFound`: on the way from a
  key's hash to its place there is neither an EMPTY place nor the key itself. It
  is kept by an insertion at the first free place, by a deletion that leaves
  FREED, and by each step of the copy; `Resizing` says what the new table is
  half way: sound, with the first `copied` keys of the links and room for the
  rest, because it is twice as large (or INT_MAX) and the old one is 66 % full.
  `Linked` gives the free place: `RoomLeft` counts the places by a bijection
  with the links. For the refinement, `Rows` are the keys and values along the
  links: an insertion appends one, a deletion takes one out, and at the end of a
  resize the new table has those of the old. `LoopsVisitAll` is about foreach
  loops: the keys given so far and those from the one that comes next on are the
  keys of the beginning that are left, in their order. `SequencesKept` adds that
  ArrayList implements ValueList, call by call: which places a put clears, a
  deletion moves and a shrink keeps, for a `size_t` that wraps. `LimitsKept`:
  `BufferSafe` for any INT_MAX, slack and first size, and for any widths of the
  integers that increments saturate and that every read gives the nearest number
  of its type.
- `JsonObject_proofs`: trees of json_objects, for any set of them, any keys and
  bounds. `OwnershipExact` is not inductive. `TreeInv` counts the references of
  a node as held ones, those of puts that are still to come, those of copies in
  progress and those of slots (`Exact`), and adds that there are no loops
  (`Acyclic`: what is put in a slot is owned by the caller and does not reach
  the container), that what exists is reached from a held, put or copied node
  (`Kept`), and what the levels of a copy in progress are to one another
  (`Levels`). Exact counts alone give the rest of what a step needs: a node with
  a reference exists (`RootsExist`, `EdgesExist`), so that deleting the last one
  frees nothing that is in use. `CopiesEqual` needs `CopyInv`: there are a
  relation of twins `T`, nodes of the same kind and value whose slots hold
  twins, and a set `X` of the nodes the copy has made, which no slot leaves or
  enters. The source of each level is half copied (`Half`): twins in the slots
  that are done. When the copy is complete, source and copy are twins on two
  sides of `X`: they share nothing, and twins have one value at every depth, by
  induction (`TwinShapes`). Half way it matters that the source is not the
  copy's own child, which `Levels` says. That json_object_equal compares values
  (`EqualSound`) is an induction over the number of nodes that can be reached,
  which is smaller in the slots because there are no loops (`LowerInSlots`).

The library's theorems of induction take a predicate as a parameter and cannot
be used with the provers at hand. ZZSettings, WebSocketsFrame and JsonObject
therefore define their loops and their values as recursive functions of a
number, and `Least`, `Induction`, `Recursion`, `UpTo` and `LayersExist` in their
proofs derive induction with a set in the place of the predicate from `WFMin`.

Only model-checked: liveness, which is out of the prover's reach
(`EveryPacketFreed`, `AnsweredUnlessHasty`, `Recovers`), and json-c's parser and
printer: `SameValueRead` and `ClosedOnSuccess` go through every case of the
parser's switch, and `RoundTrip` is about a recursive operator over values,
which the provers cannot use.

## What is not modelled

- Sending through ZZAsyncClient (`add`, `send`, acknowledgement and receive
  timeouts), `begin` and `end` of the server, ZZTCPLog, `initSettings` called by
  two tasks, ZZLittleFS: possible, and left in the plan.
- AXJSON is a layer of one-line calls into json-c with a reference count that
  `JsonObject` has. AXSerialClient is not built.
- JSON pointers, the visitor, the object iterator and reading JSON from files:
  nothing in the library calls them. Sorting and searching an array are `qsort`
  and `bsearch`.
- Running out of memory in the tokener (which returns success with no value in
  places), the formats of a double that was not read from a text, colours.
- Printing and debug output, text formatting, the getters (they change nothing).

See the components in `PROJECT.json`.

## Plan

Done: AsyncQueue, AsyncClient, ClosedSlots, ZZSettings over SettingsStore,
WebSocketsClient, WebSocketsFrame, LinkHash over OrderedMap, ArrayList over
ValueList, PrintBuf, JsonNumber, JsonObject, Tokener, JsonPrint, JsonText. Next,
in this order:

1. Proofs: what is left is the printer, whose text would have to be a recursive
   function of a value instead of a recursive operator.
2. `AsyncSend`: `add`, `send`, busy flag, acknowledgement and receive timeouts,
   over the connection states of AsyncClient; `TCPLog` above it, whose flags are
   set by two tasks and which a lost answer leaves connecting for ever.
3. Server `begin`/`end` and ACCEPT; `initSettings` from two tasks; ZZLittleFS.
4. `AXSerialClient`: modes of the modem, timeouts, buffer.
