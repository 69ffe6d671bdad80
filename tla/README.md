# Smart bicycle: models of Capstone_Project

The system makes a bicycle a oneM2M device. A Raspberry Pi on the bicycle runs
Python programs that guard it while parked and drive its turn signals. They talk
over TCP to a gateway on the same Pi (thyme 1.6.5, Node.js), which talks to a
oneM2M server (the CSE, Mobius, not in this repository). An Android app reads
and writes the same server. This directory models the parts with logic of their
own, checks them with TLC and proves part of what holds with TLAPS.

    bicycle programs --TCP 7622--> thyme --HTTP--> CSE <--HTTP-- app
    parking_thread.py <--TCP------ thyme <--MQTT-- CSE  (parking_mode only)
    parking_thread.py <--raw HCI socket-- Bluetooth controller --> BlueZ tools

Containers at the CSE carry everything between app and bicycle: `parking_mode`
(app to bicycle), `parking_state` and `parking_location` (bicycle to app),
`left_light` and `right_light` (bicycle to app).

## 1. Inventory

Paths: `T` = src/raspi/thyme-v1.6.5, `P` = src/raspi/procecces,
`A` = src/application/170530/app/src/main/java/test/com/a170326.

| component | code | state | operations | hard part | what makes it correct |
|---|---|---|---|---|---|
| registration (HTTP) | T/app.js 47-319, T/adn.js | `sh_state`, `request_count`, `return_count`, open requests | timer tick, callbacks of crtae, rtvae, crtct, delsub, crtsub | ticks do not wait for answers; answers are not tied to ticks; losses | uploads start only when everything is registered; it gets there; no second listen() |
| TAS server | T/app.js 322-396 | buffers, `socket_arr`, `sh_state` | data from a program, crtci callback | byte stream framing; silent drops outside `crtci`; restart on 5000 | an upload its sender takes for stored is stored |
| notifications | T/app.js 403-632, T/noti.js | subscriptions, `socket_arr` | MQTT or HTTP message, `send_tas` | messages written to a stream without boundaries | a command reaches the program that asked for it |
| thyme over MQTT | T/mqtt_app.js, T/mqtt_adn.js | as above, `mqtt_client`, `callback_q` | as above, and connect, message | several clients; reconnection in the middle of a stage | one client is subscribed; a reconnection loses nothing for good |
| thyme over CoAP | T/coap_\*.js | as above | as above | as for HTTP | not selected by conf.json (`useprotocol` is http) |
| parking guard | P/parking_thread.py | `info`, `stop_check`, `transferred_info`, baseline, strikes | ModeCheck, BeaconCondition, BeaconFinder | three threads, no locks; sentinels; sessions; a gateway that is gone | theft, loss and deactivation are told; no false theft |
| BLE scanner | P/blescan.py | filter and queue of its socket | scan: open the filter, receive, restore | packets left from the scan before; connections of other processes | a scan hears what is there now |
| BlueZ requests | src/raspi/bluez/bluez-5.19/lib/hci.c 1069-1243 | filter, `to`, `try` | hci_send_req | events do not say whose command they answer; advertisements use up tries and time | a request gets its own answer, and returns |
| turn signals | P/combined_mode.py | lamps, buzzer, `tl_data`, `tr_data` | left_light, right_light | two threads share rear lamp, buzzer and socket; echoes that never come; a gateway that is gone | nothing stays on; warnings are heard; the server follows |
| driving mode | P/driving_thread.py | as combined_mode | left_light, right_light | takes the `parking_mode` socket over | - |
| accelerometer | P/mpu6050.py | - | read words, angles | two's complement | the value of a word |
| app, parking mode | A/FirstActivity.java | toggle button, pollers, requests | click, poll, notify | unordered request threads; pollers outlive activities | last click wins; theft notified; pollers stop |
| app, turn signals | A/Navi.java | static `left_check`, views | poll, blink, UI messages | pollers replace themselves; every activity adds more | views follow the server |
| app, map | A/MapsActivity1.java, A/FirstActivity.java 64-81, 215-274 | static `location` | click, request, map ready | the map opens before the request has an answer; requests overtake each other | shows where the bicycle is now; does not crash |
| app, other screens | A/\*.java | - | user interface | - | - |
| CSE | external | resources | serve requests in any order | failure, loss | - |

PROJECT.json lists the components with their status and the hazards of the code,
line by line, with the properties that would catch each.

## 2. Modules

| module | what it models |
|---|---|
| `ThymeRegistration` | the registration state machine, the uploads and the restart; CSE and network external |
| `MCThymeRegistration` | its small instances |
| `ThymeRegistrationProofs` | its theorems |
| `TasServer` | the gateway towards the bicycle's programs: framing, uploads, who hears commands |
| `TasServerProofs` | its theorems |
| `ThymeMqtt` | the MQTT build: `ThymeRegistration` behind a broker |
| `MCThymeMqtt` | its small instance |
| `ThymeMqttProofs` | its theorems |
| `Bicycle` | the abstract guard: what it promises to those who send it modes and read its reports |
| `ParkingThread` | the three threads of parking_thread.py with the socket they share and the reports they send; implements `Bicycle` |
| `ParkingThreadProofs` | its theorems, the refinement included |
| `ParkingApp` | parking mode on the phone |
| `BikeSystem` | `ParkingApp` composed with `Bicycle` |
| `BikeSystemProofs` | its theorems |
| `BikeMap` | the map of the bicycle on the phone |
| `CombinedMode` | the turn signals with collision warning |
| `CombinedModeProofs` | its theorems |
| `NaviLights` | the turn signals on the phone |
| `ScreenProofs` | the theorems of `NaviLights` and `BikeMap` |
| `HciSocket` | scanner and BlueZ tools on the bicycle's Bluetooth controller |
| `HciSocketProofs` | its theorems |

Definitions marked "Mutant" in a module are faulty variants of the definition
after them. No specification uses them; each is what some property must refuse.

**ThymeRegistration.** One action per timer stage kind (`TickAE` for crtae and
rtvae, `TickCounted` for crtct, delsub, crtsub), per callback (`OnCrtae`,
`OnRtvae`, `OnCounted`, `OnCrtci`) and per upload. A request is a record on
`wire` until its callback runs or it is lost. An *overlap* is a tick that sends
while requests of an earlier tick are open, the case nothing in the code
prevents. `EnterCrtci` is `ready_for_notification()` with
`tas_ready.emit('connect')`: it calls `listen()` on the port, and a second call
in one process ends it (`running`). `confirmed`, `reset`, `overlaps` and
`faults` are history.

**TasServer.** A message on a connection is two parts, the second with the `}`
at which the gateway splits; `Data` takes any number of parts, as TCP may cut
the stream anywhere. `Kept` is what `buffers[this.id] = ''` leaves, `Broken` the
pieces at which JSON.parse throws, which ends the process. `Handle` is the loop:
it sets `socket_arr`, and uploads while `ready` (`sh_state == 'crtci'`), which the
registration may turn off and on at any time. An upload is in `inflight` until
the CSE stores or refuses it, in any order. `Answer` is the crtci callback: a
status on the socket the message came from, which does not say for which message;
`acks` counts those that are 2001. A `Fault` loses an answer (adn.js does not
call back after ECONNRESET) or an upload; what a dead gateway had not sent is
refused. `Notify` with `SendTas` is a notification on its way to the program
that spoke last. `acks`, `stored`, `last`, `handled` and `torn` are history.
'hello' messages, which only take a container over, are left out.

**ThymeMqtt.** Extends `ThymeRegistration` with the stage `connect` and the
broker. `ConnectTick` makes a client each second; `OnConnect` is the `connect`
event of any of them, the first or a later one: it subscribes the newest client
and sets `sh_state` to crtae in whatever stage that is. `Disconnect` loses
answers and any of the requests under way. The stages themselves are
`ThymeRegistration`'s actions, as both builds have the same callbacks but for
the statuses with which rtvae finds the AE, which are the constant `Found`.

**ParkingThread.** A step is the code of one thread between two accesses to a
variable another thread uses. Test, send and set of `transferred_info` are three
steps (`Check`, `Send`, `Mark`); `Compare` and `Remember` are the two reads of
`stop_check`. The receiver takes any number of queued messages with one recv():
two or more, or a text that is no number, end the thread. RSSI values and
distances are small sets. The sentinel `0` meets no measurement, which is a power
of ten; `Far` (100.0 in the code, both for a beacon not heard and for the one not
to watch) may: an RSSI 40 dB below the calibration value computes as exactly
100.0, a weaker one as more, and `Distances` may hold such values. `Carried`
moves the bicycle in and out of range. `GatewayEnds` is the end of the gateway,
for which `TasServer` and `ThymeRegistration` show causes: sendall() then may
still hand its bytes to the system, which loses them, or raises, and the thread
is `Ended`, at any of its uploads; the receiver reads the empty string and ends.
The programs connect once, when they start, so that nothing mends this. `strikes`,
`nearest` and `collided` are history.

**Bicycle.** The guard without its scans, baselines and strikes. A thread that
reads mode 1 is `armed`; only an armed thread begins a report of the bicycle's
whereabouts, and only when `info` is not 0 at that moment (the second test at
parking_thread.py:151); `Deactivate` needs a mode other than 1. A report begun
is stored or dropped, whatever the mode has become. `ParkingThread` implements
it with the mapping

    armed  <- the threads between their test of info and their judgement
    report <- the word of a thread about to test or send it, else "none"

so that `Check` of a word already sent is `Drop`, `Send` is `Store` or `Drop`,
and scans, strikes, baselines and marks are stutters. One step of a thread reads
`info` at most once, which makes the refinement a real one: `JudgesAnyway`, the
judgement without its second test, is refused.

**ParkingApp.** Clicks start request threads, a set from which any may be
delivered next or fail. Pollers keep the activity that started them. Only
`BikeSystem` writes `parking_state`.

**BikeSystem.** `AppDeliver` is a ControlRequest served by the CSE together with
the notification that puts the mode on the guard's socket (`Bike!Arrive`);
`BikeStep` is any step of `Bicycle`, whose `db_state` is the `parking_state` the
pollers read. `Acknowledge` is the gateway's answer to what the guard uploads when
it starts, written to the socket on which the modes come. One that comes after a
mode replaces it, and `garbled` notes that, as it notes messages lost by running
together; the text of an error in its place is lost like these. `clean` says
that at the click that began the session nothing was
left of an earlier one: no request, message, report, "stolen" or poller.

**BikeMap.** Each click on the map button starts a request and a map activity
with the same number. `Receive` is the callback that sets the static `location`
from whatever request is ready; `OnMapReady` parses it, and a null ends the
process, as does `Kill`: threads and static variable are gone, and the open
activities are made again. Locations are numbered in the order in which the CSE
stored them.

**HciSocket.** An event is a kind, the opcode it answers and, as history, the
number of the command it belongs to. `Passes` is the filter: that of
hci_send_req lets in every LE event and the number of the awaited one, so that
a connection request, which awaits LE subevent 1, also lets in an inquiry's end,
which is event 1. `Read` is one round of `while (try--)`; time is counted in
the tens of milliseconds that each event takes off `to`, and `to = 0` waits for
ever, as in the code. The scanner is parse_events with `LoopCount` packets; it
sends its command without waiting for the answer, and a connection event ends
it. Three kinds of commands stand for all: `scan` (answered by completion),
`connect` (status, then an LE event) and `link` (status only, as amptest.c).

**CombinedMode.** A step is a group of GPIO operations. The sides are the
elements of `Sides`, so that lamp and sensor are of a side and rear lamp, buzzer
and uploads are shared. A missed echo leaves `distance` as it was, or unbound,
which ends the thread; an absent one hangs it. When the gateway has ended
(`GatewayEnds`), `UploadRaises` ends the thread at any upload: at the top of its
loop (`dead`), or between turning the buzzer on and off (`cut`).

**NaviLights.** One side, as the other is the same code with its own variables.
`poller` names threads; a failed poller starts a new one and ends. `blink`
follows the three separate reads of `left_check`. `queue` is the UI thread's. The
code's `sendMessage` never waits; `MaxQueue` bounds how far the UI thread is
behind, and a blinker of the model waits there.

The modules meet at the CSE. `BikeSystem` composes the two sides of parking mode.
Its environment gives the guard the messages `ParkingThread` gets (modes and one
acknowledgement) and leaves every step of `Bicycle` to it, so that what holds
there of application and abstract guard, as far as safety goes, carries over to
application and threads, which implement the guard. That last composition is
an argument, not a theorem: `GuardImplementsBicycle` is about the threads alone,
and the `db_state` "none" with which they start stands for whatever an earlier run left
at the CSE. The stored state of `ParkingThread` is that of one step; that two
uploads may be stored in the other order is a step of `TasServer` (`CseStores`).
That the gateway ends is, for `Bicycle`, one more reason why messages are garbled
and reports dropped, so that `BikeSystem` covers it; and for the application, which
talks to the CSE, it is none.
`CombinedMode` writes the signals `NaviLights` polls, and each models the other
as the most general process of that kind. `ThymeMqtt` is built on
`ThymeRegistration`, in the model and in its proofs.

## 3. Runs

| run | question | bounds |
|---|---|---|
| `registration` | `RegisteredBeforeUpload`, `CrashHasCause`, `StageOrder`, and `EventuallyUploads` under fairness | 2 containers, 1 subscription, 2 overlaps, 2 faults |
| `tas` | `EachOnce`, `AcknowledgedIsStored`, `LastSpeakerHears`, `TornIsFatal` | 2 connections with 2 messages each, 1 container, 1 fault, 1 command |
| `mqtt` | `OneSubscriber`, `MqttCrashHasCause`, `MqttRegistered`, `MqttUploads` | 2 clients, 2 containers, 1 subscription, 1 overlap, 2 faults or broken connections |
| `parking` | the report cache, baseline and strikes in every interleaving; `ImplementsBicycle` | 1 RSSI, distances 99.6 m and 100.1 m (on either side of the sentinel, and more than 0.3 m apart), 2 commands, 0 lost uploads before the gateway ends |
| `parking_live` | `AlarmSounds`, `BeaconLossReported`, `DeactivationReported` | 1 distance, 1 command, 1 lost upload, the end of the gateway |
| `parking_cache` | violated: `transferred_info` is what the database has | 2 commands |
| `parking_realtime` | violated: a mode that stays reaches the threads | 2 commands |
| `bike` | `LastClickWins`, `AlarmOfThisSession`, `GuardFollowsButton`, `TheftNotified`, `PollersEnd`, `ModeArrives` | 2 activities, 2 clicks, 1 error |
| `map` | `FreshMap`, `KnownStaysKnown` | 3 clicks, 3 locations, 1 kill |
| `lights` | `NothingLeftOn`, `WarnsUnlessSilenced`, `SignalOffReported` | 2 sides, 1 lost upload, 2 missed echoes, the end of the gateway |
| `navi` | `OnePollerEach`, `NeverBackwards`, `WhiteBetween`, `EndsWhite`, `BlinksOn` | 2 activities, 1 change, 1 error, 1 UI message behind |
| `hci` | `OwnAnswer`, `NotStarved`, `StaleIsLeftover`, `Returns` | 1 tool and the scanner, 2 commands, 3 tries, timeouts 2 and 3, 1 event nobody asked for, scans of 2 packets |

Types are not checked by these runs: where a proof module exists it proves them
for every instance.

Why the bounds are enough. Two containers are the fewest for which one answer
can be counted for another. One overlap mixes the answers of two rounds, and the
second lets the gateway enter `crtci` twice. Two changes of
mode give a session after a session, and two messages in one recv(). Two distances
farther apart than the tolerance tell a moved bicycle from one in place; with one
on either side of 100 m and the beacons not heard, which come from `Samples`, a
session meets every order of two beacons and the sentinel. `MaxDrops` bounds only
uploads lost without a word; that the gateway ends and sendall() raises has no
bound. Two activities give a poller that outlives its
own. Two messages of a connection are the fewest of which a chunk can hold one
whole and the head of the next; containers do not share state in `TasServer`,
so one with two programs is enough. Two clients give an older one whose handler
subscribes the newer. Two clicks are parking mode on and off again, or on twice
with a rotation or a failed request between; which session a theft belongs to is
decided within the second. Three clicks on the map let two requests overtake a
third. In `hci` the tool's second command meets the late answer of the first,
the scanner's own `scan` command is a rival to the tool's, and timeouts on
either side of the number of tries give a `to` that lasts and one that runs
down; with the real ten tries only more events of the same kinds are read. A second
tool is too many states for TLC; the three safety properties are proved for any
number of tools. Two sides are the real number. One change at the server lets pollers of two
activities store an old and a new signal in either order. The safety theorems
below hold for all values of these constants.

CHECK_DEADLOCK is off where a bounded instance may stop: the gateway's process can
die (`registration`, `mqtt`, `tas`), the bicycle's threads can (`parking`), a hung sensor or a raised exception stops a thread (`lights`), and clicks
and commands run out (`map`, `hci`). It is on in `bike` and `navi`, where something can always
happen.

What the violated runs show (PROJECT.json "findings" quotes the comments):

- `parking_cache`: the finder sends "safe" while the condition thread is
  between its send and its mark. The mark then hides the state at the server,
  and the next report of that word is not sent.
- `parking_realtime`: two commands in one chunk, or an acknowledgement that is
  no number, end ModeCheck. The mode at the server no longer reaches the threads.

What the passing runs say of conditions: properties such as
`RegisteredBeforeUpload` (`overlaps = 0`), `CacheRightIfAlone` (`~collided`),
`LastClickWins` (`~overtaken`), `GuardFollowsButton` (`~garbled`), `AlarmOfThisSession` (`clean`), `FreshMap`
(`~inHand`), `OwnAnswer` (`rival`), `EachOnce` (`torn = {}`), `OneBeaconWatched`
(`nearest # 0`: a beacon nearer than 100 m), `AlarmSounds` and `NothingLeftOn` (no
thread ended sending to a gateway that is gone) name the situation in which the
code keeps its promise, and outside it the code does not. `AcknowledgedIsStored`
turns this round: uploads are dropped, refused and reordered, and it says what a
program could still conclude from its answers, which the programs here do not read.

## 4. Fairness

- `ThymeRegistration`: `setInterval` keeps ticking and the event loop runs every
  callback whose answer has come; the CSE serves a request that is not lost.
  Losses are not fair and are bounded by `MaxFaults`.
- `ThymeMqtt`: as above, and a client that reconnects succeeds at last; broken
  connections are not fair and are bounded by `MaxFaults`.
- `TasServer`: bytes that were sent arrive. Nothing else is assumed.
- `ParkingThread`: the interpreter runs each thread that can run, recv() returns
  when there is data, and a scan in range ends. Commands, drops and the rider
  have no fairness.
- `ParkingApp`, `NaviLights`: started threads run, the UI thread handles its
  queue, and a request ends with an answer or an exception. Clicks, rotations and
  the bicycle have no fairness.
- `BikeSystem`: as `ParkingApp`; a ControlRequest that does not fail is served,
  and the guard takes what is on its socket. Nothing is assumed of what the guard reports.
- `HciSocket`: a tool that has something to read reads it, and poll() gives up
  when its time is over. Nothing is assumed of controller, air or scanner.
- `BikeMap` states no liveness and assumes none.
- `CombinedMode`: both threads run. That an echo comes is *not* assumed: `Hang`
  needs no fairness to happen, and what a hung thread promises is excluded by
  the property.

Weak fairness suffices throughout: a step that can be taken stays possible until
it is taken, or until another step of the same group takes its place.

## 5. Proofs

All theorems hold for every value of the constants that satisfies the modules'
ASSUME (finite, disjoint resource sets; natural bounds; positive distances). Each proof module has `Init => IInv`, one lemma per group of actions for
`IInv /\ [Next]_vars => IInv'`, and the consequences by PTL.

- `ThymeRegistrationProofs`: `RegisteredBeforeUpload` is not inductive: that the
  counters are equal says nothing until they are tied to the requests. `IInv`
  adds, while no tick overlapped, that the open requests are those of one tick and
  one stage (`WireInv`), that `return_count` is the number of targets confirmed
  and that open requests are not among these (`CountInv`), and that confirmed
  targets exist at the CSE (`CseInv`). The step from equal counters to "all targets" is
  `CountedAll`. `ProcessInv` gives `CrashHasCause`; `StageOrder` follows from the
  same invariant.
- `ParkingThreadProofs`: `CacheRightIfAlone` needs `TurnInv` (who is between
  send and mark), `TheftNeedsThreeStrikes` needs that the code's count never
  exceeds the strikes that happened (`StrikeInv`), and `BaselineKept` needs
  that a session that has its choice has a distance for the beacon it watches
  (`BaselineSet`), also where `OneBeaconWatched` lets it watch the wrong one.
  `WatchTakes` and `WatchKeeps` say what the first and the later judgements of a
  session do to the baseline, over all sets of distances.
  `GuardImplementsBicycle` shows every step of the threads to be a step of
  `Bicycle` or a stutter; it needs `HandInv`, that a thread testing or sending
  has a word in hand, and the invariant for what a thread may be about to send.
- `ThymeMqttProofs`: `OneSubscriber`, for any number of clients, from the
  invariant that only the newest client is subscribed and none is in stage
  `connect`. The second part is why no client is made after a subscription; it
  needs the lemma that no callback leads back to `connect`. The stages are not
  proved again: a reconnection does to them what a 5000 does in the HTTP build,
  so `ThymeRegistrationProofs` is instantiated with `reset <- reset \/ connects > 0`,
  and its step lemma `NextInv` carries all of them. `MqttCrashHasCause` and
  `MqttRegistered` follow.
- `BikeSystemProofs`: `AlarmOfThisSession` needs to say where a theft of the
  session before could still be, and that it is in none of these places
  (`AlarmInv`); `LastClickWins` that requests which never met carry the
  button's mode (`ClickInv`). `GuardFollowsButton` spans button, request, CSE,
  socket and guard: to `ClickInv` it adds that the last message on the guard's
  socket, or what the guard has taken if there is none, is the server's mode
  once a click has got through (`ComingInv`). An acknowledgement keeps that only
  where no mode came before it, which is why `garbled` must count the others.
- `ScreenProofs`, of the map: `FreshMap` needs that every answer in hand is as new as every
  click it was not in hand at (`Newer`); `KnownStaysKnown` that a set location
  is known (`Known`).
- `HciSocketProofs`: `OwnAnswer` needs that without a rival every command,
  connection and queued event that looks like the answer is the request's own
  (`ClearInv`), for any number of tools and any timeouts. `NotStarved` needs
  that command numbers are unique, that a status comes once, and that it is the
  only event of its own command that can cost a request a try (`TriesInv`).
  `StaleIsLeftover` needs that the scanner's filter is closed between scans, so
  that its queue stays as the last scan left it (`ScanInv`).
- `ScreenProofs`, of the turn signals: `WhiteBetween` needs the colours still in the UI thread's
  queue to alternate (`Alternating`); `NeverBackwards` that one activity has one
  poller, whose reading lies between the stored and the server's signal
  (`OnePoller`). `OnePollerEach` counts: a failing poller and the one that
  replaces it exchange places in a finite set (`AsManyAsScreens`).
- `TasServerProofs`: for any number of connections, containers and messages.
  `EachOnce` says how many messages are taken up, which is not inductive: what
  matters is where in a message the unparsed text of a connection begins.
  `TextInv` says it begins with message `Len(handled) + 1` (`Whole`), its parts
  opening and closing in turn, or, once a tail was lost, inside a message
  (`Headless`). The lemmas above it say what a text of either kind holds: the
  places of its `}` are the even numbers, none of its pieces is broken, and its
  lines are the next messages in order (`WholeLines`); a headless one is broken at its
  first piece (`HeadlessLines`). `DataText` follows a chunk of any length through
  `Kept`, `Lines` and `Parse`: it cuts the text between two messages, inside
  the first one, or after a whole one inside another, the one way from `Whole`
  to `Headless`. `AcknowledgedIsStored` compares two numbers, of answers and of
  messages sent, with a set: it needs that no upload is both under way and stored,
  that what is either was taken up and is found in `handled` under its number, and
  that no connection has more answers than stored messages (`UploadInv`). As many
  answers as messages then leave no number out (`StoredNumbers`). `LastSpeakerHears`
  needs that the socket of a container is that of its last message (`OwnersInv`),
  which again needs that the lines of a connection's text are its own.
  `TornEndsGateway` is the step on which `TornIsFatal` rests.
- `CombinedModeProofs`: `TypeOK`, `WarnsUnlessSilenced` and, part by part, that
  the buzzer (`BuzzerOwned`) and the rear lamp (`RearOwned`) have a thread that
  turns them off or, for the buzzer, one that ended in its warning, are inductive
  together, for any number of threads sharing them; `NothingLeftOn` follows.

Only model-checked: every liveness property (`EventuallyUploads`, `AlarmSounds`,
`BeaconLossReported`, `DeactivationReported`, `TheftNotified`, `PollersEnd`, `ModeArrives`,
`SignalOffReported`, `EndsWhite`, `BlinksOn`, `MqttUploads`, `TornIsFatal`, `Returns`), as TLAPS does not
reason about fairness here. Every other property of the passing runs is proved.

## 6. Not modelled

- BlueZ 5.19 is vendored whole (src/raspi/bluez, nearly all C of the
  repository): daemon, tools, Android port, monitor. No program here talks to
  its daemon. What the bicycle shares with its tools is the controller, and that
  is `HciSocket`: `hci_send_cmd`, `hci_send_req` and the filters of lib/hci_lib.h.
  So the share of the repository's C that is modelled is small and stays so.
  The answer to a remote name request (hci.c 1198-1210) is left out.
- Byte parsing (advertisements in blescan.py, the three notification formats,
  XML and JSON bodies), the T map user interface, login and sign-up,
  node_modules. Time is not modelled but in `HciSocket`: a sleep is a point
  where other threads run.
- The CoAP build, which conf.json does not select; mpu6050.py, which prints
  angles nobody reads; driving_thread.py, an earlier combined_mode.py, but for
  its taking a container over (`LastSpeakerHears`).
- That "nobeacon" may be reported although an advertisement came between the
  comparison at parking_thread.py:77 and the read at line 87: `ParkingThread`
  has both reads as steps, and no property forbids what the code accepts of any
  beacon at rest.

## 7. What is left

1. `Mpu6050`: two's complement words as operators over 16 bits.
2. The CoAP build, as `ThymeMqtt` is built on `ThymeRegistration`, and the
   lamps of driving_thread.py on those of `CombinedMode`.
3. `TasServer` between `ParkingThread` and `BikeSystem`, so that reordered
   uploads reach the pollers.
4. `BikeSystem` with the three threads in place of `Bicycle`, and the theorem that
   it implements `BikeSystem`.
