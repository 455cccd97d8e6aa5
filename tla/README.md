# TLA+ models of the k6 scripts in this repository

The repository's `src/` holds k6 scripts. Only one of them keeps protocol
state of its own: `src/script.js`. It defines `class Channel`, a client for
Phoenix-style topic channels over one websocket. Each frame it sends is the
array `[join_ref, ref, topic, event, payload]`. Replies are matched to
callbacks by `ref`. Frames without a ref go to a broadcast callback. The
other scripts are load profiles and end-to-end tests of the k6 operator. They
hand their data to k6 or to the `k6/x/environment` extension.

## Inventory

### Components

| Component | Source | State | Operations |
|---|---|---|---|
| Envelope codec | `script.js` `_send` (120-132), `_parseMessage` (134-143) | none | encode the 5-array with refs as `toString()` strings; destructure a decoded array |
| Ref allocator | constructor (75-76), `_send` (131) | `messageRef` (seed 5, +1 per frame), `joinRef` (fixed 5) | allocate on every `_send` |
| Callback registry | `this.callbacks` (73, 130, 90) | ref string to callback | register in `_send`; look up in the message handler (never removed) |
| Channel connection | `join` (80-102), `leave` (104-106), `send` (116-118) | `this.socket`, the k6 event loop | connect, `open` (send `phx_join`), `message` (dispatch), `close` (log), `leave` (`socket.close()`) |
| VU script | `default` (18-40), `createChannel`, `joinChannel` (42-65) | `res1`, the `websocket_connections` counter | join; the join callback sends `new_message`; its callback calls `leave`; check status 101 |
| HTTP load profiles | `launch_screen.js`, `matchday-widget.js`, `pusherino.js` | none of their own; k6's VU pool | a `ramping-arrival-rate` scenario (start rate, stages, `preAllocatedVUs`, `maxVUs`); one GET and a status check per iteration |
| e2e load scripts | `e2e/test.js`, `e2e/tests/cloudoutput_fail.js` | none | `ramping-vus` stages; one GET and a check per iteration |
| Abort / delayed-runner tests | `e2e/tests/abort-all.js`, `e2e/tests/one-runner-delayed.js` | k6 execution state | abort the test after half its progress with probability 1/2; instance 1 sleeps 60 s in its first iteration |
| Operator e2e tests | `e2e/*/test.js`, `samples/*/test.js` | the TestRun custom resource, pods | `apply`; `wait` polls a stage with an interval and a timeout; `getN` counts pods; `fail` |

### How the parts interact

k6 runs a VU's JavaScript on one event loop. `ws.connect` opens the socket and
runs the setup function, which stores the socket and installs the handlers.
It then fires `open`. After that it dispatches one socket event at a time,
and it returns only when the connection is closed. So `channel.join(...)`
blocks for the whole session, and `res1` is seen only after the socket has
closed.

The callbacks are called from the `message` handler:

- the join callback sends `new_message`;
- the `new_message` callback calls `leave()`, which closes the socket.

The server is outside this repository. It reads frames in order and answers
each request with a `phx_reply` that carries the request's `join_ref` and
`ref`. It may also:

- push broadcasts with null refs;
- stop the channel with `phx_close`, which carries the join's `join_ref` as
  its `ref`;
- drop the connection.

### What is hard

- **Duplicated correlation.** Callbacks are never removed, and `joinRef` is
  equal to the first `messageRef`. A `phx_close` therefore runs the join
  callback a second time.
- **Unknown refs.** A ref with no callback calls `undefined`. The TypeError
  ends the iteration.
- **Close races.** `leave()` can close the socket while other requests are
  pending. k6's loop may dispatch one more frame that the reader already
  holds. A drop by the server leaves pending callbacks unanswered.
- **No timeout.** Nothing closes the socket if the server does not answer.
- **Join status ignored.** A rejected join still sends `new_message`.
- **Polling a moving target** (e2e tests). `wait` samples a stage at an
  interval. Transient stages can be missed, and resources can be deleted
  between polls. A fixed `sleep(10)` stands in for waiting on the operator's
  bootstrap.

### What makes each component correct

| Component | What must hold |
|---|---|
| Codec | The key under which a callback is registered is the one parsed back from an echoed frame. Distinct refs give distinct keys. |
| Registry and allocator | A callback runs only for its own request (correlation), and at most once. No server frame makes dispatch throw. |
| Connection | Every pending callback is answered or cancelled when the socket closes. Events are sent only on a joined channel. The iteration ends. |
| Load profiles | The pool may grow to `maxVUs` but no further: at the peak stage, with requests held to their timeout, it must not run out. |
| e2e tests | `wait` succeeds exactly when the stage is observable at a poll. Pod counts are read when they are stable. |

## Modules

- `Envelope.tla` covers the codec. `ToDecimal` is `Number.prototype.toString`
  on refs (RECURSIVE). `Encode` is the array `_send` writes. `ParseMessage`
  is `_parseMessage`, with `undefined` for missing positions. `IsNullish` is
  `ref != null`, and `RefKey` is `ref.toString()` on the echoed string. JSON
  text layout is abstracted: an array is a tuple.
- `Channel.tla` is the client and its server environment. These are its
  variables:
  - `phase`: where `ws.connect` is (`constructed`, `connected`, `closed`,
    `returned`, `failed`, `aborted`);
  - `messageRef` and `callbacks`: the fields of the same name;
  - `conn`: the connection;
  - `lateSlot`: whether one frame may still be dispatched after a local close;
  - `written`: the history of frames the client wrote, each with the callback
    registered for it and the join status it was sent under;
  - `toClient`: server frames in flight, each tagged with the index of the
    request it answers (0 for none);
  - `srvRead`, `srvChan`, `srvJoin`, `pushes`: server state;
  - `invoked`: the history of callback runs;
  - `broadcasts` and `connections`: counters.

  Each client action is one k6 dispatch plus the whole handler it runs:

  | Action | What it models |
  |---|---|
  | `Connect` | handshake, setup, `open` → `_send("phx_join")` |
  | `ConnectFail` | `res1` null: the check fails |
  | `ReceiveReply` | `message` with a registered ref; `Invoke` runs `JoinCallback` (→ `SendFrame`) or `SendCallback` (→ `Leave`) |
  | `ReceiveBroadcast` | `message` with a null ref |
  | `ReceiveUnknownRef` | `message` whose ref has no callback: TypeError |
  | `OnClose` | the connection goes down under the client |
  | `Return` | `ws.connect` returns 101; the check passes; the counter +1 |

  The server actions are the environment and are not mapped to code:
  - `SrvReceive` answers a join with ok or error. It answers an event with a
    reply, with no reply, or with the "unmatched topic" error.
  - `SrvPush` sends a broadcast.
  - `SrvStop` sends `phx_close` with the join ref.
  - `SrvStray` sends a frame whose ref names no request.
  - `SrvDrop` drops the connection.
- `ChannelSpec.tla` is the channel `spec.md` promises, written from the
  spec. Requests are numbered in issue order. Each one is answered once by
  its reply or cancelled by the close. The handler a reply runs may send one
  request (only on a joined channel) or leave, which cancels what is
  pending.
- `MCChannelRefines.tla` maps `Channel` onto `ChannelSpec`:
  - the state comes from `phase`, and a channel is joined once the join
    callback has run;
  - the requests are the written frames, and a request is answered when a
    callback ran for it;
  - the cancelled set is empty, because the code never cancels.

  It checks `Refinement == Abs!Spec`.
- `LoadScripts.tla` holds the three load scripts as data:
  - `LaunchScreen`, `MatchdayWidget`, `Pusherino` are `options.scenarios.contacts`;
    a duration string such as `'4m'` is the record `Minutes(4)`;
  - `LaunchScreenDefault` and the others are the default functions, as the
    list of requests one iteration makes, each under k6's default 60 s
    timeout (no params are passed).

  The comments above the stages ("300 iterations per timeUnit for the first
  minute", …) were written for other numbers. The model follows the code.
- `LoadProfile.tla` is k6's `ramping-arrival-rate` executor running those
  scenarios side by side, one second per `Tick`. It is the environment and is
  not mapped to code:
  - the rate moves linearly between stage targets from `startRate`;
  - the iterations due in a second are the integral of the rate over it,
    computed exactly (rates scaled by the least common multiple of the stage
    durations, the remainder kept in `carry`);
  - an iteration holds a VU for `Occupancy` seconds, its requests' timeouts;
    `window` keeps the starts of the last `Occupancy` seconds and `busy` their sum;
  - an iteration that finds no idle VU is dropped (`dropped`) and asks for
    one more VU, which exists from the next second, unless `maxVUs` exist
    already (`insufficient`, k6's "Insufficient VUs").
- `TestRunEnv.tla` is the cluster under the operator e2e tests. It is the
  environment and is not mapped. It holds one TestRun and the count of its
  pods. After `Apply` the operator `Advance`s the TestRun through
  initialization, initialized, created, started, stopped and finished. The
  initializer pod appears at initialization, the runner pods at created and
  the starter pod at started. With `cleanup: post` it `Delete`s the finished
  TestRun and then `Collect`s its pods. This is what the tests' checks and
  comments expect of the operator. A healthy operator keeps every step within
  a deadline: `BootMax` from apply, `StageMax` per step, and `RunMin` to
  `RunMax` seconds in started. `OnTime` forbids a `Tick` past a deadline.
  `WaitResult` and `NextRead` are `env.wait` of xk6-environment as the
  scripts use it. It reads at the call and then every interval. It returns
  null when the stage matches and "context deadline exceeded" once the
  timeout has passed. Any other read, including one of a deleted TestRun,
  is retried.
- `CleanupTest.tla` is the default function of
  `samples/testrun-cleanup/test.js`:
  - `ApplyTestRun`: apply, then `sleep(10)`;
  - `CountAfterBoot`: `getN` must be at least 1, then `env.wait` starts;
  - `WaitPoll`: one read of the wait. It returns null on `finished` and
    "context deadline exceeded" at 2 m; otherwise it reads again 1 s later;
  - `CheckNoPods`: both results are accepted, and then `getN` must be 0.
- `CloudOutputTest.tla` is the default function of
  `samples/testrun-cloud-output/test.js`, against a TestRun without cleanup:
  - `ApplyTestRun`: apply, then the wait for `started` (1 m, every 10 s);
  - `WaitStartedPoll`: one read of that wait. Any error fails the test;
  - `CountAll` and `CountRunners`: the two `getN` calls are two separate
    reads. The check needs 4 runner pods and all pods equal to runners + 2;
  - `WaitFinishedPoll`: one read of the wait for `finished` (5 m, every
    10 s). Any error fails the test.

  Script steps take no time. The operator's steps interleave with them
  within a second, and `Tick` advances the clock while the script sleeps or
  waits.
- `MCChannel.tla` and `MCLoadProfile.tla` instantiate the
  modules for TLC.

### Fairness

These actions are weakly fair:

- connect-or-fail: k6 completes or fails a handshake;
- the three receive actions: the event loop dispatches every frame it has
  read;
- `OnClose` and `Return`: a closed connection ends the loop;
- `SrvReceive`: a live server reads what was written to an open connection.

The server's pushes, stops, stray frames and drops get no fairness. They are
its choice.

## Runs

| Run | cfg | Expect | What it shows |
|---|---|---|---|
| `channel_safety` | `MCChannel.cfg` | pass | `TypeOK`, `ReplyCorrelation`, `NoHandlerCrash`. Every behaviour of the server is enabled except stray refs, `noreply` included. |
| `channel_liveness` | `MCChannel_live.cfg` | pass | `IterationEnds`. The server replies to every event and may send stray refs. |
| `channel_refines` | `MCChannelRefines.cfg` | pass | `Refinement`. The server accepts the join, pushes up to 4 times, and may leave events unanswered. It never stops the channel and never drops the connection. Under these conditions the client implements `ChannelSpec`. |
| `load_capacity` | `MCLoadProfile.cfg` | pass | `TypeOK`, `NeverInsufficientVUs`: the three scripts over their 12 minutes, every GET held for its full 60 s timeout. No iteration is ever dropped for want of room under `maxVUs`. |
| `channel_once` | `MCChannel_once.cfg` | violation | `AtMostOnce`: `phx_close` re-runs the join callback. |
| `channel_pending` | `MCChannel_pending.cfg` | violation | `NoSilentPending`: TLC's trace drops the connection right after `phx_join`, and the join callback never runs. The server may also stop the channel, so the run also holds a socket left while a second `new_message` is unanswered. |
| `channel_joinok` | `MCChannel_joinok.cfg` | violation | `SendOnlyAfterJoinOk`: a rejected join still sends. |
| `channel_stray` | `MCChannel_stray.cfg` | violation | `NoHandlerCrash`: an unknown ref throws instead of going to the broadcast callback. |
| `channel_noreply` | `MCChannel_noreply.cfg` | violation | `IterationEnds`: an unanswered event hangs the VU. |
| `load_drops` | `MCLoadProfile_drops.cfg` | violation | `NoDroppedIterations`: with every GET held to its timeout, matchday-widget drops iterations from 266 s on, in the stage-2 ramp, while k6 grows its pool past 2000. |
| `cleanup_race` | `CleanupTest.cfg` | violation | `NoSpuriousFail`: the cleanup sample fails against a healthy operator. |
| `cloud_output` | `CloudOutputTest.cfg` | pass | `NoSpuriousFail`: against a healthy operator whose k6 run keeps the TestRun in `started` for at least 11 s, both waits succeed and both pod counts agree. With 10 s a read can miss `started`. |

The load model is deterministic: one behaviour of 721 states, one per
second. Its last state gives the pool it needed. These are the figures when
every GET is held to its timeout:

| Script | VUs initialised | `maxVUs` | Iterations dropped while the pool grew |
|---|---|---|---|
| `launch_screen` | 585 | 1000 | 485 |
| `matchday-widget` | 5160 | 10000 | 3160 |
| `pusherino` | 6126 | 15000 | 3126 |

A `maxVUs` equal to `preAllocatedVUs` (the `LaunchScreenNoScaling` mutant)
runs out.

`ReplyCorrelation` and `NoHandlerCrash` hold in the code for a reason the
code does not state: both seeds are 5. A `phx_close` keyed by the join ref
therefore finds the join callback. A seed one higher makes it throw (the
`MessageRefSeedShifted` mutant). A `_send` that does not advance
`messageRef` sends `phx_close` to the `new_message` callback (the
`SendFrameNoAdvance` mutant).

### Bounds

The model is one VU iteration with one topic. The server sends at most
`MaxPushes = 2` unprompted frames. Stray refs are "4" (below the seed) and
"12" (beyond any ref issued). The session is finite without further bounds:
the join callback runs at most twice (the reply and `phx_close`), so at most
three frames are written. Two unprompted frames are enough to place a
broadcast before, between and after replies, and after a local close.

The load model needs no bounds. It runs the scripts' own 12 minutes second
by second, with their own rates and pool sizes. Only the request time is
chosen: the 60 s timeout, the worst case.

The cleanup model's bounds are durations the repository does not fix:

- 9 s for the operator to create the initializer pod, just inside the
  script's 10 s sleep. With 10 s or more, the pod can appear in the same
  second as the count after the sleep, and TLC finds the test failing
  there too;
- 3 s for each later step;
- a k6 run of 20 to 30 s.

With these bounds the whole run ends well inside the 2 m wait, so the
operator is healthy by the test's own standard. The violation needs only
that `finished` lasts for one read. Any `StageMax` of at least 1 s gives it.

The cloud-output model uses the sample's 4 runners and no cleanup, with the
same 9 s boot and 3 s steps, and a k6 run of 11 to 30 s. Every stage up to
`started` fits inside the 1 m wait, and the run ends inside the 5 m wait.
The lower bound 11 s is the least for which the run passes. The reads of
the `started` wait are 10 s apart, and the operator may advance within the
second of a read after the read has been made. So a TestRun that stays in
`started` for 10 s can be missed, and with `RunMin = 10` TLC finds the wait
timing out. The poll interval of the sample is therefore a claim about the
duration of its k6 script.

## Findings

The testrun-cleanup sample is flaky against a correct operator. The comment
before its error check accepts two results of `wait()`: it catches
`finished`, or the TestRun is deleted between reads. The pod count that
follows expects 0. Cleanup deletes the TestRun only after `finished`, and
the pods after the TestRun. So when `wait()` reads `finished`, which it does
whenever the TestRun stays finished for longer than the 1 s interval,
`getN` still counts every pod and `fail()` runs. TLC's trace: the run
finishes at 20 s, the read at 20 s sees `finished`, and 4 pods are counted.

The load scripts lose iterations while their pools grow. The comments on
`maxVUs` say it is there to scale "if needed" or "as needed". But k6 drops
each iteration that finds no idle VU while it initialises a new one. With
GETs held to their 60 s timeout, matchday-widget runs out of its 2000
preallocated VUs at 266 s, during the ramp to 2700 per minute and before
the peak stage. The three scripts drop 485, 3160 and 3126 iterations, so
the profile does not run at the configured rate. `NeverInsufficientVUs`
still holds: `maxVUs` itself is never reached.

The other five violation runs each compare the code with `spec.md`; PROJECT.json
lists them:

- callbacks are neither removed nor drained;
- the join status is ignored;
- an unknown ref crashes the iteration instead of reaching the broadcast
  callback;
- there is no timeout, so an unanswered event hangs the VU.

## Not modelled, and why

- `setInterval` and `setTimeout` are timer wrappers that the script never
  calls.
- Ping, pong and the `close` log are logging only.
- JSON text layout is not modelled. Payload contents are opaque to the
  client.
- The k6 test-duration stop, which cancels a hung `ws.connect` at the end of
  the stage, is not modelled. `IterationEnds` asks whether the script ends
  on its own.
- In the load model, response times are not modelled. Every GET holds its
  VU for the full timeout, the most it can. A VU that k6 initialises
  mid-test is ready the next second. The HTTP check changes no state.
- The `options.stages` of `script.js` (ramping VUs up to 100000) and the e2e
  load scripts `e2e/test.js` and `cloudoutput_fail.js` configure
  `ramping-vus`. That executor keeps a fixed number of VUs per second and
  drops nothing, so these scripts make no claim the model could check.
- Of the operator e2e tests, the cleanup and cloud-output samples are
  modelled. The others (`testrun-archive`, `testrun-simultaneous`,
  `testrun-watch-namespace`, …) wait for a stage and count pods in the same
  way, so a run of them would repeat these two. Their outcome turns on the
  duration of the k6 script each TestRun runs, which is set in manifests
  outside the scripts. The cloud-output run therefore states the duration
  it needs (at least 11 s in `started`) instead of assuming one. Whether the
  starter pod exists by `started` is taken as the test expects, because the
  order in which the operator creates pods is not in the repository.
  `testrun-simultaneous` waits for `finished` on two TestRuns without
  cleanup, in a random order that its comment says "shouldn't matter".
  `finished` is the last stage there, so the second wait reads it at once.
  Under the `env.wait` of `TestRunEnv` (reads every 1 m, deadline at 5 m)
  the order matters only for a run that finishes in the last minute before
  the first wait's deadline. That turns on the same unknown durations, so
  it is noted here and not checked.
- `abort-all.js` and `one-runner-delayed.js` call k6's execution API with no
  state of their own. What they exercise is the operator's handling of an
  aborted or late runner, which is outside the repository. (The abort fires
  with probability 49/100, not 1/2: `Math.floor(Math.random() * 100) > 50`.)
- The refinement has no liveness half and no broadcast path:
  - `IterationEnds` and `NoSilentPending` already state, on the code, that
    requests are answered or the socket closes.
  - A broadcast dispatched after a local close (k6's late dispatch) would be
    the only difference on the broadcast path. That depends on the k6
    runtime, not on this code.
- The k6 runtime behaviour assumed here:
  - a handler that throws ends `ws.connect` with the exception;
  - a write on a closed socket is reported as an `error` event, and the
    script has no handler for it;
  - one already-read frame may be dispatched after a local close.

## Plan

1. Done: `Envelope` and `Channel` with the server environment, the safety,
   liveness runs, and the five divergence runs. The codec is checked through
   the channel runs; a check of `ToDecimal` against a second digit model
   would only test the model of a JS builtin.
2. Done: `ChannelSpec.tla` and the `channel_refines` run. See "Not modelled"
   for why the refinement stops there.
3. Done: the HTTP load profiles (`LoadScripts`, `LoadProfile`).
4. Done: the operator environment (`TestRunEnv`), the cleanup sample
   (`CleanupTest`) and the cloud-output sample (`CloudOutputTest`).
5. Open: the `ramping-vus` options of `script.js` and the e2e load scripts,
   if a property about them appears. An example: the websocket
   connections held open at the 100000-VU stage when `IterationEnds` fails.
