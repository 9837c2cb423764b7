# A specification of Copa+

TLA+ models, TLC runs and TLAPS proofs of the user-space congestion-control
sender in `src/User-space/copaP` (Copa, Copa+ and two older controllers, on UDP)
and of the modes of Copa+ in its ns-3 version, kept beside the code.
Unless a path says otherwise, file names below are relative to that directory;
`README.md:n` in a module's comment is the README of that directory.

Contents: [the system](#1-the-system), [the modules](#2-the-modules),
[the runs](#3-the-runs), [fairness](#4-fairness), [the proofs](#5-the-proofs),
[what the runs found](#6-where-the-code-and-its-text-disagree),
[what is not modelled](#7-what-is-not-modelled), [what is left](#8-what-is-left).

## 1. The system

A sender process starts one or more threads, each with a `TrafficGenerator` that
switches a flow on and off. When a flow is on, `CTCP<T>::send_data()` runs the
flow over one UDP socket: a handshake of one probe and its echo, then a loop that
sends while the window and the pacing interval of a congestion controller `T`
admit it, polls the socket, and hands each echo to the controller. The receiver
echoes every datagram. Everything a flow does happens in one thread; concurrency
is between the sender, the receiver, the network and the clock.

| Component | Code | State it keeps | Operations | Talks to |
|---|---|---|---|---|
| RTT windows | `rtt-window.{hh,cc}` | four monotone deques with cached extremes, srtt | `new_rtt_sample`, `clear`, `change_window`, the getters, `is_copa` | called by both Copa controllers |
| Handshake | `ctcp.hh` 85–168 | last send time, `multi_send`, the buffer | `tcp_handshake` | socket; `set_min_rtt` of the controller |
| Packet engine (CTCP) | `ctcp.hh` 171–326 | sequence and ack pointers, last send and ack times, packets counted | `send_data` | socket; `init`, `onPktSent`, `onACK`, `onTimeout` of the controller |
| Copa (`MarkovianCC`) | `markoviancc.{hh,cc}` | packets in flight, window, delta, velocity, slow start, pacing | the callbacks above | RTT windows, `ReduceOnLoss` |
| Copa+ (`AdaptiveCC`) | `ADC.{hh,cc}` | the above, theta, competitive mode, probe cycles, an FFT of the window, loss interval | the callbacks above | RTT windows, `ReduceOnLoss` |
| Estimators | `estimators.{hh,cc}` | `ReduceOnLoss`, loss-rate and time estimates | `update`, `reset` | called by the controllers |
| Receiver | `receiver.cc` | none between datagrams | `echo_packets` | socket |
| Traffic generator | `traffic-generator.{hh,cc}` | cycle count | `spawn_senders`, `send_data` | CTCP |
| RemyCC | `remycc.*`, `memory*`, `whisker*` | send times of packets not acked, memory of the connection, a tree of learned actions | the callbacks above | — |
| DefaultCC | `congctrls.hh` | window, threshold, slow start, repeated acks | the callbacks above | — |
| Socket, options | `udp-socket.*`, `sender.cc`, `configs.hh` | — | poll, parse | — |
| ns-3 port | `NS3/ns-3.27/src/internet/model/tcp-copa.*` | window, mode, the window to regain, loss interval, RTT samples of a period | `PktsAcked`, `IncreaseWindow`, `GetSsThresh` | ns-3's TCP socket |

`User-space/copaPs` is a near copy of `copaP` with another packet size and older
controllers; the models follow `copaP`.

### What is hard about it

* **Attribution.** The handshake's replies carry no number, so that what an echo answers
  is a question of timing. A failed reception is not told apart from a datagram, in the
  handshake or later: whatever header the buffer holds, perhaps that of the packet just sent,
  is processed as an echo. An RTT attributed wrongly is kept as the minimum for good.
* **Two clocks in one loop.** The clock is read at the top of a round and again
  before the poll; intervals are added to times that are reset elsewhere.
* **Losses that are guesses.** A packet counts as lost when a later one is acked.
  Its own ack may still come, after the ack timeout has reset everything too.
* **State with several writers.** The window is changed by the target, by slow
  start and by `ReduceOnLoss` in one callback; delta twice by an ack that reveals a
  loss; the velocity outlives the window and delta it was gained with.
* **A mode that outlives its clock.** The competitive mode of Copa+ and the times it is
  decided by survive `init()`, while each flow's clock starts at 0 again.
* **Records that outlive their flow.** RemyCC never erases the record of a lost packet, and
  the number comes back in the next flow; DefaultCC's count of repeated acks survives `init()`.
* **A period that began with the simulation.** The ns-3 version leaves a competition
  with the begin of its period of samples set to 0, and learns of losses in both modes.
* **Cached extremes.** Four deques of different lengths with caches that are
  recomputed only if a test says so, under a window that may shrink at any time.

PROJECT.json lists each hazard with its line and the properties aimed at it.

### What makes each part correct

* RTT windows: each reports the exact extreme of its time window; the standing RTT is
  never below the minimum; the minimum is not forgotten early.
* Handshake: it ends; lost probes are replaced in time; no RTT below the propagation
  time is ever learned.
* CTCP: what is unacknowledged fits the window and a train; over the whole flow the pacing rate
  is kept; acks move the pointer only to what was sent; a flow
  counts its own echoes, their copies included, and no others; a flow that should end does.
* Copa: delta's inverse grows by at most one per RTT; a velocity is earned and never moves
  the window far; the pacing interval belongs to the window; no packet is lost
  twice; losses cut the window at most once per two RTTs.
* Copa+: the competitive mode is neither entered nor left too early; it is decided from
  samples of the default mode, and averages are over something; the window is cut at most once per RTT
  and the pacing interval belongs to it.
* RemyCC: each RTT is that of the packet acked; it finds a whisker for every average and ratio
  the network can make, unless echoes overtake each other or the flow outlasts the whiskers' range; until
  a failed reception misleads it, the minimum is possible.
* DefaultCC: two packets at least, and the window is halved for repeated acks only, which take a duplicate, a
  failed reception or a new flow.
* ns-3 version: the default mode lasts a period; a competition is left on losses of its
  own, for a window of its own.

## 2. The modules

### SlidingExtreme and RttWindow

`SlidingExtreme` is what one `ExtremeWindow` promises: the extreme over all
samples of a sliding time window. `RttWindow` is the code: a deque is the set of the
indices its pairs have in the list of samples (`hist`), so that "pop at the back while
beaten" and "pop at the front while old" become set comprehensions, `Pushed` and
`Aged`; `extreme` is the cache, recomputed by `AgedExtreme` under the code's
condition. `new_rtt_sample` is one action, for all four windows and in the
order of the code: srtt first, the window lengths from the new srtt and the *old*
minimum. (`change_window` belongs to the class, but no controller calls it at present.) `live`, a history variable, is what a window that drops by age alone
would hold; `ImplementsNaive` says that each of the four windows, with `live`,
implements `SlidingExtreme`. `ReadingsOrdered` is what the controllers take for granted of the getters.

### Handshake

One socket, `NumCycles` flows over it one after the other. `StartFlow` is the traffic generator
calling `send_data()`; `SendProbe` and `SkipProbe` the test of `last_send_time`;
`PollTimeout`, `ReceiveReply`, `ReceiveOther` and `ReceiveError` the four
outcomes of `receivedata()`; `Echo` the receiver; `Lose` and `Tick` the network and the
clock. Datagrams are a set with ages; only ages are kept, no absolute time, so that the state space is
finite without a bound on the clock. A data phase is abstracted to "takes what
arrives and may leave acks behind" (`DataReceive`, `EndFlow`).

### Engine and Ctcp

`Engine` is what a controller is promised by `ccc.hh` and may rely on: packets are announced one after the
other, an ack names a packet announced (it may be old, repeated, or of a packet that `init()` forgot), and
`init()` comes only after `AckTimeout` of silence. Its state is what can be counted from outside: the packets announced
(`told`), those a controller still knows (`known`), the acks since `init()`, and when the engine last heard
of one. `ImplementsEngine` says that `Ctcp` calls its controller like that, whatever the network does.

`Ctcp` is `send_data()` after the handshake. `Round`, `AckTimedOut` and `TimedOutAtEnd` are
the top of the loop, `SendPacket` the inner `while`, `StartPoll` the "Hopeless"
branch and the poll timeout, `NothingReceived`, `Receive` and `ReceiveError` the
outcomes of the poll. Each callback may change the window and the pacing interval
to any value of `Windows` and `Intersends`: the engine is checked against every
controller. `cc` is the bookkeeping of packets that the Copa controllers do in
`onPktSent` and `onACK`. A negative poll timeout is `Forever`. The two
readings of the clock in one round may be `Preemption` ticks apart. `base` is a history
variable: everything below it was acked or given up by the ack timeout; so is `cc.named`, the packet the last ack
named. With trains that is the train before the one acked (section 6), which is why the least packet an ack may name is -1
unless `train_length` is 1.

### Markovian

`MarkovianCC` against every order of acks: `Ack` picks any packet announced, also
one acked before or given up, and an RTT that fits the time the packet was sent.
`onACK` is the whole callback: `update_delta` for the ack (`ByDefault`, `ByLoss`),
`update_intersend_time` (probing, slow start, `Moved` with the velocity's `Turned`
and `Capped`), the loop over the packets skipped with a second call of
`update_delta`, and `ReduceOnLoss` (`RolAfter`, `AfterCut`).

*Readings.* The minimum and the standing RTT are any with
`min_rtt <= standing <= latest`, all of them measured (`ReadingsOrdered` of `RttWindow`; CopaFlow
has the readings themselves); whether the flow looks
like Copa's alone (`is_copa`) is any Boolean.

*Numbers.* The doubles become integers: the window in units of `1 / Unit` packet, the
inverse of delta in units of `1 / InvUnit`. Quotients are rounded down. A pacing interval is
kept as the pair (rtt, window) it is computed from, which is what
`PacedByWindow` compares.

*`ReduceOnLoss` in one step.* `onACK` calls `update()` once per packet lost and once for the ack.
The first call that makes more than `MinPkts` packets judges them and
starts the count again; `Call`, `TooMany` and `RolAfter` give the outcome of the
whole sequence of calls.

`streak` and `cuts` are history variables.

### CopaFlow

`MarkovianCC` owns its `RTTWindow`. `CopaFlow` is `Markovian` and `RttWindow` in one state: `Ack` adds the sample and
then acts on what the getters return *after* it (`M!AckReading` with `W!get_unjittered_rtt'` and so on), `init`
clears the windows. `now` of `RttWindow`, the time of the last sample, is `sample_time` here; the gap between two samples
is what the clock of `Markovian` says. `ImplementsMarkovian` is `Markovian`'s own specification: choosing readings freely
loses no behaviour of the real windows.

### ModeSwitch and Adaptive

`ModeSwitch` is what a competitive mode owes to the flows beside it: a switch that stays in either mode
for a minimum time. `Adaptive` is `AdaptiveCC`. `onACK` follows the callback part by
part: the minimum RTT (`MinRttAfter`), the begin of a probe cycle (`Begun`), the exit from the
competitive mode (`Leaves`, `LeftMode`, `LeftProbe`), the sample (`Sampled`), the
end of a cycle (`CycleOver`) with the entry (`Entered`) or a new cycle, then
`update_intersend_time` (`Moves`) and the reaction to a loss (`Heeds`, `CutMode`, `CutWindow`).
`init` is called by `StartFlow`, with a new clock, and by `AckTimeout`.

*Records.* `mode` is what `init()` leaves alone: `compete_mode` (`on`), `pkt_loss_time`,
`smooth_pkt_loss_interval`, `last_max_cwnd`, and whether `RTTcount` is positive. `probe` is the
cycle with its begin and length; of its arrays only the modes are kept in which samples were taken.

*Choices.* The verdict of `FFT()` and whether an ack reveals a loss are Booleans. How far the
window moves depends on theta, the velocity, alpha and delta; it moves by any of `Steps`, in the
direction the code allows: up while competing or without a queue, otherwise up or
down. The jump on entry is to any of `Jumps`. The RTT readings satisfy
`min_rtt <= standing <= latest`, as in Markovian.

`dwell`, `cuts` and `divided` are history variables.

### RemyCC, DefaultCC and Sender

`Sender` composes `send_data()` with one of two controllers, chosen at the start: it INSTANCEs
`RemyCC` and `DefaultCC` and calls their `init`, `onPktSent` and `onACK` where CTCP does. The network is two sets,
packets on the way to the receiver (`path`) and echoes on the way back; each may be delivered again
(`Delivered`) or never. `StartFlow` begins a flow with a new clock and the same controller.

The buffer of `send_data()` is used for both ways: it holds the header sent or received last (`buf`, empty while it holds
dashes). `receivedata()` returns -1 on an error, which line 249 does not test for. `Receive` and
`ReceiveError` therefore share `Process`, everything from line 257 on: after an error the last header is an
ack once more, or for the first time if its packet was only just sent; its receiver timestamp is then the 0
of line 225. `misread` remembers that this happened since the controller's `init()`.

`RemyCC` keeps `unacknowledged_packets` and, of the memory, the last sample, the minimum RTT and the largest
number acked. Of the three moving averages and the ratio of the RTT to the least only the range matters to the
control: whiskers cover 0 to 163840 (`memory-default.cc:73`), beyond it none is found, and the program exits.
An interval outside the range may or may not take its average there (`Unaverageable`, `UseWhisker`); others never do.
An interval that began with an unstamped header is as long as the receiver's clock, hence unbounded. The action found is
any of `Windows`.

`DefaultCC` counts whole packets: `1 / window` per ack takes the window to the next packet or not, and from
one to two. `TimedOut` is the call of its `onTimeout()`: it asks for no pacing, so a round takes its own beginning
for the last send time and polls without waiting; only a thread that stands still for a second gets
there, and the action moves the clock by as much. (That the poll timeout may turn negative in such a
round is the subject of Ctcp.)

`cuts`, `acked`, `dups`, `errors`, `misread`, `overtaken` and `last_received` are history variables.

### TcpCopa

`TcpCopa` of ns-3, as `TcpSocketBase` with SACK calls it, in the configuration its attributes call
final (`iscopaModify`, `enableComp`, `cpVersion` 1). It is another algorithm than `AdaptiveCC`: a period of 20 RTTs of
samples decides on competition, a competition is for the window of its last loss, and is left
when no loss came for twice the usual interval. `NewAck`, `DupAck`, `EnterRecovery` and `Retransmit` are the
socket's events; each calls `PktsAcked`, `GetSsThresh` and `IncreaseWindow` in the order of the
code. `opModeForCopaplus` is split into its five outcomes: `Collect`, `Stay`, `Enter`, `Compete`, `Leave`.

*Choices.* The step of the window (velocity, theta, alpha, target rate), the estimate
`thrMax * globalRttMax` on entry, and the verdict of `modeSwitch()`, which adds to `simi`, a local that is never
initialised (`tcp-copa.cc:558`). Without a sample the verdict is the default mode (`n==0`).

`since`, `losses` and `peak` are history variables.

## 3. The runs

`tlc -config X.cfg M` for each; none takes more than two or three minutes. Deadlock is checked in
the RttWindow run, where `clear()` is always possible, in the Handshake runs, where
the clock always ticks, and in the Adaptive run, where the ack timeout may always strike. In the others the bounded clock stops the system, and the cfg
says `CHECK_DEADLOCK FALSE`; Ctcp's progress is checked by `Terminates` instead.

| Run | Distinct states | Question |
|---|---|---|
| `rtt_window` | 175 k | Are the deques exact for every sequence of samples, `clear()` and `change_window()`? |
| `handshake` | 132 k | Two flows, one failed reception: does every handshake end, is a lost probe replaced, does only something stale mislead? |
| `handshake_stale` | violation | Is the minimum RTT always possible? No (finding 1). |
| `ctcp` | 1.13 M | Trains of two, loss, reordering, a duplicate, a failed reception, the ack timeout, a preempted thread: window, pacing, counts, and is the controller called as `Engine` says? |
| `ctcp_ends` | 472 k | Does a time-switched flow end, with no window, with no pacing, if nothing comes back? Yes, if the clock's two readings agree. |
| `ctcp_hangs` | violation | And if they do not? No (finding 2). |
| `markovian` | 592 k | Four packets acked in any order, late, twice or never, with restarts, and fourteen ticks of acks: delta, losses, cuts, pacing; is velocity earned, and how far does it move the window? |
| `copa_flow` | 75 k | MarkovianCC with its RTT windows: does it implement `Markovian`, is the pacing by a fresh RTT, is the mode the verdict on the samples so far? |
| `markovian_constant` | violation | Is delta constant if configured so? No (finding 3). |
| `adaptive` | 243 k | Two flows of Copa+ with restarts, every verdict of `FFT()` and pattern of losses: does the mode flutter, is anything averaged over nothing, are cuts spaced and paced? |
| `sender` | 1.03 M | Three flows of either older controller, loss, a duplicate and reordering on both ways, a failed reception, restarts: does RemyCC measure its own packets, when does it exit, does DefaultCC keep its window? |
| `tcp_copa` | 788 k | The ns-3 version through slow start, several competitions, recoveries and retransmissions: do the modes last, and does one competition leave anything to the next? |

### Bounds, and why they are enough

* `rtt_window`: five samples of three RTTs with gaps 0, 1 and 4. The windows' lengths
  (3 or twice the minimum, half and four times srtt) then lie on both sides of
  every gap: samples leave at the front, at the back, and at both ends in one step, and
  `clear` and `change_window` come anywhere between. A deque longer than five does
  nothing a deque of three does not; the proof covers the rest.
* `handshake`: ages saturate at 5, above the resend time and one poll (2 + 2), so
  no comparison of the code is affected. Two flows are what it takes for one to
  leave something to the next. `Duplicates` is off in the runs (the reply of a probe
  duplicated reaches the same states as the reply of a probe sent twice) and arbitrary in the proofs.
* `ctcp`: six packets make three trains, the window of one or two makes both the
  window and the train bind, seven ticks hold two ack timeouts of two ticks each
  or three round trips. `ctcp_ends` adds the window 0 and the interval 0.
* `markovian`: four packets are what two cuts of the window take (two packets judged in
  each; three are enough for two losses in one ack followed by a late one), with `MinPkts` 1, an ack
  timeout of 3 ticks, and RTTs of one or two, more than two of which must pass before each
  cut. A second cut is reached. The window's movement over many RTTs needs time rather than
  packets: `Explored` takes all patterns up to the seventh tick and, of the rest up to the fourteenth, the acks
  of one packet.
* `copa_flow`: RTTs of 1, 2 and 4 are what a queue of a few packets makes of a path of 1; a minimum kept for 3 ticks
  and standing windows of half a smoothed RTT both run out within seven ticks, which also hold an ack timeout of 3 and the two acks
  that end probing. Six samples are more than seven ticks can take. A larger clock (8: 346 k states)
  shows nothing else; the proof covers the rest.
* `adaptive`: a cycle of one RTT and RTTs of a tick or two make ten ticks enough to enter the mode, cut
  the window twice, leave, and (in the second flow) enter again; two flows are what it takes to carry
  the mode and its times into a clock that starts again. Windows of two and three
  packets are on both sides of the last loss's. With two probe packets three acks only probe: one
  to begin the cycle, one to enter and jump, one to cut.
* `sender`: with two packets one ack gives the first sample and the other one that is averaged, or late, or lost;
  a duplicate, a failed reception and the start of a later flow are three ways to repeat an ack, any two of which
  halve the window. Four ticks hold an ack and an ack timeout after it, a reordering on either way, an RTT of three
  times the least (`MaxRatio` 3) and a header misread with the sample after it; three flows let records of the first
  meet packets of the third. RemyCC exits in this run for each of the reasons `ExitHasCause` names (an interval of
  `MaxInterval` 3 ends with the last tick, so that up to three ticks only echoes that overtook each other and
  misread headers account for an exit), and the window is halved. Longer sequences of packets, such as a gap (one
  lost, one after it, its successor), are what the proof covers. The window of RemyCC's actions is 4, which admits
  all packets: a smaller one only admits less. A stall is of any length (`Timeout` 0).
* `tcp_copa`: periods of two RTTs and RTTs of one or two make nine ticks enough for a
  competition, two losses, its end, and a second competition. Windows up to four segments are above and
  below the window to regain.

Bounds are named constants, tested in guards: `MaxSamples`, `MaxErrors`,
`MaxAge` (saturation), `MaxTime`, `MaxSeq`, `MaxDups`, `MaxSent`, `MaxWindow`, `NumFlows`, `Step`, `Jump`;
`Explored` is the one state constraint.

### Properties

Each module states its properties under the heading "Properties", each with a
comment that says what code it is about. The ones that took thought:

* `OnlyStaleMisleads` (Handshake): exactly two things let the sender learn an RTT
  below the propagation time, a failed reception and a second echo left by an earlier flow.
* `UnackedBound`, `AckedIsReal`, `PacingRespected` (Ctcp): they relate
  pointers to history (`base`, the clock) and need the position inside the train to be inductive.
* `VelocityEarned`, `AckMovesOnePacket` (Markovian): the velocity is at most
  2^k after k RTTs of one direction; and an ack that has not just halved it moves the window by no more than
  a packet, although delta, the window and the velocity change at different times. Only that: the code halves a velocity
  above `window * delta` once and does not compare it again, so that after delta has dropped one ack may move the window
  by any number of packets. (An earlier bound of three packets held in every run that TLC could finish, and failed in the attempt to prove it.)
* `PacedByFreshRtt` (CopaFlow): the interval computed by an ack is used again by every packet sent until the next, and
  the standing RTT it came from is the value of a cache; the property follows it back to a sample that young.
* `ImplementsEngine` (Ctcp): relates the header arithmetic of trains, the check of the source, the reset after
  the ack timeout and headers left in the buffer to what the controller hears.
* `CutsAreRare` (Markovian): `onACK` asks `ReduceOnLoss` once per packet and `init()`
  forgets when it last said yes; the ack timeout keeps the restarts apart.
* `DoesNotFlutter` (Adaptive): the mode ends when no loss came for twice the usual interval, but nothing
  in the code bounds that interval from below; it follows from the spacing of the losses heeded. That
  it also holds across flows, whose clocks differ, depends on the sign of the difference.
* `PacedByWindow` (Adaptive): the window jumps and is cut while the first RTTs probe, when
  `update_intersend_time()` returns early. Between a cut and the end of probing a second jump would leave
  the pacing interval behind; there is none because a window below the one of the last loss keeps the mode.
* `KnowsItsPackets` (Sender): the record of each packet not acked is that of this flow, although records of
  lost packets stay and the ack timeout resets the memory but not the records.
* `ExitHasCause` (Sender): loss, duplication and reordering on the way *to* the receiver never make an
  interval negative, since intervals are taken between a packet and its successor only, and the largest number acked
  starts at 0 after a reset. Nor does a failed reception after an echo, or after the ack of the packet sent last, which RemyCC
  no longer knows. One after a packet was sent does, for its header bears no receiver timestamp: it is a cause of
  its own, as are an RTT and an interval beyond the range of the whiskers. A restart by the ack timeout ends the
  effect of a misread header, but not that of overtaking, whose timestamps are compared over the whole flow.
* `HalvesForRepeats` (Sender): each packet has an ack of its own, so that a loss never repeats an ack: what
  DefaultCC takes for three duplicate acks is one header processed three times. A header misread before its echo
  arrives is acked a second time by that echo, which the failed reception pays for.
* `CountsOwnEchoes` (Ctcp): an equation over sends, receptions, losses and copies. It does not say that a packet counts
  once, for the code does not see to that: `num_packets_transmitted` counts a duplicate, and a header read again after a
  failed reception, like any other echo (`ctcp.hh:288`), so that a flow of a given size may end short of it by as many packets.
* `DefaultLasts` (TcpCopa): leaving sets `lastCheck` to 0, the start of the simulation. Once the
  simulation is older than a period the same ack begins a period; before that the ack is a sample of one
  that may be over much too early. The property states this exception, for the code has it.
* `LeavingIsEarned` (TcpCopa): two losses since the last exit. They may both be from before the competition, for
  `GetSsThresh()` measures the interval in either mode (`tcp-copa.cc:1174`): a competition may end after one or two acks,
  and a flow with fewer than two losses never leaves one.

## 4. Fairness

* Handshake: weak fairness of the sender's steps and of the clock: the thread is
  scheduled and time passes. Strong fairness of `Echo` and `ReceiveReply`: if probes keep
  being sent, one is echoed in the end and one echo received. Without it the handshake may
  loop for ever, as the code intends. Nothing is assumed of acks, errors or the
  order of arrival.
* Ctcp: weak fairness of the sender's steps, strong fairness of `Tick`, which is enabled
  again and again but not always: the clock moves while the thread goes around the loop.
  Nothing is assumed of the network; `Terminates` must hold if every packet is lost.

## 5. The proofs

`tlapm` checks eight modules, for every value of the constants that the named
assumptions (`...Assumption` in each module) allow, and without the bounds mattering. Each
has the shape `Init => IInv`, `IInv /\ [Next]_vars => IInv'`, `IInv => Property`; each `IInv` is
also an invariant of a run (CopaFlow's with `ModeFollowsQueue`, its main part). Properties that a later one of the same run
says more than, or that are conjuncts of `IInv`, are theorems but have no entry in a cfg:
`UnjitteredAboveMin` and `StandingIsFresh` (RttWindow), `NeverUndercounts` (Ctcp), `MinRttIsPossible` and `WindowAtLeastTwo` (Sender).

* **RttWindowProofs.** `ExtremeIsExact` is not inductive: the cache alone does not say
  what it will be recomputed from. `IInv` adds that deques are sorted (`Monotone`), that every
  sample still in the window is dominated by one in the deque (`Dominated`), that
  the cache equals the front (`CacheIsFront`), and that the shorter windows' deques are
  part of the minimum's (`Nested`), from which `UnjitteredAboveMin`, the
  assertion at `markoviancc.cc:216`, follows. `PushedFacts` and `AgedFacts` are the
  lemmas about the two ends of a deque, `ExtremeStep` about the cache.
  `Refinement` proves that the four windows implement `SlidingExtreme`. `Fresh` and `Remembers` draw the two
  conclusions about time from exactness: what a window reports is a sample not older than the window. `ReadingsHold` adds to `IInv`
  that the newest sample is `latest_rtt` (`LatestIsNewest`): it is in every deque, so that no minimum exceeds it.
* **HandshakeProofs.** `OnlyStaleMisleads` needs `NoneOlder` (while one probe has
  been sent, no datagram of a handshake is older than it), which for later flows
  needs `OneAnswer` (no datagram outlives its handshake) and for the first
  `FirstFlow`. `SingleFlow` is the consequence a user sees. `Refreshed` follows
  from `Timers`, which relates the age of the probe to what is left of the poll.
* **CtcpProofs.** Window and pacing hold back only the first packet of a train, so `IInv` says where
  the train began: `TrainFits` (the window admitted its first packet)
  and `TrainPaced` (the whole train was due at the last reading of the clock).
  `ModStep` and `NextInTrain` are the arithmetic of positions inside a train. `EchoesCounted` and `NothingMissed` are
  arguments about cardinality: each step moves one header between the network and the count, and
  `onACK()` moves from the unacknowledged packets to the acked and lost at least what it removes.
  `EngineKept` is the refinement: each step of `send_data()` is one of `Engine` or none. `AnnouncedStep` shows that only the first
  packet of a train announces, `NamesAnnounced` that the division at line 293 names a train announced, for any train length,
  because `IInv` says that every header of the flow is of a packet sent, the one left in the buffer included.
* **MarkovianProofs.** `AggressionBounded` needs `ClockOK` (delta's times are not later than
  the last ack, and an ack has a later reading) and that delta is at its default
  before the first ack. `UpdateDelta` is the lemma about `update_delta()`, `AckDelta` about its two
  calls in one ack. `Paced` needs that the pacing interval is recomputed wherever the window moves;
  `LostOnce` that the packets skipped by an ack leave the set they are counted from; `RareCuts` relates
  the cuts to the time `ReduceOnLoss` last said yes, and to the restarts that forget it.
  `Earned` needs `StreakOK`: velocities are powers of two, and as many RTTs have passed as the exponent says. A step
  doubles the velocity and lengthens the streak by one, so that `2^(k+1) = 2 * 2^k` is all it needs to know of powers; the solver does not, and
  `PowerOfTwo` gets it from the number of subsets of k and of k+1 elements.
  `OnePacket` compares products of the velocity, the window and delta, which the solver does one product at a time.
* **CopaFlowProofs.** `Refinement`: the readings after a sample satisfy what `Markovian` asks of them, by `ReadingsOrdered`
  for the windows inside the flow (`ImplementsWindows`). Both parts' theorems are cited, not proved again: `Inherited` has the five
  properties of `Markovian` for the flow, from the refinement alone. `PacedFresh` needs both parts at once: that the
  pacing RTT is the standing one after the last ack (`PacedByStanding`), that the time of the last sample is that of the last ack
  (`OneClock`), and `StandingIsFresh`. `ModeFollows` is inductive together with these two.
* **AdaptiveProofs.** `AckOutcome` sums up an ack: it leaves the mode, enters it or stays, and may then
  cut the window. `IInv` relates the clocks: in the default mode the probe cycle began within it
  (`CycleTimed`); in the competitive mode the last loss time is the entry, or lies more than an RTT after
  it and the smoothed interval exceeds an RTT (`LossTimed`). Both say "as long ago
  as", so that a clock that starts again only makes them weaker. `ProbingPaced` and `CutsTimed` are the
  same for the pacing interval and the cuts. `DwellsLong` draws the conclusion and
  `NoFlutter` the refinement of `ModeSwitch`.

* **SenderProofs.** `IInv` says what the network may hold: packets leave in the order of their numbers
  (`SentInOrder`), an acked packet is no longer known (`AckedForgotten`), and the last sample is of
  this flow and not after the packets that may still follow it (`SampleOfThisFlow`), the header in the buffer included, from
  which no interval between departures is negative and one between receptions only by overtaking or a header without a
  timestamp. A header in the buffer is stamped only if its packet is acked (`Stamped`), so that `misread` is set when
  RemyCC takes a sample from one that is not.
  `ProcessStep` is the part that a reception and a failed one share. `ThresholdOfOne` is what
  `WindowAtLeastTwo` needs: a threshold of 1 meets a stale count of repeats only in slow start.
  `HalvesRarely` is a count over all echoes of all flows: every packet of a flow is acked or on one
  of the two ways (`Everywhere`), so that no more datagrams and acks than packets exist without a duplicate or a failed reception; the repeats behind
  the cuts, and the one that may be under way to the next, are paid for by duplicates, failed receptions and the
  starts of flows (`RepeatsCounted`). `AckCounted` is the step they rest on: one ack adds one at most to the packets
  acked and the repeats together.
* **TcpCopaProofs.** `SamplesOfThisMode` says that samples are of the present mode and of a period
  that did not begin before it, or that the simulation is young; `LossesKnown` what `tLoss` and `m_itv` tell of the
  losses; `WindowsOfThisCompetition` that the window to regain is one this competition had. The two action
  properties follow from the step lemma for the modes.

Only model-checked: the liveness properties `HandshakeCompletes` and `Terminates`, for the prover has no
`ENABLED`; every other property of a passing run is a theorem. The runs that expect a violation show their
counterexamples, which need no proof. That `Call`, `TooMany` and `RolAfter` sum up the calls of
`ReduceOnLoss::update()` one by one is an argument by induction over their number, which no installed prover can make: it was read off the code. Induction
over data and recursive operators are not used in any module.

## 6. Where the code and its text disagree

1. `ctcp.hh:151` "Set min_rtt only if we are sure we have the right rtt". The second echo
   of a probe sent twice by one flow is taken by the next flow's handshake for the echo of
   its own (`handshake_stale`).
2. `README.md:97` "Switches on for 10 seconds and exits". A poll timeout computed from a
   second reading of the clock can be negative, which `poll()` takes for infinite
   (`ctcp_hangs`).
3. `README.md:58` "'delta_conf=constant_delta:1' will make Copa/Copa+ use a constant delta of
   1.0". The first ack resets delta to its default (`markovian_constant`).

More were met while modelling and have no run, for they are about a single expression or value:

* `ccc.hh:19` says each group of `train_length` packets is treated as one. `onPktSent` is told
  `seq / train_length` (`ctcp.hh:232`), `onACK` `(seq + 1) / train_length` (line 293), from which the
  controller subtracts one: with trains the ack of a group is that of the one before.
* `estimators.hh` describes `ReduceOnLoss` as asking for a reduction once per RTT at 10%
  losses, the code judges more than 20 packets, once per two RTTs, at 30%
  (`estimators.cc:120-127`; the model follows the code).
* `markoviancc.cc:162` asserts `false`. "do_ss:" is optional (line 333); without it the first ack after
  probing that finds a queue comes here. Markovian ends there (`aborted`), and every later action is disabled.
* A comment at `udp-socket.cc:99` has the timeout return -1, it returns 0.
* `keep_ext_min_rtt` has no effect after the first ack.
* `traffic-generator.hh` reports a byte-switched flow as transmitted once `num_packets_transmitted` is its size, which counts
  copies of an echo again (`ctcp.hh:288`; `CountsOwnEchoes` says by how much).
* `congctrls.hh:15` sets the threshold to `true` and slow start to 83333: a flow of DefaultCC
  leaves slow start with its first ack.
* In `tcp-copa.cc` `simi` is read before it is written (line 558), the throughput at line 545 divides by a time that
  may be 0 and is cast to an integer, and `rttAvg` counts RTTs in whole milliseconds.

## 7. What is not modelled

* In AdaptiveCC theta and the emptying of the queue (`update_theta`), the velocity, the values of `FFT()`, and the
  packets in flight, which it keeps as MarkovianCC does. `update_delta()` is never called. Without
  "do_ss:" slow start meets `assert(false)` (`ADC.cc:336`) as in MarkovianCC (§6); the assertion of
  line 425 holds by what is proved of RttWindow. What the model shows and nothing in the repository speaks of:
  a flow that begins in the competitive mode of the flow before it heeds no loss until its
  clock has passed the old `pkt_loss_time`.
* In the ns-3 version everything that only sizes a step of the window, and `cpVersion` 0 and 2, which the
  attributes give up. Of the ns-3 socket only what calls the controller.
* In RemyCC the values of the averages and the tree they are looked up in, which training produced: they decide
  the window and the pacing, which Ctcp takes to be any.
* The values of doubles: rounding, overflow to infinity, `NaN`. The models follow the
  formulas in integers.
* In CTCP the link-rate estimate, by which RemyCC scales its window if packets leave in trains, and the throughput
  statistics, which nothing reads; the receiver's unused NAT punching; the random on and off times of
  the traffic generator.
* A packet acked at the clock reading at which it was sent, which fails an assertion
  (`markoviancc.cc:212`): the models assume that the path takes longer than the clock's resolution. The RTT that a failed
  reception gives for a packet just sent is as short as a round of the loop; `Engine` allows the call, and a tick of Markovian
  and CopaFlow is then no longer than that.
* `sender.cc`, `configs.hh` and the set-up of sockets: argument parsing and I/O. `python-wrapper.cc`, `cubiccc.cc`, `pcc-tcp.cc`,
  `prober.cc`, `nat-server.cc`: not part of the sender or the receiver the makefile builds. `copaPs`: a near copy.
* The Python files. By number of lines most of the repository is Python, but none of it is
  the program: bindings generated by ns-3 (`src/NS3/ns-3.27/src/*/bindings/modulegen__*.py`, over nine tenths of it), the build system waf, and scripts
  that plot and that start experiments. `test-suite-server.py` and `test-suite-client.py` would have a protocol
  to model, but the server drops the connection at the first request: `get_config` has no `cong_alg`, which
  line 102 looks up (`KeyError`), and the client then waits for an answer to its second. A model of
  it would have no states to speak of. The logic of the repository is its C++, and that is what is modelled.
* Ctcp and a Copa controller in one module. RttWindow and Markovian are composed (CopaFlow); between them and the engine
  stands a contract, `Engine`, which Ctcp is shown to implement and from which Markovian takes its acks: any packet announced, in any
  order, any number of times, `init()` after a silence. Two things that Markovian assumes are not in it: that a train is one packet
  (otherwise an ack may name packet -1, which is in no set of packets and would only be counted), and that each
  ack has a clock reading of its own.

## 8. What is left

In this order:

1. **Theta** (`ADC.cc` 185-251): `update_theta` with its four counters, which decide the step in
   the default mode. Hazards: counters of different parity keep `tempEmpty` set, `recordEmpty`
   survives the competitive mode and makes theta jump to its cap. Its cube roots need a table of
   values before TLC can step through it.
2. **Flows**: RttWindow composed with Adaptive as CopaFlow composes it with Markovian; a model of the queue that flows share, for the liveness of the mode (a flow
   alone returns to the default mode).
3. **ModeSwitch for the ns-3 version**: its competition has no minimum time (`LeavingIsEarned` says what it
   has instead), so that it implements only the half of `ModeSwitch` about the default mode.
