# Verification of mod_siprec

TLA+ models of mod_siprec, a FreeSWITCH module that is a SIPREC recording
client (RFC 7866): for a call that runs the `siprec` app it opens a second SIP
leg to a recording server (SRS), hangs a media bug on the call and sends the
call's audio to the SRS as RTP. TLC checks the models on small instances; TLAPS
proves, for every value of the constants, every safety property that TLC finds to
hold; only liveness is left to TLC alone.

All paths are relative to the repository (`src/` here is its root).

## 1. The system

| Part | State it keeps | Operations | Talks to |
|---|---|---|---|
| **Recordings table** (`recording_session.c`) | `globals.recordings_hash`, and in each `recording_t`: `key`, `use_count`, `doomed`, `leg_gone`, `pool` | `claim_recording`, `acquire_recording`, `release_recording`, `siprec_recording_leg_ended`, insert and discard of a start, `drain_recordings` | every other part; guarded by `recordings_mutex` |
| **Lifecycle** (`recording_session.c`) | the hangup handler bound to a call | `start_recording_session`, `teardown_recording`, `release_call_handler`, `siprec_on_hangup` | table, SIP leg, media |
| **Apps, load, unload** (`mod_siprec.c`) | `globals`, published outcomes | `siprec`, `siprec_pause`, `siprec_resume`, `siprec_stop`, load, shutdown | lifecycle |
| **Server table** (`mod_siprec.c`) | `recording_servers_hash`, the failover chain | load of `siprec.conf`, snapshot for a start | lifecycle |
| **SIP leg** (`siprec_invite.c`) | `invite_ctx`: the leg's UUID and the negotiated streams; the watcher bound to the leg | failover walk, INVITE, BYE, re-INVITE, `siprec_leg_on_hangup` | table (leg ended), SDP |
| **SDP answer** (`siprec_sdp.c`) | none | `siprec_sdp_parse_remote_streams`, the second `m=` section of the offer, address kind | SIP leg, media |
| **Media** (`siprec_media.c`) | `media_ctx`: the bug, per stream socket, codec, sequence, timestamp, marker; `paused_at` | attach, the bug's callback, pause and resume, detach | reads `leg_gone`; G.711 |
| **G.711** (`siprec_g711.c`) | two tables of 65536 octets | `siprec_g711_init`, lookups | media |
| **Metadata** (`siprec_metadata.c`) | none | validation, IDs, AORs, the XML | lifecycle, string builder |
| **String builder** (`siprec_sb.c`) | a growing buffer with its length and capacity, a sticky error | append, take | metadata |
| **URI check** (`siprec_uri.c`) | none | `siprec_uri_check` | apps, server table |

What is hard here, and what makes each part correct:

* **Concurrency.** Apps run on the call's session thread, and other threads can
  run them on the same call; the recording leg has a thread of its own; the media
  callback runs on the media thread; the unload runs on whatever thread asked for
  it. A `recording_t` lives in the pool that its teardown frees. The table is
  correct if nobody uses a freed recording, exactly one thread tears a recording
  down, and none is forgotten.
* **Long operations outside the lock.** A start waits for an answer for up to
  `originate_timeout` seconds per candidate, pinned but listed. A stop, a hangup
  or an unload in that time must win, and the start must say so.
* **Order.** Teardown is detach, then BYE, then free. Pause gates the fork before
  the re-INVITE, resume opens it after. The hangup handler is bound before the
  INVITE.
* **The other side may end things.** The SRS may hang the leg up at any moment,
  also between the answer and the moment the module starts watching the leg.
* **Configuration.** Bad elements between good ones; a start reads its candidates
  for up to a timeout each, longer than the table they came from may live.
* **Two descriptions of one offer.** The metadata and the SDP are made apart, and
  must agree on labels and on who is heard on which.
* **Partial failure.** Any step of a start or of an attach may fail after others
  have succeeded; a re-INVITE may fail after the fork was gated.
* **Unload.** FreeSWITCH unmaps the module. Nothing may be left that calls it.
* **Numbers.** 16- and 32-bit RTP counters wrap; INT16_MIN; segment boundaries.
* **The answer.** Declined, surplus and non-audio sections; addresses per section
  or per session; payload types from three sources.

`PROJECT.json` lists each hazard at its line, with the properties that cover it.

## 2. The modules

| Module | Models | Extends |
|---|---|---|
| `RecordingOwnership` | the abstract promise of the table: created once, joined while listed, retired once, freed once and only when unused | |
| `RecordingRegistry` | the table and every operation on it, one action per hold of `recordings_mutex` | |
| `RecordingLifecycle` | the call, the handler, the SRS leg, its watcher, the dialog, the fork, the apps and the unload, around the table | `RecordingRegistry` |
| `RtpFork` | RTP clock, sequence and marker of a recording's streams | |
| `SrsAnswer` | from the SDP answer to the opened streams | |
| `G711` | both encoders and the loop that fills the tables | |
| `SrsUri` | the check of an address and the URI built for a server | |
| `ServerTable` | `siprec.conf` to failover chains, the snapshot of a chain, the end of the table | `SrsUri` |
| `Metadata` | identifiers, AORs, options and elements of the RFC 7865 document | |
| `WholeDocument` | the abstract promise of the builder: all of the text in order, or none | |
| `StringBuilder` | the growing buffer with its overflow tests and failures | |
| `RecordingStart` | one `siprec` from its arguments to its outcome, around the four above | `ServerTable`, `StringBuilder`, `Metadata` |
| `MC...` | model values, bounds and symmetry for TLC | the module of that name |
| `RecordingRegistryProofs`, `RecordingLifecycleProofs`, `RtpForkProofs`, `SrsAnswerProofs`, `StringBuilderProofs`, `RecordingStartProofs`, `G711Proofs` | the theorems | the module they are about |
| `SerialAppsProofs` | the theorems that need the apps of a call to run one after the other, and what holds of an unload without that | `RecordingLifecycleProofs` |

A definition named `Faulty...` is the definition after it with a plausible bug
(a dropped guard, an off-by-one, a swapped order). No specification uses it; put
in the place of the correct one it makes the property listed beside it in
`PROJECT.json` fail, which shows that the property is able to fail.

### RecordingRegistry

Two steps of one thread are separated exactly where the code releases the mutex
(or frees a pool), so TLC explores every interleaving the lock permits. State:

* `hash[k]`: the entry of key `k` in `recordings_hash`. A key is a pair of a
  handle and a call: `siprec_recording_key` joins them with a hyphen, and the
  model takes the result to be unambiguous, as it is for channel UUIDs of
  FreeSWITCH's own making.
* `pool[r]`: `unborn`, `live` or `freed`. `Recs` is the supply of allocations a
  behaviour may make, so none is ever reused: a use after free cannot be masked
  by a new allocation at the same place.
* `key`, `use_count`, `doomed`, `leg_gone`: the fields of `recording_t`.
* `pin[t]`, `own[t]`: the recording a thread's operation has pinned; the one it
  must tear down. `pc[t]` is where the thread is; `todo`, `more` and `scope` are
  the locals of `drain_recordings`; `ret[t]` is the status being returned.

`Claim`, `Release` and `FreePool` are `claim_recording`, `release_recording` and
the end of `teardown_recording`; the operations are built from them. A start is
`StartInsert` (duplicate check, replacement of a stale entry and insert, under one
hold), then `StartEnd`, or `StartDiscard` and `DiscardEnd`. Hash iteration order
is left open: a drain scan takes any batch.

### RecordingLifecycle

Each action either takes one action of `RecordingRegistry`, or leaves the table's
variables alone (that is what `ImplementsRegistry` says, and what is proved). It
adds:

* `call[c]`: `up`, `hungup`, `cleared` (the core has removed its media bugs),
  `reporting` (after `on_hangup`), `gone` (after `on_destroy`);
* `bound[c]`: `state_handlers` is on the call's channel; `module`;
* `leg[r]`, `watched[r]`, `dialog[r]`, `offered[r]`: the SRS leg, the watcher on
  it, whether `invite_ctx->recording_uuid` is there, and the last direction
  offered;
* `fork[r]`: no bug, running, or gated by `SMBF_PAUSE`; `media[r]`: `media_ctx`;
* `job`, `at`, `due`, `named`: what a thread runs, where it is between two steps
  on the table, the call whose handler it may unbind, and the handle a
  `siprec_stop` names.

Teardown is `Detach`, `Bye`, `LFreePool`. `HandlerScan` and `Unbind` are the two
halves of `release_call_handler`. `Gate`, `Offer`, `Ungate` are the steps of
`siprec_change_direction`. `RunHandler` is `siprec_on_hangup` as either of the
channel's handlers.

External behaviour, from how the code and its comments use FreeSWITCH: a channel
that has hung up executes no further apps, although the one it is in goes on; a
session that has hung up is not located any more (`switch_core_session_locate`
needs the read lock of a session that is not being destroyed); the core removes a
call's bugs before its handlers run; adding a media bug needs a channel whose
media is up; an unload is refused while an app of the module is running.

### RtpFork

Time advances in units of the 8 kHz clock, `Tick` to a frame. `ReadPing` is the
callback's READ_PING: it sends one packet on each stream or, if no direction has
a usable frame, lets the clock run on and marks the next packet. `Pause` and
`Resume` are `siprec_media_set_paused`. An app and a ping do not overlap: both run
on the thread that reads the call. The moduli 2^32 and 2^16 are the constants
`ClockMod` and `SeqMod`.

### SrsAnswer

A line of the answer is what the parser distinguishes: `c=` with its address, an
accepted or declined `m=audio` with its first payload type, any other `m=`. The
payload type `UNSET` (255) stands for all that is neither PCMU nor PCMA.
`answer` is history: the properties read it as a whole and compare that with the
parser's running state. Then `EndOfAnswer` applies the two fallbacks of
`siprec_invite_send`, and `ChooseStreams`, `OpenStream`, `AttachFails` and
`BugAdded` are `siprec_media_attach`. Both random choices of the environment (is
the leg mono, which codec does it have) are open.

### G711

The state is the init loop's sample and the entry it writes last, so an invariant
over all states speaks of each of the 65536 entries. The reference is not
another encoder but the decoder the repository itself uses to judge the audio
(`tests/live/check.py`).

### ServerTable and SrsUri

`LoadEntry` is `load_recording_server`, one element of the file at a time; an
entry is its position in the file, so that `servers[n]`, a chain, is a sequence of
positions and `pools` the set of those whose memory pool is live. `FreeServers` is
`free_recording_servers`, in the unload and in a load that fails; `Reload` is the
next load, with another file. A text is what the code tells apart: the
scheme, the length, whether all characters are on the allowlist, whether `:_:`
occurs. A host's `split` and `closes` are those of `sip:<host>`, which the load
checks: it has a `:_:`, or ends in `:_`. `UriFor` keeps the 256-byte buffer of
`siprec_uri_for`: what does not fit is `Cut`. The URI it prints is never checked
again, and the colon of its port makes a `:_:` of a host that `closes`. A memory pool that cannot be had is not a case of its own: an entry
without one is skipped as a bad one is.

### StringBuilder

The variables are the fields of `sb_t` (`data` is whether the pointer is set,
`text` the fragments the buffer holds), the heap `blocks` somebody must free, and
the document `body` that `sb_take` handed out; `asked` and `starved` are history.
Sizes are `size_t`: `Wrap` reduces them modulo `SizeMax + 1`, and a failing
`vsnprintf` is a fragment of `SizeMax` bytes. `NewCaps` is the loop that doubles.

### Metadata and RecordingStart

`Metadata` has no state. A document is its sequence of elements; markup and
escaping are left out and an element counts as long as its AOR. Names of channels
are sequences of characters, because `siprec_metadata_uuid_to_id` looks at each;
`Scan` is its loop. What an identifier promises is said beside it from the other end:
`CarriesUuid` spells out a UUID position by position, and `DecodedByte` reads base64
back, so that `IdentifiesUuid` compares two descriptions and not one with itself.

`RecordingStart` holds one start in the record `start`; its stages `pc` follow
`siprec_start_app` and `start_recording_session`: `check`, `insert`, `compose`
(AORs, IDs, options), `build` (one element per step), `profile`, `walk` (one
candidate per step), `attach`, `release`, `publish`, `done`. `Release` lets go of the
start's pin and settles what `siprec_start_app` returns (`result`); only `Publish`,
`siprec_outcome_set`, makes it the outcome (`status`), and other threads come in
between. `Discarded` is
`discard_pending_recording`. `Configure` is the load, `Unload` the shutdown, and
`Stopped` any other thread's stop or hangup, or the leg's own handler: it dooms a
pinned recording, and takes and tears down one whose pin is gone (`taken`), published
or not. That teardown is one step here; its order is `RecordingLifecycle`'s, as is the
pin of another thread's pause. `LegEnds` is the SRS ending the leg, from its answer
on: `dialog` is then `gone`, and the start does not look. An
element of the document is one append. The two AORs have builders of their own,
whose failure is the choice `made`. A failure inside `siprec_invite_send` is one
step, `InviteFails`. An unload between the app's beginning and the recording's
insertion is left out, as in `RecordingLifecycle`: FreeSWITCH does not unload a
module while its application is being looked up, and nothing the module does could
make up for it.

## 3. What the runs check

Passing runs:

| Run | Instance | States | Shows |
|---|---|---|---|
| `registry` | 2 threads, 2 calls, 1 handle, 2 recordings, batch 1, fair | 0.17 M | `IInv`, `ReferencesAreLive`, `SoleOwner`, `RetiredHasHeir`, `StartSuccessIsListed`, `RetiredIsFreed`, `OperationsReturn`, `ImplementsOwnership` |
| `lifecycle_serial` | 1 call with its thread and the unloader, 2 handles, 2 recordings | all | `FreedIsSilent`, `ByeAfterDetach`, `FlowsOnlyWhenOffered`, `PauseIsSilent`, `StopIsSilent`, `CallGoneIsClean`, `UnloadLeavesNothing` |
| `lifecycle_concurrent` | 2 threads with apps on one call and the unloader, 1 recording, fair | 0.23 M | `HangupTearsDown`, `ImplementsRegistry`, `UnloadEndsAll` |
| `rtp_fork` | 2 streams, 24 clock units, frames of 2, clock modulo 24, sequence modulo 4, 3 pauses | 2.5 M | `StreamsInLockStep`, `ClockKeepsTime`, `PacketsContiguous` |
| `srs_answer` | answers of up to 5 lines, 3 addresses of which one unusable, 2 streams | 0.65 M | `AnswerIsRead`, `LabelsMatchOffer`, `CodecFollowsAnswer`, `NoSocketLeaks` |
| `g711_tables` | all 65536 samples | 65537 | `EncodersQuantise`, `TablesAreMonotone` |
| `recording_start` | files of up to 3 of 6 elements, 6 arguments, 2 calls, 2 attempts, builder of at most 18 bytes with sizes modulo 64 | 1.7 M | `ChainIsConfig`, `WalkFollowsConfig`, `WalkReadsLiveMemory`, `DialsItsServer`, `MetadataMatchesOffer`, `FailsForAReason`, `OutcomeIsTrue`, `NothingLeaks`, `NoOverrun`, `IdsAreUuids`, `ImplementsDocument` |

Why the bounds are enough. *Registry*: two threads let a reader hold a pin while a
stop dooms it, and a start reuse the key while a discard is between its two holds;
two calls with `SIPREC_DRAIN_BATCH` 1 make one match a full batch, and an unload of
two take another pass (the code's 16 differs only in how many recordings it takes).
The invariants of this run are all proved for any number of threads, calls and
recordings (section 4), which is why the run is small and spends its time on
liveness. So are those of the other runs (some of the lifecycle's under a hypothesis);
these stay because they evaluate the assumptions, show that the interesting
cases are reached and let every property be broken by a plausible bug. *Lifecycle*: two handles make a stop of one differ from a
stop of all; two recordings let one be replaced. The run with apps on
two threads uses one recording, for the state space: a stop, a pause and a start's end
meet on it in every order.
*RtpFork*: `MaxTime` is twelve frames, the sequence number wraps after four
packets and the initial timestamps are chosen so that the clocks wrap within the
run; `MaxBacklog` 1 suffices because a ping takes at most one frame of a
direction. *SrsAnswer*: five lines hold a session address, two sections with an
address each, or a declined and a surplus one among them. *RecordingStart*: three elements are
two good ones of a name with a bad or a foreign one between, before or after them,
or a chain longer than `MaxAttempts` (2 for the code's 16); the elements differ in
host length (one is cut), port, transport and mode, and one host ends in `:_`. `MinCap` 2 for 256 makes the buffer double
four times; with AORs of length 1 and 3 a document has 13 to 19 bytes, so one fits
with room to spare, one fits exactly into `MaxCap` 18 with its NUL, and one does not;
`SizeMax` 63 is a `size_t` that 2 * `MaxCap` fits in and whose wrap a fragment of
`SizeMax` bytes reaches. Every append may fail. `IdsAreUuids` is about a function
and is evaluated in the first states, over each kind of name with any one character
replaced and over each shorter one (`MCChannelNames`); section 4 has it for every name.

The two lifecycle runs, and the runs of `RtpFork`, `SrsAnswer` and `G711`, say
`CHECK_DEADLOCK FALSE`: a call that is gone with the module unloaded, a fork whose
bug is closed at the end of the modelled time, an attach that is through and a
finished table have no further step. `registry` and `recording_start` do check for
deadlock: an idle thread can always begin an operation that is refused, and an idle
start can always begin or the module be loaded again, so a deadlock there would mean
that an operation is stuck.

Fairness. `FairSpec` has weak fairness of each thread's `Continue`: a thread in
the middle of an operation goes on. The code justifies it, since the mutex is
never held across a blocking call and the INVITE is bounded by
`originate_timeout`. No thread is obliged to begin anything. `LFairSpec` adds
that the core runs the hangup of a call that has hung up, on its thread; its liveness
property speaks of a call that holds the handler when it hangs up (without it: see
below). `RecordingStart` states no fairness and claims no liveness. No
fairness is assumed of hangups, unloads or the SRS.

### Where the code and its documents disagree

Each of these runs checks one sentence of the repository, and TLC refutes it.

| Run | Sentence | What happens |
|---|---|---|
| `doc_nothing_calls_unmapped` | README: the unload unbinds every handler, "so no channel calls into the unmapped `.so` afterwards" | a channel that had begun to hang up is not located, or has no recording left, and keeps its table |
| `doc_ended_leg_stops_fork` | README: the leg's own handler "stops the RTP fork at once" | the SRS ends the leg before the watcher is bound; nothing marks the recording |
| `doc_ended_leg_is_replaced` | README: `siprec` under the same handle "then starts a fresh recording" | a pause between the leg's hangup and its handler erases the UUID the handler matches on |
| `doc_mode_is_per_server` | README: `separate-streams` "can also be set per `<recording-server>`, which overrides the global value" | the chain's first entry decides for all its candidates |
| `doc_silence_is_canonical` | `siprec_g711.h`: "the canonical branch-based G.711 quantisers"; `tests/live/check.py`'s decoders | the lowest mu-law segment is shifted by 4 instead of 3, so silence is encoded as +64; A-law sets the sign bit for negative samples, so polarity is inverted |

`EncodersQuantise` leaves mu-law's lowest segment and A-law's sign out, for the
reason the last row gives; everywhere else the encoders quantise.

### Apps on two threads of one call

`lifecycle_serial` runs the apps on the call's own thread, as a dialplan does;
`lifecycle_concurrent` lets two threads run apps on one call (the code's comments
speak of "another thread's `siprec_stop`") and checks what survives that, beside
what is proved for any threads: `FreedIsSilent`, `ByeAfterDetach`, and
`UnloadEndsAll`, which the run checks with the unload beside the two threads. The
other five properties of `lifecycle_serial` are proved under the hypothesis
`AppsAreSerial` (section 4). They need it; a reader can see it by checking each under
`LifecycleConcurrent.cfg`, `CallGoneIsClean` with `Recs <- MCRecs`:

* `CallGoneIsClean`: `release_call_handler` unlocks between its scan and the
  unbind; a start that inserts and binds in between loses its handler. That is why
  `HangupTearsDown` asks for a call that holds it.
* `StopIsSilent`: a stop of a pinned recording dooms it and reports success, while
  the fork runs until the pin drops.
* `PauseIsSilent`: the media bug runs before `media_ctx` is published, so a pause
  in between finds nothing to gate.
* `FlowsOnlyWhenOffered`: the same pause then offers `inactive` while the fork runs.
* `UnloadLeavesNothing`: its first half, the empty table, is part of what holds of any
  threads. The second does not: an unbind and a bind of two threads may cross, and leave
  the handler on a call that is up without a recording, which the drain does not visit.

## 4. What is proved

For any calls, handles and recordings, any finite set of threads, and any batch
size of at least one (`RegistryAssumption`), with any assignment of threads to
calls (`LifecycleAssumption`):

* **The table** (`RecordingRegistryProofs`). `ReferencesAreLive` is not
  inductive by itself: that a pinned recording is not freed needs that its owner
  is alone (`SoleOwner`), which needs that `use_count` is exact (`PinsCounted`),
  which needs that a thread holds a pin just while its operation is under way
  (`PinsAreBalanced`); and that a claim hands out nothing already retired needs
  `ListedIsNotDoomed`. `IInv` is their conjunction with `TypeOK`,
  `RetiredHasHeir` and `UnbornIsUnknown` (an allocation nobody has inserted is
  known to nobody). `RegistryInvariant` proves it, with one lemma for each kind of
  step on the table and two on cardinality (`OnePinMore`, `OnePinLess`), which is
  where finiteness of `Threads` is used. `StartSuccessIsReachable` proves the
  action property from it.
* **Its refinement** (in the same module). Each step of the table is a `Create`,
  `Join`, `Leave`, `Retire` or `Free` of `RecordingOwnership`, or changes nothing
  the mapping reads.
* **Lifecycle** (`RecordingLifecycleProofs`). `LifecycleImplementsRegistry`
  brings all of the above to the whole lifecycle (`LifecycleKeepsTable`,
  `LifecycleImplementsOwnership`, `LifecycleListsItsStarts`).
  `SilentInv` strengthens `FreedIsSilent`: a running fork, a published `media_ctx`
  or a leg that is up belongs either to the start that is making it or to a
  recording with a dialog and a context, and a freed recording has none of these,
  because its owner passed `TornDown`. `ByeFollowsDetach` uses the same invariant.
* **String builder** (`StringBuilderProofs`). For any fragments and any sizes with
  `MinCap < 2 * MaxCap <= SizeMax` (`BuilderAssumption`: the header's "less than
  SIZE_MAX/2"). `BuilderInv` adds to `NoOverrun` the types, that a builder without a
  buffer has no length and no capacity, that the text is all that was asked for as
  long as no error is latched, and that there is one heap block exactly when somebody
  holds it; the refinement needs the third.
  `WrapFits`, `GrowthFits` and `CapacityFits` show that the three tests of
  `sb_can_grow_by` exclude every wrap-around and bound the doubling.
  `BuilderImplementsDocument` maps an append to `Ask`, whether it writes, is refused
  or is skipped: what is lost shows in `err`, and `sb_take` then gives nothing.
* **RTP fork** (`RtpForkProofs`). For any streams, frame length, widths of the two
  header fields and first values (`ForkAssumption`). `StreamsInLockStep` is inductive
  with the types. For `PacketsContiguous` the header of the last packet has to
  determine the next one's (`HeadersFollow`): the number always, the time unless the
  marker is pending. `ClockKeepsTime` compares clocks that wrap with a wall clock that
  does not; `DriftIsBounded` says, modulo the width, that a running clock is behind by
  the part of the frame that has gone by, give or take a frame per pause, and that a
  gated one is behind the moment it was gated by what it was behind then, which is
  what a resume adds up. The lemmas on `Stamp` are those sums.
* **Serial apps** (`SerialAppsProofs`). Under `AppsAreSerial`: only the thread that
  runs a call's state machine runs apps on it. That is how a dialplan runs them; the
  hangups, the SRS, the media thread, the unload and the apps of other calls remain
  free. It is a hypothesis of the theorems and not an assumption of the model, because
  the code does not enforce it (see the end of section 3). `SerialInv` has seven
  parts, each needed by the next. `Agenda`: a thread's place in the code fits its
  job, an app has a call that is not past its apps, an unload is the module's.
  `UnloadIsAlone`: no app runs beside an unload. `OwnBusiness`: an operation pins and
  owns only recordings of its own call. Hence `StartHolds`: nobody retires a recording
  while its start runs. `DrainsAreComplete`: the last pass of a drain has on its list
  all that is left, so a finished drain leaves nothing, which is what stop, hangup and
  unload need. `HandlersFollow`: a call with a recording has the handler, and a call
  without one has it only while somebody is about to unbind it. `OffersComeFirst`: a
  pause gates before it offers, a resume opens after. From these follow
  `FlowsOnlyWhenOffered`, `CallGoneIsClean`, `UnloadLeavesNothing`, `PauseIsSilent` and
  `StopIsSilent`.
* **The unload, on any threads** (same module, without the hypothesis). The first three
  parts of `SerialInv` do not need it, nor does what the fifth says of an unload: nothing
  is inserted once it has begun, so the last pass of its drain misses nothing.
  `UnloadInvariant` proves these alone, and `UnloadsEndAll` that with the unload over
  every recording is freed, or owned by a hangup of its call: `RetiredHasHeir` names
  somebody who has it, and the agenda says who that can be.
* **The answer** (`SrsAnswerProofs`). For answers and arrays of any length
  (`AnswerAssumption`). The parser keeps four locals; the properties read the
  answer as a whole, with its sections, the last address in each and ranks. `AnswerInv`
  says that the locals are that reading of the lines so far (`LocalsAreReading`), that
  the array is the accepted sections in order, up to its length (`StreamsAreReading`,
  `EntriesAreAccepted`), and how far the sockets have come (`SocketsFollow`). Its
  induction is on one more line; most lemmas say what that does to each set the
  reading is made of, and to their cardinalities.
* **A start** (`RecordingStartProofs`). For any file of elements, calls, arguments,
  number of attempts and sizes. `StartInv` needs, beside the types and the builder's
  invariant: that the table is the file's, or empty after an unload
  (`TableFollowsFile`); that no file is read while a start runs (`FileStands`); what is
  held at each stage (`HeldWhileRunning`, where the SRS may have ended the leg); what
  the returned result says of what was left when the pin was let go, and that whoever
  came later took the recording whole (`ResultStands`), why a start failed
  (`ReasonStands`), and that an outcome is published as it was returned and not before
  (`StatusFollows`); that the candidates are copies of the
  handle's good entries (`ChainFollowsFile`), which stays true when an unload has taken
  the table, and that the INVITEs are the first candidates' (`InvitesFollowChain`);
  that what has been appended and what is to come are together the document of this
  call (`TextFollowsCall`); and that the buffer's length is the sum of what went in
  (`LengthIsSum`), without which a start could give up a text that fits.
  `StartsBuildDocuments` shows that each step of a start is a step of `StringBuilder`
  or none, so the builder's theorems hold of every start. `MetadataMatchesOffer` is
  about the document's elements for any call: all the cases of who is heard where and
  which names are there. The assumptions are: at least one attempt, a UUID from
  the core that has the form of one, names that are strings of characters, texts for what
  a channel says of its parties, and a length for each URI
  (`StartAssumption`); every element of a document
  has a length, and that is at most `SIZE_MAX` (`ElementsAssumption`); the ports of a
  file are what `load_recording_server` lets through, -1 to 65535
  (`EntriesAssumption`). TLC evaluates them all.

* **Identifiers** (`RecordingStartProofs`). `EveryNameIdentifies` holds of every sequence
  of characters: `siprec_metadata_uuid_to_id` takes exactly the UUIDs with and without
  their hyphens and the CallSids, and the base64 it writes decodes to the bytes of that
  name. `Scan` is a recursive function; `ScanExists` shows that there is one, from the
  last character back, and `ScanUnfolds` that it is one pass at each character. `Places`
  says where byte k begins and whether a hyphen follows, so `Scanned` can be carried from
  byte 16 down to byte 0. `GroupOfThree` and `LastByte` are the base64 of three bytes
  and of the one left over. `IdentifiersAreUuids` is `IdsAreUuids` for any names.
* **G.711** (`G711Proofs`). `LoopInvariant`: the entry written last is the sample's. The
  rest is arithmetic on segments: the mask loop ends in the segment the magnitude lies in
  (`ExponentIsSegment`), the nibble says where in it (`NibbleCuts`), and the level an
  octet decodes to is the middle of what its nibble cannot tell apart
  (`UlawLevelIsNear`, `AlawLevelIsNear`), which gives `TablesQuantise`; a greater
  magnitude has no lower level (`UlawLevelsRise`, `AlawLevelsRise`), which gives
  `TablesRise`. The reference is the repository's own decoder, as in the run.

Some of these definitions count or sum over data (`Cardinality`, the running sum
`SumOfSizes`). The library's induction theorems take an operator and cannot be used;
where a statement about all positions was needed it was shown by a least
counterexample (`HasLeast`, from the well-foundedness of `<` on the naturals).

Only model-checked: liveness (`RetiredIsFreed`, `OperationsReturn`, `HangupTearsDown`)
rests on fairness and ENABLED and is beyond the prover. What the five runs of section 3
refute is of course not proved either.

## 5. What is not modelled

* The mutexes' own life: a hangup handler still running when the unload destroys
  them (`NothingCallsUnmapped` shows that it may be running).
* The two reads of `mctx->bug` in `siprec_media_set_paused` and its removal on
  another thread; a needless resume that writes the clock while the callback does
  (both listed as hazards): apps and pings are on one thread in `RtpFork`, as they are
  on a plain call, and the code has no lock whose holds could be the steps.
* Resampling, downmixing, socket errors on send (a packet lost there uses its
  number up as one lost on the wire), and the octets of the RTP header.
* Dial string, multipart body, SIP headers, XML layout and escaping: formatting. A
  dial string that overflows is a candidate that fails.
* A property against the cut of `siprec_uri_for`, or against its `:_:`: both are
  modelled, but `DialsItsServer` asks for a whole address of hosts up to 230
  characters only, and excepts the host that ends in `:_` from the check. Nothing in
  the repository promises more.
* That a recording whose start succeeded still has its leg: `OutcomeIsTrue` promises
  the answer, the fork and that nobody stopped it before the pin was let go
  (`doc_ended_leg_stops_fork` shows what is left when the SRS ends the leg early).
* Heap blocks other than the metadata builder's: the recording's key and the AORs are
  freed on the path that made them and `NothingLeaks` does not count them.
* In `RecordingLifecycle` a `siprec` begins, finds the media ready and inserts in one
  step. On the call's own thread that loses nothing: what comes in between could as well
  come before the app or, like a hangup, whose handlers wait for this thread, after the
  insertion (the unload is the exception section 2 speaks of). For an app on another
  thread it leaves out an insertion after the whole hangup has run. A handler that is
  bound after the hangup, with the same result, is in the run, and `HangupTearsDown`
  claims nothing for either.
* Splitting an app's data into tokens; the outcome variables of pause, resume and
  stop (their outcomes are `RecordingRegistry`'s `ret`).
* Tests and build files.

## 6. Plan

Done: all modules of section 2, and the theorems of section 4. What is left, most
useful first:

1. `RecordingStart` composed with `RecordingLifecycle`, one step of the walk for each
   step between the lifecycle's `invite` and `attach`.
2. `RtpFork` with app and callback on two threads, once there is a reference for what
   the build makes of the unlocked reads.
3. Proof: what survives of `PauseIsSilent` and `StopIsSilent` with apps on two threads,
   for a recording that no start still holds.
