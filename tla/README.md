# A TLA+ model of kseqi

kseqi is a hotkey daemon for X11. It recognises *sequences* of key presses and
releases (`Control_L X X S S Control_L`), performs actions for those that the
configuration names, and types all others again, so that the applications get
what they would have got without it. This directory holds TLA+ modules of its
parts, TLC configurations that check them on small instances, and proofs of
some of their properties for instances of any size.

Paths and lines below are those of the repository (`src/lib.rs`, ...).

## The system

| Component | State | Operations |
|---|---|---|
| `Main` (`src/lib.rs`) | `devs`, `seqbuf`, `down`, `maybe`, `modifiers`, `floating` | `proc_xin_devent`, `proc_hier`, `add_dev`, `unfloat`, `run`, `Drop` |
| `Xdo` (`src/dispatch.rs`) | `acts`, `last_add`, `replay`, `resume`, `acting` | `add_acts`, `add_unmatch`, `pass_key`, `ondevchange`, `proc` |
| `SymCode` (`src/dispatch/key_changer.rs`) | `def_syms`, `mut_syms`, `shift` | `find_sym`, `affirm`, `Drop` |
| `Mapping` (`src/conf/mod.rs`) | `grabs`, `seq_act`; while read: `name_sym`, `symbuf` | `load_mapping`, `MapBuilder::add`, `setup_device`, `get` |
| `Xconn`, `XlibDpy` (`src/xdl/`) | two connections, the poll, xlib's queues | `recv_timeout`, requests, keymap snapshots |
| `Devs` (`src/dev.rs`, `src/xdl/xinput1.rs`) | open `XDevice` handles | `find_dev`, `add`, `Drop` |
| signals (`src/signal.rs`) | the sender of a pipe | `quit_recver`, `os_handler` |
| parser (`src/conf/parse.rs`) | none | `assignment_line` and the parsers it is made of |
| names of keys (`TransKeyName` in `src/conf/mod.rs`, `ALIAS_KEYSYM` in `src/xdl/keysym.rs`) | a cache | `get_keysym` |
| configuration file (`src/conf/fs.rs`) | the file | `read_seq_file` |
| start (`run` in `src/lib.rs`) | what was learnt so far | `run` up to the loop |
| keyboard maps (`SymsOfCodes`, `ModifierCodes` in `src/xdl/mod.rs`) | a snapshot of the server's | `sym_key_map`, `sym_key_code`, `unassigned`, `fallback_unuse`, `iter`, `code_map` |

They interact like this. `run` lists the devices, reads the configuration, asks for
changes of the device hierarchy, grabs the keys of the configuration on every keyboard, reads the
keyboard map for `Xdo` and the modifier map for `Main`, and enters the loop. The X server reports key events of the selected
keyboards and changes of the device hierarchy. `Main::run` calls `Xdo::proc`,
which makes at most one faked key or so and says how long to wait, then awaits an
event for no longer than that, and hands it to a handler. The keys that begin a sequence
are grabbed passively, so pressing one *floats* its keyboard: its keys reach
kseqi and no application. The handler notices (`dev_floating`), grabs the whole
keyboard and lets go of it when no key is down any more; the keys since then
have an action (`add_acts`), or are typed again (`add_unmatch`), or were given up because
the applications had some of them. `Xdo` fakes keys on an XTEST device;
for a symbol on no key, `SymCode` maps a spare keycode to it.

What is hard about it:

- **Concurrency with the user and the server.** Every question the loop asks the
  server is about the present, every event about the past. The handler has
  several round trips, and the user does not wait.
- **A start in many steps.** Devices, the keyboard map and the file are looked at one after
  the other, and each may change before the next step; nothing is reported until it is asked for.
- **Two connections.** Events, grabs and queries use the connection of
  `Xconn::newx`; faked keys, key mappings and `sync` use the one of `with_xl`. The server
  need not come to requests on the two in the order they were made.
- **Failure.** Requests fail and are only logged; keyboards go away at any time.
- **Timing.** Pauses between faked keys are cut short by events; an application
  reads the keyboard map later than kseqi changes it.
- **Long sequences of legal calls**: queues of actions, replays and repeats that
  mix, a cache of spare keycodes that goes round.
- **Text.** Lines are read with alternatives that are never given up again, quotes, escapes, commas
  and comments in one another; a name may be a letter, an X11 name or an alias.

What makes the components correct: no key is lost, typed twice or left stuck
down; no keyboard is kept; an action runs for its whole sequence only; actions
run in order and apart from replays; each character arrives as itself; each
sequence of the configuration has the grab it needs, and means what the user wrote; every
keyboard is listened to, but never the device kseqi types with; the keyboard map and the user's
file are left as they were.

## Modules

| Module | What it is |
|---|---|
| `XServer` | The server, the keyboards and the user, as far as kseqi relies on them (external, except where it is a wrapper's effect). |
| `Main` | `struct Main`, extending `XServer`. |
| `Hotkeys` | The abstract specification of what becomes of the keys; `Main` implements it. |
| `MCMain` | Instances of `Main` for TLC. |
| `MainProofs` | Proofs about `Main`. |
| `GestureProofs` | More of them: whole sequences, the refinement, nothing left stuck. |
| `AccountProofs` | More of them: what the applications are owed, and with which modifiers. |
| `Xdo` | `struct Xdo` and `struct SymCode`, with the map of the server and one application that reads. |
| `Typist` | The abstract specification of what is typed; `Xdo` implements it. |
| `MCXdo` | Instances of `Xdo`. |
| `XdoProofs` | Proofs about `Xdo`. |
| `Keysym` | The aliases of key names. |
| `Parser` | `src/conf/parse.rs`: the grammar of a line, on tokens. |
| `Mapping` | `MapBuilder` and `load_mapping`, extending `Keysym`. |
| `Config` | `Parser` and `Mapping` together: from the text to the map; and how a user writes. |
| `Keymap` | `SymsOfCodes` and `ModifierCodes`, on the server's maps. |
| `MCMapping` | Instances of `Config` with the keyboard of a `Keymap`. |
| `Startup` | `run` from the start to the loop and at its end, extending `Keymap`. |
| `MCStartup` | An instance of `Startup`. |
| `StartupProofs` | Proofs about `Startup`. |
| `KeymapProofs` | Proofs about `Keymap`. |
| `Await` | The abstract specification of waiting for an event. |
| `EventLoop` | `recv_timeout` over Xlib, the poll and the signal's pipe; implements `Await`. |
| `MCEventLoop` | An instance of `EventLoop`. |
| `EventLoopProofs` | Proofs about `EventLoop`. |
| `MappingProofs` | Proofs about `Mapping`. |

Operators named `...Lenient`, `...Leaky` and so on, with a comment "Mutant", are plausible mistakes in
the definition that follows them. They are used nowhere; putting one in place of its
definition breaks the property `PROJECT.json` names with it, which shows that the
property depends on what the code does.

### XServer

Variables: which keyboards are there, detached, selected and armed with
passive grabs; the keys physically `held`; the passive and explicit grabs;
`core`, the keys the applications believe down; the two streams `events` and `fakes`. `due` is history: for each
key and set of modifiers how many of the user's presses the applications are
still owed. A press on a floating keyboard makes it owed; an application that
gets it, by a faked key or directly, is owed one less; keys that had an action,
or that `add_unmatch` refuses for their number, are owed no more.

A passive grab begins with a press under exactly its modifiers and ends with the
release of its key. The server releases all keys of a keyboard before it floats,
attaches or removes it.

### Main

`proc_xin_devent` is three steps, because the user may act between its round
trips: `RecvKey` takes an event and asks `dev_floating`; `GrabFloating`, if it
does, requests the grab; both then run `HandleKey`, which ends with the reply of
`query_keys_down` when no key is down. `Settle` is the rest: it unpresses what
the reply lists, decides what becomes of the sequence and unfloats. A report
stays at the head of `events` until its key is taken in. `RecvHier`, `ProcReplay`
(one key of `Xdo::replay`) and `Quit` are one step each. `MayFail` says which steps may fail on which keyboard: `grab_device`;
`add_dev`, when it cannot open one; `setup_device`, which grabs some of the keys.
`RemoveDev` drops the handle of a keyboard; unless it was disabled that closes the device,
and the server then lets go of what kseqi had grabbed of it (`CloseDevice`).
Keys repeated by the keyboard never get past `get_key` and are left out.

### Hotkeys

What a user may rely on, in terms of *bursts*: the keys from the first that goes down to the last that comes up. A burst is `kept`
until a plain key of it reaches the applications. At its end a kept burst has its line's action (`Fire`), or
is typed again as a whole and in order behind what still waits (`TypeAgain`), never both; it is dropped only for the
reasons `Forget` lists. `Main` implements it with `kept <- maybe`; `burst` is history in
both, so that the refinement says that `seqbuf`, from which the code works, is the burst. It claims nothing of when a burst
is kept, which depends on how late the loop asks (`ExactlyOnce`, `main_lag_loss`).

### Xdo

`Proc` is all of `Xdo::proc`: the action in progress goes one step (`RunText`, `RunKeys`,
`RunClick`); if it ended, one key is typed again; if there is none, actions
that end at once are done until one does not, which takes its first step. Time is
reduced to `paused`, whether `resume` lies in the future. `Elapse` ends a pause, and
the model's one assumption about the speed of an application is there: after a
pause at most `Lag` messages are unread. The pause after an action's first step is
not kept in `resume`, so the model has none. Characters are keysyms: what `find_sym_str`
does with a character is a fixed renaming. `Main` is free to call anything at any time: the user's burst may
end amid an action, and may be a line's (`Recognise`) or not (`NotRecognise`). It then lets go of all keys the server
says are down, of which an action may hold any (`Unpress`); whether that took Shift from a text is the
history `loosed`. That `pass_key` does this at once, past the queues, is why the model has it as part of
these actions; keys of the user it lets go of are in `Main`.

### Typist

The other promise, of what kseqi types: an application is sent the symbols of one action after the other, each once and
in order, and keys that are typed again only between two actions. `Xdo` implements it with `now`, the symbols still to be typed of
the action in progress, read off the kind, the index and the direction of `acting` (`Unpressed`), and `wire`, the unread messages of
the application one by one (`Sent`): a key that is typed is the symbol it is meant for. Whether the application takes it for that
symbol is `TypedRight`. Presses of Shift and changes of the map may come anywhere; that Shift comes when it should is
`TypedRight` again, and that keys are released `AllReleased`.

### Mapping

The names of a line become keycodes; a line is left out for any of the reasons the code has, at the
same places. The modifier mask is a set of bits, so exclusive or is parity. A line's
actions are represented by its number and the key names that occur in them. The abstraction is
undone in `Config`: `Parsed` and `NameSym`, which `Mapping` takes for granted, are there what
`AssignmentLine` and `GetKeysym` make of the texts.

### Parser and Config

A parser is an operator that takes a text and fails or answers with a value and the rest; `Then`,
`Or`, `Opt`, `Many` and `SepList` are nom's combinators (external), and each function of `parse.rs`
is the operator of its name. `Or` never goes back to its second alternative once the
first has succeeded, as `alt`; `Many` is a function on how much is left. A text is a sequence of tokens:
each sign by itself, a word or a number in one, as the grammar cuts words
only after the name of an action.

`Write` is the reference for reading: it writes a line as `configuration.md` describes, with or
without arrows, quotes, blanks and a comment, with quotes where they are needed. `AsWritten` says that reading
gives what was meant, for all styles; that garbled lines give nothing; and that the sequence kept for the
line is the one of the symbols its names stand for.

### Keymap

`SymKeyMap` (for sequences: first levels only) and `SymKeyCode` (for typing: two levels, the second with Shift)
give a symbol the lowest of its keycodes; `Unassigned` and `FallbackUnuse` are the spare
keycodes. `Modifiers` is `ModifierCodes::iter` and `CodeMap` is `code_map`, which read the table of the
server in two ways: `Main` uses one and `MapBuilder` the other.

### Startup

`pc` is where `run` is; each step asks the server or the file system once: `Find` (`query_device`), `Look`
(a device's properties, then opening it), `Looked`, `NewMapBuilder`, `IsFile`, `Create`, `WriteExample`,
`Read`, `Select`, `Setup`, `NewSymCode`, `NewMain`; then `ProcHier`, `Lend`, `Quit` of the loop. Between them
devices come and go (`Plug`, `Unplug`), another keyboard map is loaded (`Relayout`), the user writes a file
(`UserWrites`) and kseqi is killed and started again (`Crash`), which forgets everything but the file, whose example may be
half written. `gap`, `lost`, `orig` and `relaid` are history.

`ProcHier` looks an added device up with `query_device`. If it has gone, the answer is a null pointer and a
length of -1, of which the code makes a slice: undefined. The model has two outcomes, that no
device is found and that the process ends; the end at any time is also what `Quit` in `Main` allows for.

### EventLoop and Await

`Await` is what `Main` relies on: `Call`, then one `Answer`, with events in the order they
came, those that were there at the call first, `None` only if a time was given, `Quit` only after
a signal. In `EventLoop` an event goes from `socket` to `queue` (Xlib's) when
something reads: `Pop` (`XCheckIfEvent`), or `RoundTrip`, a request of a handler that has a reply.
The poll sees only `edges`: an arrival it has not reported, or the end of the pipe.
`Request` is one without a reply; Xlib keeps it until `RoundTrip` or a `Pop` that
finds nothing. `Signal` may come at any point and may cut the poll short. `Call`,
`Pop`, `Check` and `Wake` are the statements of `recv_timeout`, in that order.
The inbox of `Await` is `queue \o socket`; its history `clear` is kept in both.

In `Main` this is one step: `RecvKey` and `RecvHier` take the head of `events` and `Quit`
may happen at any time, also with reports pending, as one poll may report both.

## Runs

Bounds are small because each question needs few keys: the Emacs line of
`configuration.md` has two different plain keys and a modifier, and every way to
deviate from it shows within four or five presses.

| Run | Question | Instance |
|---|---|---|
| `main_lag` | no stuck keys, no press of a key that is down, whole gestures only; refinement of `Hotkeys` | 1 keyboard, 4 presses, 1 hotplug operation, 3 behind, grabs that fail, a key held at startup, replay limit 4 |
| `main_prompt` | every key exactly once, if the loop keeps up; and with its modifiers, if the user also waits for replays | 1 keyboard, 5 presses, 2 sequences and an orphaned grab |
| `main_hot` | grabs given back, the first state regained, listening to the keyboards that are there; in the end the keyboard is returned and the replay drained | fair; 2 keyboards, of which the second may not open or be set up in part, 2 presses, 3 hotplug operations, grabs that fail; an orphaned grab |
| `main_two` | *violated:* `debug_assert!(np)` with two keyboards | 2 keyboards, 2 presses |
| `main_lag_loss` | *violated:* exactly once, one report behind | 1 keyboard, 3 presses |
| `xdo_typing` | queues in order, apart, no key left down; the cache of spare keycodes | 4 lines, 3 times; 1 replay; 1 new keyboard; replay limit 3 |
| `xdo_greek` | characters read right, every queue worked off; refinement of `Typist` | fair; 3 lines, 3 times; 2 spare keycodes, 3 unmapped symbols, 3 messages behind, 1 replay |
| `xdo_combo` | *violated:* keys left down after `key alpha+beta` | 5 spare keycodes, as many as kseqi takes |
| `mapping_all` | grabs and sequences of all configurations; lines are read as written | 13 lines, 3 at a time; 7 lists of actions in all 16 styles and 10 garbled lines, one at a time; a keyboard with two Control keys, used one after the other |
| `mapping_two_ctrls` | *violated:* both Control keys at once in a sequence | the same keyboard |
| `event_loop` | nothing overlooked while asleep, refinement of `Await`, a signal is seen | fair; 2 kinds of events, 3 waiting, 2 signals, waits of 1, 2 or for ever |
| `startup` | what is learnt at one step of the start still holds at the others; devices, modifiers, spare keycodes, file | 7 devices, of which 3 come and go, twice; 2 keyboard maps; 1 crash |

In `startup` a device that comes back has the same description, as if ids were never
given to another; the world stops when kseqi has ended; the user writes the file only until it is read, as
nothing reads it again. Two plugs let a device come and go, or go and come again, around any step.

Deadlock is not checked: kseqi may exit, the user may stop typing, and a
configuration ends.

What the passing runs rest on, found by making them fail:

- `ExactlyOnce` holds only if the loop handles a report before the user's next
  act (`MaxBacklog = 1`), and only if no key was held at startup: a sequence of
  odd length below eight is dropped (`SmoVec::from_iter` has no form for it).
- `NoStuckKeys` and `AtRest` are about keyboards that are not typed on while the loop has yet to hear that they came or
  went (`Noticed`, see the proofs). Their runs have too few presses and hotplug operations for that to matter.
- `Listening` excepts, of a keyboard that cannot be opened, all it says of it, and of one that cannot be set up its grabs;
  `setup_device` stops at the first key it cannot grab. Of the other keyboard it says the whole.
- `AsTyped` also needs a user who has always waited for the replay (the history
  `hasty`); otherwise a modifier
  that is typed again changes what is typed at the same time.
- `TypedRight` holds with two spare keycodes up to three unread messages and
  fails with four; kseqi takes five spare keycodes where there are as many.
  A character on a shifted level may lose Shift if `Main` lets go of it amid the text (`loosed`): that
  happens to a user who goes on typing while kseqi types.
  With a keyboard map replaced by hotplugging it is not claimed, nor for `key` with
  a symbol on a shifted level (`key question`), whose key is pressed without Shift.
- `AllReleased` needs combinations with no more than one symbol that has no
  keycode, `InOrder` a `repeat` in first place.
- `Heard` leaves out keyboards that came or went between `find_dev` and `select_change_events` (`gap`).
- `SparesFree` and `LeavesMap` need a keycode without symbols: else `Spares` takes one that has some,
  and on exit kseqi empties it. `SameModifiers` and `LeavesMap` need that no other keyboard map is loaded meanwhile.
- `NotItself` needs that the device to type with has not gone since.
- A comment after `exec` is an argument of it, so `AsWritten` has none there.
- `LastWins` needs that no name in an action stands for a symbol without a name.

### Fairness

`Main`: weak fairness of each step of the loop and of the server. The loop is one
thread that runs handlers to their end, and calls `proc` before it awaits an
event, so a step that stays possible is taken. Nothing is assumed of the user, who
may hold a key for ever: `KeyboardReturned` only claims what follows if no key
is held. `Xdo`: weak fairness of `Proc`, of the passing of time, and of the
application, which is assumed to read its events. Lines and replays are bounded.
`EventLoop`: weak fairness of `recv_timeout` (and of its being called again) and of
time. That is not enough for a signal to be seen: if events keep coming, or if every deadline
passes between the call and the poll, the poll is never reached. `QuitSeen` has
both as premises.

## Proofs

`MainProofs` proves, for all values of the constants that satisfy the
assumptions `XServerAssumption` and `MainAssumption`:

- `TypeCorrect`: `Spec => []TypeOK`.
- `Freed`: `Spec => []KeyboardFreed`. `KeyboardFreed` is made inductive by
  `LeaseInv`: whenever the loop is not in the middle of a handler, a keyboard is noted in `floating` only
  while a key is down, and `active` holds no keyboard but that one. `HandleLease` shows that
  a handler that leaves no key down goes on to `Settle`, which gives the keyboard back.
- `Rests`: `Spec /\ []Noticed => []AtRest`, for keyboards that come, go and are floated, and requests that fail. The invariant `Noted`
  says that every key in `down` is held on a keyboard of `devs` or has its release still in
  the queue (`DownEnds`), and that all reports of presses are followed by releases likewise (`PressesEnd`); so with an
  empty queue and nothing held, `down` is empty. That a keyboard takes its keys with it does no harm since the server releases
  them first: no report of a key stands behind one that its keyboard came or went (`KeysFirst`), and a keyboard
  the loop knows is one it hears, unless it will read that it has gone (`Heeded`).
- `NeverPressedTwice`: with one keyboard, `Spec /\ []Noticed => []PressIsNew`. The
  invariant `Alternating` says that between two presses of a key in the
  queue, and before the first if the key is down, there is a release. With two keyboards
  the claim is false (`main_two`).

`Noticed` says that no key is held on a keyboard of which a report that it came or went is on its way. It is a premise
about the user and the loop: who plugs a keyboard in types on it only when kseqi has come to know it. Without it these claims
are false, and so is `NoStuckKeys`, because the handler drops the keys of a keyboard that is not in `devs` (line 78), be it not
yet or not any more. The shortest case TLC finds has three hotplug operations and two presses before the loop reads
anything: a keyboard is detached and attached again, a sequence is begun on it, by which it floats, and it is unplugged. When the loop
reads that it was added, it is gone; its keys are dropped, and the modifier stays down in the applications.
If no keyboard comes, goes or floats (`MaxPlugs = 0`), `Noticed` always holds (`InPlace`); so each of these
theorems has a corollary `...InPlace` without the premise.

Also in `MainProofs`:

- `Listens`: `Spec => []Listening`, whatever comes, goes and is floated. `Listening` speaks of
  the moment when all reports are read; `Followed` says of each keyboard what is true before: if it is
  attached, it is listened to and no report on the way says that it goes (`Settled`), or its last report says that it
  has come, and if it is known still, one before that it goes (`Coming`), without which `AddDev` would pass it over; if it
  is known and not attached, a report that it goes is on the way; and between two reports that it has come there is
  one that it goes (`Ordered`). It is shown for a report made (`FollowedGrows`) and one read
  (`FollowedTaken`), which is all that actions do to it.

`GestureProofs` proves `PromiseKept`: `Spec => KeepsPromise`, that is, `Main` implements `Hotkeys`, without any assumption
but those two. Its invariant `Kept` says that while `maybe`, `seqbuf` is all of the burst, and that each key pressed in it is in `down`
or released later in it, so that with `down` empty it is complete; `Settle` then is `Done`. For a sequence that
`Packs` refuses, which is not empty, its length is odd.

It also proves `WholeGestureThm`: `Spec /\ []Noticed => WholeGesture`, with one keyboard and no key held
at startup. While `maybe`, `seqbuf` is all of the `burst` (`Gesture`), and `InTurn` says that a burst is what its
keycodes spell, and a key is down exactly if it has occurred an odd number of times. For the next key to keep that, reports must
alternate, also in that a release follows a press: `Rising` is `Alternating` the other way round. A key that
was held at startup would begin with a release, whence the last assumption.

And it proves `NothingStuck`: `Spec /\ []Noticed => []NoStuckKeys` for any number of keyboards, however they come and go, however far
loop and server are behind, and whichever grabs fail, those of `setup_device` included, if keyboards that come can be opened (`Opens`). By `Lifting` every key the applications have
down has a release before it (`CoreEnds`): the user's, one that is faked already, one in `replay`; or the loop
believes some key down, and will unpress what they have when it does not any more. To keep that, each key that
is faked as pressed must have a release after it (`FakesEnd`), and each in a replay (`ReplayEnds`), for which a sequence must
release what it presses once no key is down (`SeqEnds`). With hotplugging the releases are those of keyboards in `devs` only;
what makes that enough is that a keyboard the applications hear, with no report on the way, is one of those
(`Ready`, from `Attentive`, the invariant of `Listens`). It is not where a keyboard cannot be opened. Then four operations
suffice to leave a key stuck: a keyboard is unplugged and plugged in twice, `remove_dev` forgets it without
closing it (`DeviceDisabled`), which leaves its passive grabs, and `open_dev` fails for the last; its sequences float it, and nobody hears.

`AccountProofs` proves, under `KeepsUp` (one keyboard, which stays, at most one report on the way, and no
`XIGrabDevice` that fails) and with no key held at startup, which is what `main_prompt` checks:

- `ExactlyOnceThm`: `Spec => []ExactlyOnce`. `Prompt` says that the loop and the server then agree: which keyboard
  floats, but for a passive grab whose press is on its way (`Synced`), what is down (`InStep`), and that `seqbuf` has
  presses of plain keys only while it counts (`NoPlain`). `Balanced` keeps the account: what an application is owed
  of a key is what has been faked and not arrived, what waits in `replay`, what `seqbuf` withholds, and the press that is
  on its way to the loop. When all is quiet each of these is zero. `Even` is there for `Packs`: once no key is down a
  sequence that counts has an even length, so that none with a plain key is dropped for an odd one (`NothingDropped`).
- `AsTypedThm`: `Spec => []AsTyped`. As long as the user has waited, `Patient` says that the same account balances for each
  key together with its modifiers (`Accounted`). `Strokes` and `ModsAfter` say what an application would get, were it to be
  sent what is pending: which key with which modifiers, and the modifiers it is left with. `ModsLeft` says that they are
  those that are down, and `StrokesJoined` that one list after another means the one and then the other from
  where the first leaves off; by it a sequence moves from `seqbuf` to `replay`, and from there to the server, and means
  the same. That holds because what the applications have is released first (`Caught`).

What an application is owed of a key is a sum over all sets of modifiers. `SumFunction` of the community
modules is a fold, and so defined by a choice of a recursive function; `AddsExists` shows that there is one, from which
`SumIs` and, for two functions and for a change at one point, `SumPlus` and `SumPoint` follow.

`MappingProofs` proves, for all values of the constants that satisfy `MappingAssumption`:

- `MappingTypeCorrect`: `Spec => []TypeOK`.
- `EachCovered`: `Spec => []CoverUnshared`, which is `GrabsCover` of each sequence in which no two keys of one modifier are
  down at once before the first plain key (`NoneShare`). A keyboard may have as many keys of a modifier as it likes, and
  a sequence may use several, one after the other. `Covered` follows: if no line has two down at once, `Spec => []GrabsCover`. Without that it is false
  (`mapping_two_ctrls`). The exclusive or counts how often a bit is used, and the user knows which keys are down;
  `ParityAgrees` says that the one is odd exactly if an odd number of the keys of that bit is down, since each key more changes both
  (`HeldToggles`). If the keys down share no bit, that number is one or none (`ParityIsHeld`).
- `LastWinsThm`: `Spec => []LastWins`, if the keyboard's symbols, and those that names in actions stand
  for, have names (`Named`). Without that a name refused once is remembered and accepted when it
  comes again, so that what a line does depends on those before it. Under `Named` a line is added exactly if it is usable
  by itself (`AddedUsable`); `Last`, which is `LastWins` said of the lines read so far, is then inductive with `TypeOK`.

`EventLoopProofs` proves, for all values that satisfy `EventLoopAssumption`:

- `LoopTypeCorrect`: `Spec => []TypeOK`.
- `NoLostWakeup`: `Spec => []Wakeful`. `Wakeful` speaks of a sleeping loop; its invariant
  `Watched` says in addition what holds on the way there: an arrival that was
  reported and not read is found only where `XCheckIfEvent` is about to read, with an empty queue.
- `Implements`: `Spec => A!Safe`, that is, each step is a step of `Await` or changes
  nothing it speaks of. It needs `Watched`, by which `None` and `Quit` are
  answered only if no event was there at the call.

`XdoProofs` proves, for all values that satisfy `XdoAssumption`:

- `XdoTypeCorrect`: `Spec => []TypeOK`, and `MapTrueThm`: `Spec => []MapTrue`, from one invariant, `XInv`. It says
  that `mut_syms` lists each spare keycode once (`Lists`), and that the server maps each to the symbol listed with
  it, unless a new keyboard has taken that away and its event is still to be handled (`Agrees`). `FindSymGood`
  is the step that matters: taking the keycode from the front, putting it at the end and mapping the one that is now
  in front keeps both. `affirm` and `Drop` map the keycodes by their entries, which is only
  a function because each is listed once.

It also proves `Releases`: `Spec => []AllReleased`, and `KeptApart`: `Spec => Apart`, under the assumption `Tidy`: the symbols
of a `key` that no key of the keyboard has are all the same, sequences to be typed again release what they press, and buttons
have numbers of their own. Without the first they are false (`xdo_combo`). The
invariant `Releasing` says what the XTEST device may hold: what the action in progress
will release, which `ActHeld` reads off its kind, index and direction; or, between actions, keys with a release in
`replay`. `FindSymOn` is why that works: a symbol is found on the keycode it was pressed on (`On`) as long as
no other is mapped to a spare keycode meanwhile, and one that is not found was not pressed.

`InOrderThm`, `Spec => []InOrder`, needs no assumption. `OrderInv` says at every moment what `InOrder` says when all is
done: what has been begun, followed by what is queued, is what the lines so far ask for, and `last_add` is the line that a
`repeat` would repeat. `Asked` is defined by a recursive function over the lines; `AskedMore` is its step for one line more.

`TypedRightThm`, `Spec => []TypedRight`, is about a race: `find_sym` maps a keycode anew while an application may still have a
press of it to read, which it then reads by the wrong map. It assumes `Legible`. That is `Tidy`; no keyboard plugged in; fewer than
2 N messages unread when a pause ends (`Lag`), for N spare keycodes; a keyboard whose symbols differ in keycode or Shift;
a Shift key that is no spare keycode; and `Plain` actions, of which none presses ShiftKey as a symbol and no `key` has a symbol that needs Shift,
which it would press without Shift. The bound is exact: with two spare keycodes `TypedRight` fails if four messages may be unread.
`Legible` may ask that symbols differ since what `SymKeyCode` finds on a keyboard always does (`SymKeyCodeInjective` in `KeymapProofs`).

The invariant `Typing` counts. A keycode comes round after N - 1 others were mapped, and between two mappings there is a
pause; each mapping sends a `MappingNotify` and the press that it is for. So a press that is read by a later map has
at least two messages behind it for each keycode mapped since (`Spaced`), and the keycode that is due next is none of those unread
(`Clear`) once a pause has ended with fewer than 2 N. Until the next pause a step either maps nothing (`Ready`) or `Clear` holds. `Right`
then says that each press means what it should by the map that will be there when it is read, and `Steady` that what an
action has found it will find again, on the same keycode, for the release.

`TypesAsAskedThm`, `Spec => TypesAsAsked`, is the refinement of `Typist` and needs no assumption. One lemma carries it, `RunTypes`: a step of an
action strikes the first symbol still to be pressed, or none, and one that ends it leaves none (`Types`). It goes by the kind of the action;
what `find_sym` does in between is a change of the map and no more (`WireFind`). `BegunTypes` says that an
action begun has all its symbols to type. The invariant needed is only that of the types, `XInv`.

`KeymapProofs` proves `ModifiersThm`: for every table of 8 groups of at most 8 keycodes, `Modifiers` and the
domain of `CodeMap` are the same set. The bound is needed, since `iter` looks at eight keycodes of a group: with more, `Main` would miss some that
`MapBuilder` knows. It is an assumption about the server (`StartupAssumption`), on which the code relies.
It also has what is known of the keycodes to spare: there is at least one, and none is a keycode that is typed with, if any
keycode is free (`SparesAre`, `TypedInUse`), and that
`SymKeyCode` finds no two symbols on one level of a key (`SymKeyCodeInjective`). They are the first of the free ones in descending order; that finitely many can be
put in order is `OrderedExists`, by induction over sets.

`StartupProofs` proves, for all values that satisfy `StartupAssumption`:

- `UserFileKeptThm`: `Spec => UserFileKept`; each step by itself.
- `NotItselfThm`: `Spec => []NotItself`. `NotItself` is a fact about two lists, and the invariant `IInv` says why
  it stays true: until changes are reported there are no reports; the devices still to look at are
  not yet known; and while `xtdev` has not gone, it is there, so that no report that it was added can be waiting.
- `SameModifiersThm`: `Spec => []SameModifiers`. `ModInv` says that both sets come from the modifier map there is,
  which no step but `Relayout` changes (`RowsOnly`: lending keycodes touches the rows only);
  `ModifiersThm` does the rest.
- `HeardThm`: `Spec => []Heard`. `Heard` speaks of the moment when all reports are read; `HeardInv` says what is
  true before: a keyboard that is there is either known, with no report on the way that it goes (`Settled`),
  or its last report says that it is enabled, and if it is known still, one before it that it goes
  (`Coming`), without which `add_dev` would take it for known and pass it over; and
  of whatever is known and not there, a report that it goes is on the way. `QueueInv` is about the queue itself: two reports that
  a device is enabled have one between them that it goes.
- `TypeThm`: `Spec => []TypeOK`. `TypeInv` adds to it which step may find which file, configuration and keycodes to spare.
- `SparesFreeThm`: `Spec => []SparesFree`, from `TypeInv`.
- `LeavesMapThm`: `Spec => []LeavesMap`. By `LoanInv` the map is, until another is loaded, the one `SymCode::new` saw but for the rows
  of the keycodes on loan; `Drop` empties exactly those, and they had no symbols before.

Everything else is model-checked only. `AsWritten` is about what a recursive descent yields for every
text. The liveness properties (`KeyboardReturned`, `ReplayDrains`, `Drains`, `QuitSeen`, and the fairness of `Await`)
need fairness and `ENABLED`, which are out of the prover's reach. `ExactlyOnce` and `AsTyped` are not proved with
hotplugging, for which they are not claimed either.

The provers do no induction over data, and the library's rules of induction take operators as parameters. Where one is
needed it is by a least counterexample (`WFMin`, with `<` on the naturals or strict inclusion of finite sets): `LeastNat`, `LeastSubset`,
`LeastOf`. What a recursive function computes then rests on there being a function that satisfies its equation, which is
proved first.

The assumptions on constants: sets of modifiers are finite (`XServerAssumption`), there is at least one keycode that
may be spared (`KeymapAssumption`), and keymaps are such as X has (`StartupAssumption`).

## Not modelled

- Wrappers of Xlib's memory and status codes (`src/xdl/util.rs`, `src/xdl/err.rs`): who frees what, and
  messages. The binaries: `kseqi` calls `run`, `keyv` prints events. `src/grab.rs` is compiled into nothing.
- Most of `src/xdl/keysym.rs`: a table of names that only a test compares with X11.
- Which directory the configuration is in, and errors of the file system other than a file that is there.
- Characters within words and numbers: the parser's tokens are whole words.
- Core key events, which kseqi never selects, and the pairing of their repetitions
  (`pop_event_repress`).
- Asynchronous X errors: `x_error_callback` logs them; `MayFail` covers their effect on grabs.
- The processes that `exec` spawns.
- NumLock and CapsLock: a passive grab with exact modifiers is not active while they
  are on. For the model they are modifiers like any other.

## What could come next

- `Main` with `Xdo` in place of `ProcReplay`. It would not be a refinement of `Main`: what actions type reaches `core`
  too, where `Main` has only keys of the user and of replays.
- A theorem about `Parser`: that `Arg1` reads back what `Write` quotes, for every text.
