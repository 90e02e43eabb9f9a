# veridie-native: verification project

veridie-native is the native half of an Android app with which phones in one
Bluetooth network throw dice together. Java talks to it through a JNI bridge:
it reports events (a device connected, a message arrived, the user wants a
game) and answers commands (start discovery, send a message, show a response).
The C++ code in `src/lib/core` decides what to do. Phones connect, elect one of
them the *generator*, and from then on that phone throws the dice for all.

The modules here model the parts of that code in which order, failure and
concurrency matter. TLC checks small instances; TLAPS proves their invariants,
action properties and two refinements for every instance.

## 1. Inventory

| Component (source under `src/lib`) | State | Operations | Hard behaviour | Module |
|---|---|---|---|---|
| `StateNegotiating` (core/src/fsm/statenegotiating.cpp) | own MAC, peers, offers, `g_negotiationRound`, loop coroutine | two constructors, offers received, loop every second, sends, failures, stop | phones start in different rounds, agree at different times, lose links while offers are under way | `Negotiation`, `GeneratorElection`, `NegotiationProof` |
| `StatePlaying`, `RemotePeerManager` (stateplaying.cpp) | pending request, per peer: pending flag, connection, queued messages; responses shown | cast, request, response, shown, failures, renegotiation, stop | retries that repeat a throw, answers that match by type only, messages queued after a failure | `Playing`, `PlayingProof` |
| `StateConnecting` (stateconnecting.cpp) | radios, peers, own MAC, coroutines for radios, hellos and the attempt | devices, messages, connectivity, stop, Bluetooth off | radios that fail in either order, destruction with answers under way | `Lifecycle`, `LifecycleProof` |
| `StateIdle` (stateidle.cpp) | pending game, Bluetooth, request coroutine | Bluetooth on/off, new game, answers | order of user, Java and timers | `Lifecycle`, `LifecycleProof` |
| `fsm::Context` (context.hpp) | none; zero-delay tasks | `SwitchToState` | decided in one state, executed in another | `Lifecycle`, `Negotiation` |
| `Controller`, events (ctrl/controller.cpp, sign/events.cpp) | command manager, state | start, event, answer, destruction | events before there is a state or while one is constructed, a second start | `Bridge`; what a state makes of an event: `Lifecycle`, `Playing` |
| `cmd::Manager` (sign/commandmanager.cpp) | pending commands by id | issue, answer, destruction | ids reused, late and repeated answers, callbacks that issue commands | `CommandManager`, `BridgeProof` |
| `async::Worker` (dispatch/src/common/worker.cpp) | timed queue, two condition variables, `m_stop` | `Schedule`, `TrySchedule`, loop, destructor | lost wake-ups, early wake-ups, full queue, order of equal times | `Worker`, `WorkerProof` |
| JNI bridge (dispatch/src/android/jniexec.cpp, javainvoker.cpp, common/mainexec.cpp) | two workers, two `JavaInvoker`s with shared owners | `bridgeReady`, `sendEvent`, `sendResponse`, passing of commands | commands and answers cross two queues each, events one; invokers replaced with commands under way | `Bridge`, `BridgeProof` |
| `core::Timer` (ctrl/timer.cpp) | none | `WaitFor` | order of equal timers | `Coroutines` (an await), `Worker` (`InTimeAndOrder`); actions of the waiting coroutines |
| `cr::Task`, `TaskOwner`, `AnyOf` (utils) | coroutine frames, flags, `m_tasks` | run, await, cancel, nest, race, throw | destruction from inside a running frame, cancellation of chains, exceptions nobody awaits | `Coroutines`, `CoroutinesProof` |
| `mem::Pool` (utils/mempool.hpp, poolbuilder.hpp) | a list of blocks with a taken flag for each size | allocate, free from any thread, resize, shrink | freeing while a list is walked, shortened or grown | `MemPool`, `Allocator`, `MemPoolProof` |
| `cmd::Base` and the commands (sign/commands.cpp, commands.hpp, utils format.cpp) | argument buffers | write, read, hand to Java | lengths kept in a `char`, full buffers without terminator | `CommandArguments`, `BridgeProof` |
| Dice (dice/serializer.cpp, xmlparser.hpp, engine.cpp, cast.cpp) | none | write and read messages, throw, count successes, show | widths of numbers, missing parts, what is left behind a message | `Messages`, `MessagesProof` |
| Logging, echo controller | | | wording; a stand-in for tests | not modelled |

How they interact: Java threads and the JNI worker hand every event and answer
to the main worker; everything in `Controller`, the states and `cmd::Manager`
runs on that one thread, so an action of a model is one task of that worker: a
handler, or a coroutine from one `co_await` to the next. What interleaves is
the order of events, answers, timers and queued state switches, and, between
phones, messages. `Worker` and `MemPool` model threads, `Bridge` the two
workers and Java's threads around them.

What makes each component correct is in the comments of its properties; the
hazards each property is for are in `PROJECT.json`.

## 2. The modules

**Negotiation** models all phones' `StateNegotiating` with a FIFO link for each
ordered pair. A phone has its phase (the state object), a queue of
`SwitchToState` tasks, its round, its loop coroutine (what it waits for), peers
and offers. `StartGame`, `ExecuteSwitch`, `NegotiationStarted`, `LoopTimer`,
`SendFailed`, `Receive`, `ReadFailure`, `StopGame` are the handlers; the names
of the nested helpers (`AllOffersEqual`, `MaxOfferRound`, `Agree`, `Broadcast`)
follow the body of `UpdateAndBroadcastOffer`. `DisconnectDevice` is modelled by
its effect, the later erasure of the peer. MACs are numbers because the code
compares them; the empty string is `NoMac`. `ReliableSpec` has no failures, in
`DepartureSpec` phones leave (`MayLeave`) and links break (`MayBreak`), `Spec`
also refuses commands and lets sends fail.

**GeneratorElection** is what the negotiation promises: phones enter rounds,
each round has one generator, fixed before anybody plays in it. `Negotiation`
refines it by the mapping at its end (`ElectionSpec`).

**CommandManager** models `cmd::Manager` with the coroutines that await it. An
action is one call: `IssueAndAwait`, `IssueDetached`, `IssueFails`, `Answer`,
`AnswerIgnored`, `Cancel`, and the three steps of the destructor. A callback
on the stack (`resuming`) may issue commands before `Erase` drops its entry.
Serial numbers, which the code lacks, tell whose answer is read.

**Lifecycle** models one phone from `Controller::Start` on: the state object as
one record, the queue of switches, both early states in full and the two later
ones as far as they switch. A coroutine is a field that says what it waits for,
so replacing the record cancels it, as destroying the object does. Commands
without effect on the native state (toasts, `ResetGame`) are left out; a Start
command whose awaiter was destroyed stays in `orphans` until Java answers.

**Playing** models phones that obey one generator. `sends` are coroutines
`Send` that wait for Java, `timers` coroutines `SendRequestToGenerator` that
wait a second, `awaiting` the generator's manager's `m_pendingRequest`,
`queued` its `m_queuedMessages`. A throw is known by its number, so repeated
throws are told apart although the messages the code sends are equal.
Requests and responses match by `Kind` only, as `Matches` does. `Sendable` and
`Showable` say which casts fit into the command buffers.

**Messages** models what travels between phones and what is shown. A document is
the sequence of tokens that `Tokenize` and `RemoveInsideComments` leave (tags,
contents, comments, the declaration, gaps, broken tags); `Build` is
`BuildElementTree`, stack and all, as a recursive function of the number of
tokens read. `Serialize...` and `Parse...` follow the serializer, an exception that
escapes is `Thrown`. `GenerateResponse` and `IsAnswer` (the code's `Matches`)
are the two ends of a request. Integers have `IntBits` bits, so that a round
above `INT_MAX` and a threshold at the limit occur. The lengths of the texts of
a result are computed from its dice.

**CommandArguments** models a command's buffers: how many bytes are kept of a
text of any length, the byte that holds the length, and what `GetArgAt` and a C
string read from there. Texts are their lengths. Whether `char` is signed is the
platform's choice (not on ARM Androids, on x86 hosts it is): what depends on it
takes `signed` as a parameter, and every property is about both. `Asserted` is the
assertion `GetArgAt` makes of the argument it returns.

**Bridge** extends `CommandManager` by everything between it and Java: the two
FIFO queues `jni` and `main`, what Java holds, the owners of the invokers
(`refs`; the task that passes a command and the call of `Invoke` share it with
the context), `Controller` with its state. `Worker::Run` keeps the task it has
executed, in `work`, until it fetches another: `kept` is the invoker that task
still shares, given up by the next `Fetch`. `Invoke` and `Invoked` are the two
ends of the call in `IssueCommand`: the JNI worker may have passed the command,
and Java answered it, before the manager has registered it. `IssueCommand`
answers without suspending when a command is `Refused`, for want of an id or of
an invoker. `DisconnectRefused` is the one loop that then asks again at once
(`DisconnectDevice`); from there on `spinning` holds its coroutine, and the main
worker is inside it.

**Coroutines** models frames and the handles that own them. A frame has its
suspension, the handle that holds it, the flag its `Canceler` points to and the
frame it resumes at its end; `stack` are the frames that run inside each other
(`TaskHandle::Run`, `resume` and destructors nest). Tasks may do in any order
what the code could: await, start another root or nested task of the owner,
return, throw; timers and answers are `Suspend` and `ResumeLeaf`. `TaskOwner`'s
vector is `tasks`; one `AnyOf` with its wrappers is written out.

**Worker** models `async::Worker` with its callers, each critical section one
action, notifications and waits separate. The clock ticks up to a bound.

**MemPool** models `mem::Pool` as the chain of its lists, one for each size that
`PoolBuilder` computes (`Sizes`). The owning thread is in at most one `call`,
which walks a list block by block (`SkipTaken`, `TakeFree`, `RemoveFree`), while
`Destroy` and `Clear` are the two steps of `Deallocate` on any other thread;
every operation on a flag is thus a step. `Fresh` is the heap. A `call` also
records which blocks were taken when its walk began (`busy`), a history that
no guard reads. `StaticAsserts` are the code's static_asserts about sizes.

**Allocator** is what the pool promises: memory has one user at a time and goes
back to the heap only unused. `MemPool` refines it (`AllocatorSpec`).

**NegotiationProof**, **BridgeProof** (with `CommandManager` and
`CommandArguments`), **CoroutinesProof**, **MessagesProof**, **MemPoolProof**,
**WorkerProof**, **PlayingProof** and **LifecycleProof** hold the proofs about
the modules they are named for.
**MCNegotiation** and **MCMemPool** instantiate their modules for TLC;
`MCMemPool` also declares the symmetry of addresses, which are only compared.
**MCPlaying** and **MCBridge** join `Messages` to `Playing`, whose messages it
spells out, and `CommandArguments` to `Bridge`, whose commands carry them.

Definitions whose name contains `Mutant` are faulty variants that each show, put
in place of the definition they vary, that a property can fail.

## 3. Runs

| Run | Question | Bounds |
|---|---|---|
| `negotiation_reliable` | Do players obey one generator, and does the protocol implement the election? | 3 phones with first rounds 0 or 1, rounds up to 2 |
| `negotiation_failures` | When a phone leaves, commands are refused and sends fail: does the offer table always match the peers (the loop compares their sizes), and do players stay in the round and under the generator of the players they know? | 3 phones that played round 1 before, one may leave, round 2 |
| `negotiation_liveness` | Does nobody negotiate one round forever? | 2 phones, one may leave, their link may break, rounds up to 3 |
| `bridge` | Does each command make its way to Java and back once, whatever becomes of the bridge, are ids unambiguous, answers one's own, do events find their state, do invokers live as long as somebody holds them? Does every call return, unless the main worker spins? Which arguments are read as they were written, and which fail an assertion, for both signs of `char`? | 2 coroutines, 1 type of 2 ids, 3 commands, 2 bridges, 1 event; all texts around each buffer's size |
| `coroutines` | Does no handle, flag or reference outlive its frame, does cancellation unwind, does exactly one task win an `AnyOf`, do exceptions surface, is every frame freed? | 4 tasks, one `AnyOf` of 2 |
| `lifecycle` | Is a requested game not forgotten, are the radios released, does an attempt end? | 1 peer, 2 queued switches, 1 retry |
| `playing` | Do the two records of a pending request agree, are throws bounded, is none lost silently, are requests resolved? Is every message read as written, is a response the answer to its request, is a result shown whole? | 2 phones, 2 kinds of casts, 2 attempts; casts, failed sends, broken and unexpected connections within a budget of 4, of which a cast takes 2. Messages: up to 2 dice of D4 or D6, 3-bit integers; shown results: any number of dice up to one more than are ever shown (342), with any number of digits |
| `worker` | Is no wake-up lost, do tasks run in time, in order and at all, does the destructor return? | 2 callers, 3 tasks, queue of 2 |
| `mem_pool` | Are blocks in use kept, is each as small as it can be, does the pool grow only when full and give back what is free, does it implement the allocator? | 3 types of 2 sizes, 1 block in each list at first, resized to 1 or 2, 5 addresses |
| `lifecycle_fatal_failure`, `lifecycle_pool`, `lifecycle_stop` | violated, see section 5 | as `lifecycle` |

Why the bounds suffice. Three phones are the fewest where two players can
disagree about a third; rounds only matter by comparison, and two consecutive
ones give early, equal and late. Two coroutines and two ids of a type allow
reuse, exhaustion and running past the ids of the type. Two queued switches are
one decision overtaking another. Two casts give a foreign, a stale and a
matching answer; what a phone may suffer besides is drawn from one `Budget`, so
that each mix of casts and failures up to that number occurs. One command more
than ids makes an id reused while the first answer may still be under way; two
bridges are a replaced and a current one. Four tasks give a chain of three with
one beside it, or two tasks of an `AnyOf` with its awaiter and another. Three
bits separate the signed and the unsigned limit from each other and from the
values of two dice. A queue of two with three tasks and the destructor's is full,
has ties and makes callers wait. Two lists are a base class and a derived one,
and with five addresses one list reaches four blocks, enough for walks with
blocks before, at and behind the position that change. `Max...` constants bound
what the code leaves unbounded; where one is reached, the action that would
exceed it is disabled.

Four phones of which two leave, or a departure while another link breaks, are
beyond an exhaustive run here, so `PeerAgreement` is checked for three phones and
one departure; section 6 proves it for three phones with any failures and for one
departure among any number, and says why no more is true. `OffersMatchPeers` and
`PlaysInRoundOfPeers` are proved for any number of departures and broken links;
links break in `negotiation_liveness`.

Deadlock is not checked: phones may end in a state in which nothing is left to
do (a user who starts no game, an idle worker).

`MessagesReadBack`, `AnswersMatch`, `ResultsShownWhole` and `ArgumentsIntact` are
about functions without state: TLC evaluates each once, for every input within
the bounds, in the run of the state machine that uses these functions.

The type invariants of `Lifecycle`, `Playing`, `Coroutines`, `Worker` and `Bridge`
are conjuncts of `RadioReleased`, `RetriesWhilePending`, `HandlesLive`,
`InTimeAndOrder` and `CommandsInTransit`.

## 4. Fairness

Liveness assumes that the workers run what is queued, timers fire and Java
answers commands (`Fairness` in each module), never that users act, that a
command succeeds or that a link holds. The code justifies the first two by
`async::Worker::Run` (`EveryCallServed` in `Worker`), the third is the contract of
`cmd::Manager`, which has no timeout. `NoSilentStall` also assumes that Java
grants `NegotiationStart`: the code gives up for good if it does not.

`BridgeFairness` spells this out: each worker goes on, a call that has begun
returns, the destructor goes on, and Java answers each id it holds. One loop of
the code breaks it. `StateNegotiating::DisconnectDevice` repeats `CloseConnection`
on `INTEROP_FAILURE` (statenegotiating.cpp:187-189), and a refused command returns
that without suspending: if all ids of the type are taken or, after a second
`bridgeReady`, the manager's invoker is gone, the main worker spins and runs
nothing else. `Bridge` has this step, after which everything else the main worker
would do is disabled, so fairness owes none of it; `EveryCallReturns` promises
that a call returns or the worker spins for good (a refusal never ends by itself:
ids come back by answers, which the spinning worker does not run, and an
invoker that is gone stays so). No other loop repeats a refused command at once:
`StateIdle` waits a second first, `StateConnecting` and `StatePlaying` count their
attempts or repeat on `INVALID_STATE` only, which is an answer of Java's. The
liveness properties of the other modules are about a main worker that does not
spin.

In `Worker` each thread makes a bounded number of calls, so that
`EveryCallServed` says nothing of a caller overtaken by an endless supply of others.

In `Coroutines` whatever is on the stack goes on, each suspended leaf await is
resumed at last, and a task that gets control again and again returns or throws
at last: but for `DisconnectDevice` above, loops without a count suspend in each
turn, and the owner's end cancels them. Nothing obliges the owner to go, so
`FramesReclaimed` starts from its destruction.

## 5. Findings

- `FatalFailureShown`: when listening fails first and discovery is then denied
  (stateconnecting.cpp:192, `default`), nobody calls `DetectFatalFailure`, and
  the phone neither searches nor exits; the test
  `fatal_failure_when_both_discovery_and_listening_failed` states otherwise.
- `PoolNotEmpty`: `AttemptNegotiationStart` resizes the command pool to the
  number of peers, which may be 0 when the last peer has just left
  (stateconnecting.cpp:151, assertion at mempool.hpp:113).
- `StopIsFinal`: an event handled between `OnGameStopped` and the switch it
  queued may queue another switch behind it, which revives the stopped game
  (stateconnecting.cpp:97, context.hpp:45, tests `goes_to_idle_on_game_stop`).

The code also contradicts assertions of its own that `ArgumentsIntact` is about. It
passes, because it says exactly when they fail:

- commands.cpp:71, `assert(std::string_view(buffer + 1).size() <=
  m_longArgs[index].size())`: a message of exactly 1023 bytes passes the size check
  (stateplaying.cpp:132), fills its buffer and is read on into the address, 1041
  bytes; so is the result of 341 dice of two digits.
- commands.cpp:68 and 77, `assert(static_cast<size_t>(*buffer) <= ...)`: where
  `char` is signed, a length of 128 to 255 is negative and as a size huge. The 70
  dice of test_controller.cpp:1246 make such a text; the host build
  (lib/hostbuild.sh) has a signed `char` and no assertions. Java reads C strings and
  is not affected, only the log is (commandadapter.cpp:17).

What else the models record of the code, where no doc, comment or test says
otherwise, and which the properties except by name:

- Bridge. An event sent right after `bridgeReady` may overtake `Start` and the
  switch to `StateIdle`, and is dropped; `EventsHeard` therefore begins with
  Java's first command. A second `bridgeReady` replaces the invokers while the
  manager keeps weak pointers to the first ones. The first ones last until the
  JNI worker, behind the last command over them, has fetched another task; then
  all later commands fail, and `DisconnectDevice` may spin (section 4). The
  main worker may drop the last reference to an invoker, whose destructor uses
  the JNI worker's environment. An exception in Java's `receive...Command` is
  only logged and leaves the command unanswered. `SubmitResponse` keeps an
  iterator across a callback that may make the table grow: the model's table is a
  function and cannot show what becomes of an iterator.
- Coroutines. `StartRootTask` reads `m_tasks.back()` again after the body of
  `Run`, in which a nested start may have moved the vector (the value read is
  not used). A handle that is never run leaks its frame. `AnyOf` does not pass
  cancellation on to the tasks it is given and waits for good if all of them
  throw; only tests use it. Nothing but the start of another task looks for
  exceptions: that of the last one is never seen.
- Arguments. A text that fills its buffer has no terminator: the C string given
  to Java goes on with the length byte and the next argument (a toast of 31
  bytes or more; a message of exactly 255 or 1023 bytes, which is followed by
  the address, and which the reader ignores behind the root element; 85 dice of
  two digits), or behind the object when the argument is the last one (names of
  23 bytes or more in `ShowRequest`, 31 in `NegotiationStop` and `ShowResponse`).
  Truncation may split a character.
- Messages. A round above `INT_MAX` is refused by every reader. An optional
  attribute may be absent, but one that is no number throws like a missing
  one. At least 39 three-digit values in one result may be cut on the screen
  although the message could be sent.
- Negotiation. Of four phones of which two leave in one round, the remaining two
  may each obey another generator (section 6).
- States. A switch to `StateIdle` queued behind `SwitchToState<void>` revives a
  program that has shown `ShowAndExit`; ending it is left to Java.

## 6. Proofs

All for arbitrary constants satisfying the named assumptions of the modules.

*NegotiationProof.* `OffersMatchPeers` is not inductive: that the table has an
entry for each peer depends on the loop's phase, on what queued switches carry
and on peers whose sends failed. `IInv` adds these, and for
`PlaysInRoundOfPeers` what offers in links and tables say of their senders'
rounds (a phone's round never decreases, an offer never exceeds it). Proved are
`TypeCorrect`, `OffersAlwaysMatchPeers` and `PlayersShareRounds` for `Spec`, the
one with every failure.

For `ReliableSpec`, `ReliableInv` adds to that invariant that every
phone in the loop negotiates with all others, so every offer names the nominee
of all phones, and that a phone which left the loop has heard from everybody in
its round or a later one (`Elected`). Since rounds only grow, two players are in
one round: `PlayersAgree`. The same facts map each step to a step of
`GeneratorElection` (`StepsElect`, `ImplementsElection`); a term is a dice
round, which is closed by no message but by everybody having entered it.

With departures phones compute nominees from different sets. `ViewsInv`, proved
for `Spec` (`NominationsShrink`), says that each phone made its last nomination
of a round among a set that holds every phone it still reckons with, and every
earlier one that somebody still stores among a larger set. So if n and p play
with each other, n's generator is the nominee both of n's own set and of some
set that contains p's, and the other way round. Among three phones, such sets
are the pair or all (`ThreePlayersAgree`); if all differences are about one
phone they differ by it alone (`OneDepartureKeepsPeersAgreed`): in both cases
the generators are equal. It does not follow, and is not so, for four
phones and two departures in one round: phones 1 to 4 negotiate round 4,
where the nominee of {1, 2, 3, 4} and of {1, 2} is phone 1, of {1, 2, 3} and of
{1, 2, 4} phone 2. If 3 and 4 leave, and the others learn of it in different
orders, phones 1 and 2 may finish the round with each other as peers and each
its own generator (a counterexample that TLC found with `MayLeave = {3, 4}`).
No comment or test of the code rules this out, so it is a hypothesis of the
theorems and no finding.

*BridgeProof.* First the manager alone: `RegInv` ties each suspended coroutine to the one entry
it awaits and says that entries hold no answer before their callback runs; it
survives repeated answers (`RepeatingSpec`). `IInv` adds that Java still has the
command a coroutine awaits, which needs that ids are not reused early; it gives
`IdsIdentify` and `OwnAnswers` for `Spec`, where Java answers once.

The same three invariants are inherited by the composition: a step
of `Bridge` is one of the manager's, cancels every coroutine at once
(`SwitchToVoid`, `DestroyController`) or leaves the manager alone (`ManagerStep`),
once it is known that the command on its way through `Invoke` is the one that
will be registered (`IssuingInv`). `BridgeTransit` needs that no command occurs
twice in a queue (`Once`), that serial numbers grow and that the manager has been
started when a command exists, or `OnCommandResponse` would drop the answer
(`TransitInv`); `BridgeInvokers` that the owners of an invoker are exactly the
Context, the tasks that call it, the task last run that `work` keeps, and the call of
`Invoke` (`RefsInv`);
`BridgeEvents` that Java can only be told something by a state, and that there is
always one from then on (`ToldInv`). All six are theorems of `BridgeSpec`, so
they need no fairness and hold for any number of bridges, commands, events,
coroutines, types and ids.

`ArgumentsAreIntact` is proved for both signs of `char`. `Proper` says which
parameters stand where in a command of `Dictionary` and how long their buffers are;
`KeptBytes` and `ByteCounts` what is written and counted; `ReadWhole` that a text
which leaves room for a zero is read whole and alone, whatever its neighbours, from a
first buffer of any size or a later one of at most 256 bytes; `RunsOn` that every
other text is read on, a long one past what `GetArgAt` asserts; `NegativeBytes` that a
signed byte above 127 fails its assertion, too. What is left are the lengths that
`Lengths` allows each parameter.

*CoroutinesProof.* `HandlesLive` is far from inductive. `IInv` describes the frames
as a forest of holders (`Forest`, `HolderInv`): who awaits holds exactly what it
awaits, live or done, and has passed its flag on (`AwaitInv`, `AwaitedInv`); wrappers
begin with their `AnyOf` and are canceled with it (`WrapInv`, `GivenInv`). The stack
lists the frames that execute, each in a call below what it holds (`StackInv`), so
destroying a handle never frees a frame that a caller further down still uses.
`ResultInv` ties `AnyOf`'s result to its wrappers, `OwnerInv` the owner's vector to
the frames nobody else holds. The lemmas are about what the code does to frames,
not about actions, since destructors run through whole trees of frames: `Whole`
is kept when a frame begins, awaits, ends, or drops any set of handles that
nothing outside it needs. `AbandonedTasksUnwind` and `ExceptionsAreKept` follow
from `Obeys`, what one step may make of one frame; `OneResult` from `ResultInv`.
The tasks are any finite set (every behaviour uses finitely many up to any
point), the wrappers any number.

*MessagesProof.* `MessagesAreReadBack` has three parts. What the parser does to
a layout: a gap is removed wherever it is (`WithoutGaps`), a comment in front by
the constructor of `Document`, one further on by the loop, so all layouts of
`Decorated` and whatever follows the end of the root have the root of the plain
document. What the loop does: one lemma for each kind of token reads one token
more (`EndsIn`, `ReadOn`); a leaf is three tokens; `LeavesRead` goes through the n
leaves of an element, which is all that `operator<<` prints between its tags. What
the parsers do: each finds in the element what `Serialize` put there. So a message
with any number of dice of any type in `CastType` is read back. With it
`AnswersAreMatched` says that a response, by way of two documents, answers its
request and no other kind; `ResultsAreShownWhole` is about lengths alone.

What a recursive function computes for every input is proved from two facts.
That the function exists is shown with a witness in closed form, or by induction
on how far one exists; its equation follows. Then `NatInd` (a set that holds 0 and with
n also n + 1 holds all numbers, proved from the theorems on finite sets) is used
on the set of the n for which the claim holds; a set, or a function as in
`Recursion` of `MemPoolProof`, can be a parameter of a lemma where an operator
cannot.

*MemPoolProof.* `IInv` adds to `TypeOK` and `InUseKept` what a walk knows
(`WalkInv`): every block it has passed, and every block taken now, was taken
when the walk began, since only the walking thread sets flags; `extra` is what
is still missing or too much in the list; the block at the position of a call
that constructs is the one being built. Proved are `TypeCorrect`,
`BlocksInUseAreKept`, `GrowthIsNecessary`, `SurplusIsGivenBack` and the
refinement `PoolIsAllocator`.

`ObjectsFit` rests on what `PoolBuilder` computes at compile time. `BuilderSuits`
proves, for every list of types, that the static assertions hold and that each
type has a list of its own size (`EachOnce`: duplicates are dropped and nothing
else; `OrderKept`: insertion keeps the order). From it `FitInv` follows, by which
the lists share no block, a size's list is the first one that can hold its
objects, and a call walks the list of its type.

*WorkerProof.* `LineInv` lists what is under way in one line, the running task, the
queue, what has run: numbers of one caller grow, times are sorted. `RoomInv`
counts: while a caller waits for room, the tasks in the queue, the callers that
hold a promise of room (woken, not yet locked again) and the announcement the
worker is about to make fill the capacity. `WakeInv` says what a sleeping or idle
worker has been told or is about to be told. They give `TasksRunInTimeAndOrder`
and `WakeupsAreNotLost` for any threads (finitely many, `ThreadAssumption`: the
count needs that, and a process has no more), any capacity and any delays.

*PlayingProof.* `MessagesKnown` says that requests and throws are made before they
are mentioned. `RetryInv` is `RetriesWhilePending` in its inductive form.
`AccountInv` follows a response through the five places it can be in. For
`ThrowsBounded`, `RequestInv` gives each request one phone that made it: only
that phone asks for it (one coroutine at a time, `AskedOnce`), each attempt is in
flight in at most one copy, waiting to be sent, queued or on the link
(`CopiedOnce`), and an attempt still to be made has a smaller number than all
copies. Hence the throws made so far and the attempts still open
(`Open`) are together no more than `REQUEST_ATTEMPTS`: a copy that arrives
turns an open attempt into a throw. The bound would be lost if a retried send
could leave a second copy, which only a proof for every order of failures rules
out.

*LifecycleProof.* `PendingGameStarts` is nearly inductive: nothing leaves the queue
of switches but its head, which in `StateIdle` is not dropped when it leads to
`StateConnecting`. For `RadioReleased` the destructor must know of what is on:
`RadioInv` says that a radio that is on was granted to the living object or,
late, to nobody, and that a coroutine that still waits has no result yet.

Only model-checked is all liveness (`NoSilentStall`, `AttemptEnds`, `EveryCallServed`,
`RequestResolved`, `EveryCallReturns`, `FramesReclaimed`): fairness and ENABLED are
beyond the prover. `PeerAgreement` is proved under the hypotheses above, which it
needs.

## 7. Plan

What is left, the most important first.

1. A composition of `Negotiation` and `Playing`: throws across renegotiations.
2. Splitting characters into tokens, with entity references.

## 8. Not modelled

- Java itself: modelled by the answers, events and calls it gives.
- JNI failures other than exceptions in what Java is called for, and
  `JNI_OnUnload`, which Android does not call while the class is in use.
- Static destruction at exit, which races with the main worker; Bridge destroys
  the `Controller` between two tasks, as the tests do. Process death: nothing
  is kept.
- In the XML parser: `Tokenize` and its neighbours on characters, encodings other
  than `char`, and the parts of the interface nobody calls (changing and
  removing elements).
- Distribution of the random engine: any value of a die may come.
- Logging; `EchoController`, a stand-in that tests the Java side.
