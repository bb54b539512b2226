# Verification of the Twitch chat library

TLA+ models of the client, its connections, its message handler and the chat bot of this
repository, the TLC runs that check them, and theorems about them proved with TLAPS. Paths
are relative to the repository's root; the sources are in `src/`.

## 1. Inventory

| component | state it keeps | operations | correct when |
|---|---|---|---|
| `Connection` (`connection.h/.cpp`) | the stream, `connected_`/`ssl_connected_`, `reconnect_required_`, `ec_`, two strand references | Connect, Disconnect, Write, AsyncWrite, AsyncRead, IsReconnectRequired | a message is written once; a stream that fails is noticed |
| `MessageHandler` (`message_handler.*`) | its own `connection_`, `chat_bot_` | operator(), SendPong, UpdateConnection, SetChatBot | every PING is answered, once, on the client's connection |
| `Client` (`irc_client.*`) | `connection_`, the buffers for Authorize and Join, `joined_channels_`, `message_processor_`, the timer | Connect .. Read, OnRead, Reconnect, Join, Part, Disconnect | one read loop; a recovered session is what it was; a recovery ends |
| `main`, `RunWorkers` (`main.cpp`) | the io_context and its threads | start, run | the process ends only for a reason |
| `ChatBot` (`chat_bot.*`), `Command` (`command.*`) | the commands and modes, each with `content_`, a verificator and `minimum_user_role_`; the start character | setup: SetCommandStart, AddCommand, AddMode, GetCommand and the setters; then ParseAndExecute, UseModes, ProcessCommand, AddContent, Execute | nobody has executed what he may not; each executor gets its own text; what was configured is what is enforced |
| `UserVerificator` (`user_validator.*`) | two lists, `whitelist_only_`, role filter | Verify, CheckRole, setters | black list before white list before role |
| `MessageProcessor` (`message_processor.*`, `domain.h`) | the incomplete last line | GetMessagesFromRawBytes, FlushBuffer, IdentifyMessageType | the lines do not depend on how the bytes are cut into chunks |
| `Message` (`message.*`) | type, text, tags, role | constructor, SetRole, GetNick, GetRole, GetContent, TakeTypeAndMegre | nick, role and text are those the server put into the line |
| `AuthorizeData`, executors, CA loader, logging | none that matters here | | |

How they interact. The client starts an asynchronous read on its connection; the completion
runs on the read strand of that connection and posts `OnRead` to it. `OnRead` cuts the bytes
into messages and posts the batch with `net::post` *without an executor*, which is Asio's
system thread pool, where `MessageHandler::operator()` runs off every strand. It dispatches
PONGs to `connection_strand_` and posts chat messages to the bot, which posts them once more
(twice: modes, command) to the io_context that three threads run. When the connection asked
for a reconnect, `OnRead` dispatches `Reconnect` to `connection_strand_`; that makes a new
connection and arms a timer whose handler, on any thread, connects, switches the message
handler, flushes the buffer, authorizes, reads, requests capabilities and joins. Meanwhile
the application may call `Join`, `Part`, `Disconnect` and `SetChatBot` from a thread of its
own.

What is hard here: all of these run on several threads; a connection is replaced while
handlers refer to the old one; an exception that leaves a handler ends the process; and
`Command` objects are shared by the workers. Section 7 has the hazards in detail, with their
lines, and `PROJECT.json` lists which property watches which.

## 2. Modules

| module | what it is |
|---|---|
| `Connection` | the connections, numbered as they are made; operations only, no next-state relation |
| `MessageHandler` | the message handler, the pool its batches are in, the queue of `connection_strand_`; EXTENDS `Connection` |
| `IrcClient` | `main()`, the application's calls, the read loop, the strand's tasks, the timer handler, the network; EXTENDS `MessageHandler`; `Spec` and `FairSpec` |
| `IrcClientProps` | the properties of `IrcClient` |
| `Session` | the abstract specification of a session: starting, online, recovering, waiting, lost, dead |
| `MCIrcClient` | instances for TLC |
| `IrcClientProofs` | `TypeOK` of the client |
| `IrcClientSessionProofs` | the read loop, framing across connections, the refinement of `Session` |
| `IrcClientHandlerProofs` | the message handler and the PINGs |
| `IrcClientRecoveryProofs` | the recovered session and the causes of a termination |
| `UserVerificator` | `Verify` and the setters over a record of lists and role filter |
| `ChatBot` | `ChatBot` and `Command`: setup by the application, then several worker threads; `Spec`, `FairSpec` and properties |
| `CommandService` | the abstract specification of the bot: requests that are called once or refused |
| `MCChatBot`, `ChatBotProofs` | instances for TLC; theorems |
| `ChatBotServiceProofs` | the refinement of `CommandService` |
| `MessageTypes` | what a line is: `Split`, `IsNumber`, `IsCRLF`, `IdentifyMessageType` |
| `MessageContents` | what `Message` makes of a line: tags, role, nick, content; EXTENDS `MessageTypes` |
| `LineStream` | the abstract specification of reading: lines in, the same lines out |
| `MessageProcessor` | the framing of a connection's bytes, fed with chunks; EXTENDS `MessageContents`; `Spec` and properties |
| `MCMessageProcessor`, `MessageProcessorProofs` | instances for TLC; theorems |
| `LineStreamProofs` | the bytes on their way and the refinement of `LineStream` |

The client, the bot and the processor are three specifications that meet at the batch: what
`MessageProcessor` returns is a member of `Batches` in `IrcClient`, and what the message
handler puts into `to_bot` is a message given to `PostModes` in `ChatBot`.

### Correspondence with the code

`PROJECT.json` maps every definition to its lines. The conventions:

* An action is what a thread does between two points at which another thread matters: the
  timer handler (`irc_client.cpp:144-156`) is seven actions, one per call; an iteration of the
  loop in `MessageHandler::operator()` is one action; `OnRead` is two, before and after the
  test of `IsReconnectRequired`; `AddContent` is two, so that two assignments can overlap.
* `socket[c]` is the stream (new, open, broken, closed, failed, silent), `connected[c]` is what the
  code *believes*: a broken stream still counts as connected, and a write to it only reports
  an error. `Write` throws when `connected[c]` is down, and an exception goes where the code
  lets it go: `OnRead` catches it, `main`, a strand task and the timer handler do not
  (`alive' = FALSE`), the application gets it back.
* `login`, `room` and `pongs` are what the server has received. A plain stream (`Secured` is
  FALSE) that `Connect` takes to the TLS port comes up, and what is written to it reaches
  nobody (`Reaches`).
* The TLS handshake (`connection.cpp:149`) blocks without a timeout. With the outcome "silent"
  of `Connect` the peer takes the connection and never answers: `main` or the timer handler is
  in "Handshake" from then on, which has no next step, and the session is "waiting".
* `BotTask` is the handler that `MessageHandler` posts with a chat message: it uses
  `chat_bot_` as it is when it runs. With no bot by then, a message with a text makes it use a
  null pointer, which ends the process; one without a text returns before that. Either may be.
* `incomplete_from` is the connection whose bytes are in `last_read_incomplete_message_`. What
  a chunk parses to is any member of `Batches`.
* The read strand. The constructor of `Connection` swaps the names of its strand parameters
  between header and definition and initialises both members from `read_strand`
  (`connection.cpp:44-62`), so the first connection reads on the client's `write_strand_` and
  all later ones on `read_strand_`. `ReadStrand` has it; `StrandIsFree` only excludes two
  `OnRead` of one strand. That `OnRead` never runs twice at once is therefore a property of
  the read loop (`OneReadLoop`), not of a strand.
* `Reconnect` makes a new connection; when arming the timer throws it starts over, so the
  connection that gets the timer may be any later one.
* Dispatching to a strand may run the task at once; that is one of the interleavings of the
  queue.
* `ErrorWithBytes` is a constant because the code asks for a reconnect only when a read
  completes with an error *and* bytes (`connection.h:231`, `245`). The stream operations of
  Boost.Asio 1.84 never do that. With TRUE the recovery is explored as it is written; with
  FALSE the program is modelled as it runs.
* In `ChatBot` the text of a message is the message's number; `Torn` is a `content_` another
  thread is assigning. Overlapping assignments may leave either text or a torn one. Of the text
  itself only its first character and the word behind it are looked at.
* The application sets the bot up before `RunWorkers` and not after, because `README.md:12`
  excludes changes at run time. A mode gets its settings when it is added: `GetMode` looks in
  the wrong map (`chat_bot.cpp:31`) and finds none. `Settings` bounds which verificators the
  setters may arrive at.
* `shared` in `ChatBot` is a history variable: it marks a worker whose object another worker
  served while it did. A call of an executor carries the mark of its worker.
* What `CommandService` calls pending is spread over the code: a message whose second post is
  still to come, the handlers in the queue, and what each worker has left of `name_to_mode_` or
  of its command (`Requests`). The exceptions `UseModes` and `ProcessCommand` catch
  (`chat_bot.cpp:59`, `87`) end one handler, so a mode that throws takes later modes of its
  message along, and nothing else.
* Only a `std::exception` is caught. Anything else an executor throws leaves `io_context::run`,
  and an object that was made without an executor (`command.h:15`) has a null pointer called:
  both are outcomes of `Run` that end the `process`, with the executor called and not called.
  The model lets every object have either, so it has the behaviours of both kinds.
* In `MessageTypes` a run of characters without blanks, line ends and the marks `= ; , / :` is
  one byte. `Split`, the tags and the text are taken apart at blanks and marks only, and the
  identification compares whole words, so nothing else can be told apart; a read may end at any
  byte, which leaves out reads that end inside such a run.
* In `MessageProcessor` a message is its type and the line it was made from. What a `Message`
  says is a function of that line (`MessageContents`), since it never changes once it is
  returned; `SpeakersAreKnown` evaluates it on the lines the processor arrives at. One
  iteration of the loop over a chunk is one step; what the server sends in between goes to
  `wire`. `FlushBuffer` is what the timer handler does for a new connection, so it also starts
  `sent`, `wire` and `messages` anew.

## 3. Runs

| run | bounds | shows |
|---|---|---|
| `Sessions` | 3 connections, 3 reads, 2 calls, 2 channels | `TypeOK`; one read loop; no bytes of two connections in one line; the message handler follows and never goes back; a session that is up again is logged in and in every joined channel; `Session` is implemented |
| `Messages` | 2 connections, 3 reads, 1 call, batches of a PING or a PRIVMSG, with and without a bot | a PING is in one place at a time and answered on one connection only; the process ends for one of five causes |
| `Liveness` | 2 connections, 2 reads, 1 call, a PING after a PRIVMSG, one before and one after a chat message without a nick | recoveries and the start end unless the peer is silent in the handshake; PINGs are answered unless a message without a nick is ahead of them |
| `AsShipped` | `ErrorWithBytes = FALSE`, 2 connections, 3 reads, 1 call, all batches, with and without a bot | the client never reconnects; after a broken stream nothing is read again although the connection counts as connected |
| `BotWorkers` | 2 threads, 2 messages, 1 command with 5 settings, 1 mode, 2 start characters | only for allowed users; an executor gets its own text unless another thread was on the same object; every command of an allowed user is executed unless the process ends; none is called twice; `CommandService` is implemented |
| `Framing` | 2 lines of 12 (10 types) per connection, chunks of up to 12 bytes | up to a chunk that cuts a CRLF `LineStream` is implemented, also after a new connection, and no line is held back; who says what in a chat message is what the server put into its line |
| `PongTwice` | 1 connection | violated: two PONGs for one PING (finding) |
| `PingWithoutBot` | 1 connection, no bot | violated: a PING after a PRIVMSG is dropped (finding) |
| `PlainClient` | 1 connection, `Secured = FALSE` | violated: a session that counts as up is in no channel (finding) |
| `BotRace` | 2 threads, 2 messages, a command for moderators | violated: it is called with the text of a viewer (finding) |
| `MinimumRole` | 2 messages, a command whose minimum role is BROADCASTER | violated: it is executed for a moderator (finding) |
| `CutCRLF` | 2 lines, a PING or a PRIVMSG each | violated: a CRLF cut in two hides a PING (finding) |

Why the bounds are enough. Three connections are two recoveries in a row, the least in which
an older timer handler or strand task meets a newer connection; three reads are a chunk of
the first connection, the failing one, and one on the next. Two channels are what
`SessionRestored` needs: the buffer holds all channels, so a joined channel that it lacks shows
only next to another one that is in it; and with two calls one can be parted and one joined
across a recovery. Nothing in the code or in a property tells one channel from another, which
makes the symmetry of `Sessions` sound; the run checks no liveness (`Session`'s safety part has
no fairness). Two workers are what a race needs, and two messages what it mixes up. With its one mode
`BotWorkers` has nothing left when a mode throws: that an exception takes only modes of its own
message along (`TakenAlong`) is shown by the theorem `ServiceImplemented` alone. The five
settings of the command are the default one, a white list that adds and one that excludes, a
black list, and a black list with every role let in: each clause of `Verify` decides in one of
them. Two lines have one CRLF between them and one at the end; a chunk of 12 bytes holds any of
the short lines with its CRLF and cuts the chat lines, whose tags are longer, inside the tags
and inside the text. The theorems of section 5 hold for every value of these bounds.

`CHECK_DEADLOCK FALSE` is in the configurations of the client and the bot: a bounded run ends
when its reads, calls and messages are used up, and a terminated process takes no step. The
message processor is checked for deadlock.

### Fairness

`FairSpec` of `IrcClient` assumes that what is queued is run: `main()`, a posted `OnRead`, a
strand's next task, an expired timer's handler, a batch of the pool, the completion of a
write; and that a read of a stream that is no longer open completes. The worker threads do
nothing but run handlers (`main.cpp:14-23`), and the work guard keeps them.

Most of these handlers make blocking calls, so the assumption is that those return. Resolving and
connecting do by the timeouts of the operating system. A blocking write does because a few lines
fit into the send buffer of a socket, read or not; it is the one assumption about a peer that
stays silent. The handshake waits for bytes of the peer, has no timeout and is *not* assumed to
return ("silent"). Then the thread that called it is gone for good: `main()`, so that no worker
runs at all, or the worker of the timer handler, of three. It is one at most, since no second
recovery can begin while the first one waits. `RecoveryEnds` and `SessionSettles` name that
outcome, and a version of either without it is violated. Nothing is assumed of the server or the
network beyond this, and nothing of the application, whose `Disconnect` may well wait in the
shutdown of TLS; its own thread is the only one that does.

In `ChatBot` a worker goes on, and the second post of `ParseAndExecute` follows the first, as
long as the process runs; no executor runs for ever, which is code of the application.

## 4. Findings

* A PONG is written twice (`connection.h:318` and `320`), the first time synchronously.
* Without a bot a PRIVMSG ends its batch (`message_handler.cpp:20`), PINGs behind it included.
* `AddContent` and `Execute` are separate steps on a shared object (`chat_bot.cpp:56-57`,
  `78-79`): with more than one worker an executor may be called with the text of a user the
  verificator rejects. In the trace of `BotRace` a moderator has been verified for a command at
  the default role level when the worker of a viewer's message assigns `content_`; the executor
  is called on behalf of the moderator with the viewer's text, and the viewer is rejected after.
* `IsCRLF` (`domain.h:61`) looks at one chunk, so a CR at the end of one (of 128 bytes at
  most, `connection.h:201`) and the LF at the start of the next are text: two lines become one
  message, or a line waits for the next one. A PING is lost that way.

* A client made with `secured = false` has a plain stream, but `Connect` always asks for
  `SSL_PORT` (`irc_client.cpp:29`), where `Reconnect` chooses the port (`irc_client.cpp:148`).
  The session counts as up; the server is logged in to nothing.
* `SetMinimumUserRole` (`command.cpp:26`) sets `minimum_user_role_`, which nothing reads: the
  role filter that `Execute` asks stays at MODERATOR.

Seen while modelling, with no run of its own: the reconnect path is dead code with
Boost.Asio's completions (`AsShipped` and `NeverReconnectsHolds` state it as a property); the
default role filter is MODERATOR for modes too, while `README.md:55` says a mode applies to
every message; `Part` does not remove the channel from `join_command_buffer_`, so a recovered
session is in parted channels again (`SessionRestored` bounds it by what was ever joined);
`main.cpp:38` calls `AddMode` with one argument, which takes two.

## 5. Theorems

For every value of the constants that satisfies their assumptions (bounds are natural numbers,
batches are sequences of message kinds, settings are verificators, words are not marks). None
of the invariants below is inductive as the run checks it; the middle column of the argument is
the strengthening.

| theorem | argument |
|---|---|
| `TypeCorrect` | `TypeOK` is inductive: one lemma per group of actions |
| `OneReadLoopHolds` | `OneReadLoop` is inductive with `TypeOK`: whoever may start the next read (main, a read, a queued `Reconnect`, a timer handler up to its `Read`) is alone, and each step hands the right on to one other |
| `NoCrossSessionFramingHolds` | strengthened to `BufferIsCurrent`: the buffer holds bytes of the current connection unless a recovery is before its `FlushBuffer`, and then nothing is read |
| `SessionImplemented` | each action maps to a step of `Session` or a stutter; needs `OneReadLoop`, by which the phases exclude each other |
| `NeverReconnectsHolds` | strengthened to `NoReconnectIsAsked`: without `ErrorWithBytes` no flag is raised, so no `Reconnect` is queued and no timer is armed |
| `HandlerFollowsHolds`, `HandlerNeverGoesBackHolds` | strengthened to `HandlerInv`: the `UpdateConnection` tasks on the strand are in the order of their connections, none older than the handler's and none newer than the client's (`UpdatesInOrder`); that a timer handler before its `UpdateConnection` belongs to the client's connection is `TimersInOrder` |
| `PingHandledOnceHolds` | strengthened to `PingInv`: a read not yet parsed has an id that no batch, task or PONG carries, and a batch is in the pool once (`ReadIdsFresh`); so a PING enters the pool once, and each step moves it on by one place |
| `SessionRestoredHolds` | assumes `Secured`; strengthened to `SessionInv`: what the server has of the login and the channels at each place of main (`FirstSession`) and of the timer handler (`LaterSession`), and every joined channel is in the buffer (`RoomsAreBuffered`). `PlainClient` shows that the assumption is needed |
| `TerminationHasCauseHolds` | strengthened to `CauseInv`: a connection that is not up was never connected, failed, closed or waits for the handshake (`DownHasReason`), one that anybody writes to is past that (`UsedIsUp`), one whose `Connect` is still to return is known to no handler or task (`NewIsUnused`), and the start comes in its order (`StartsInOrder`) |
| `BotTypeCorrect` | strengthened with `Grounded`: handlers, jobs and calls are about messages the bot was given, which later messages do not renumber |
| `AuthorisedHolds` | strengthened with `Verified`: a worker about to call an executor was let through, and settings do not change once the threads run |
| `OwnContentUnlessSharedHolds` | strengthened to `ContentInv`: two workers on one object are both marked (`SharedIsMarked`), and from the end of `AddContent` on `content_` is the text of a worker that is not (`ContentIsOwn`) |
| `ServiceImplemented` | strengthened with `RequestInv`: every request is in one place, since no handler is queued twice or both queued and still to be posted (`PostedOnce`), a worker holds nothing that a waiting handler or another worker holds (`HeldByOne`), and what it serves is among what it holds (`JobsInOrder`); and with `Verified`, by which what is called was allowed |
| `CalledOnceHolds` | strengthened with `Answered`, no request that was called is pending, which every step of `CommandService` keeps; what a worker is about to call is pending (`RequestHeld`), so it was not called |
| `ProcessorTypeCorrect` | `ProcessorTypeOK` is inductive; the index stays within one of the chunk because `IsCRLF` wants the LF in it |
| `OneLinePerMessageHolds` | strengthened to `WholeUnlessCut`: no line under way or kept has a CRLF in it, and a CR at its end is not followed by an LF in the chunk; a flush after a cut starts whole again, since nothing is under way between two chunks |
| `LinesArriveHolds` | strengthened to `InStep`: the bytes ahead (the line under way, the rest of the chunk, the wire, in this order) carry exactly the lines after the last message; `FirstLine` shows that two texts followed by a CRLF agree if the first has no CRLF and the second no line end, so a message is the next line |
| `NothingHeldBackHolds` | from the same invariant: with nothing to parse, a line that is ahead would be in the incomplete line, CRLF and all, which `WholeUnlessCut` excludes |
| `SpeakersAreKnownHolds` | assumes `ChatLinesAreUnderstood`; a message is the line in its place, so it says the same |
| `LineStreamImplemented` | assumes `TypesAreIdentified`; sending, completing a line, a cut and a flush are the four steps of `LineStream`, the other steps leave `Ahead` as it is |

`Carries` says what lines a sequence of bytes is without recursion: there is a function `rest`,
`rest[k]` the bytes from line `k` on, and each is the text of its line, a CRLF and the next
one. The lemmas about it extend or shorten `rest`, so no induction is needed. The two
hypotheses are about lines *on their own*, for which `MessageContents` and `IdentifyMessageType`
fold over the bytes; what a fold yields for every input is induction over data and stays with
TLC. The lines of `MCMessageProcessor` satisfy both: `Framing` has a message of each of them and
checks its type and what it says.

So every safety property that a passing run checks, the three refinements included, is proved
too. Only model-checked are the liveness properties (`RecoveryEnds`, `SessionSettles`,
`PingAnswered`, `BrokenStreamEndsReading`, `CommandIsExecuted`), since fairness is beyond the
prover.

## 6. Not modelled

* `IrcClient`, `MessageProcessor` and `ChatBot` side by side: in `IrcClient` a chunk parses to
  any batch, and `ChatBot` is given any message. The parts share no state but the batch, whose
  members each of them quantifies over, so the product would multiply the states of three
  specifications without a new interaction.
* Two writes that overlap on one stream, and unprotected accesses to a `shared_ptr`, to `ec_`
  or to the string `join_command_buffer_`: the outcome is not one the model could enumerate.
  Each access is one step.
* `GetMode`, and `GetCommand` for a command that was never added: both end without a return.
* Calls of the client's `Connect`, `Authorize`, `CapRequest` and `Read` (`irc_client.h:38-47`)
  by the application once the threads run. They are public, and `main()` makes them before. An
  application that calls `Read` beside the read loop has two of them, and one that calls
  `Connect` does what a recovery does without its order, so `OneReadLoop`, the properties that
  rest on it, `SessionRestored` and `HandlerFollows` hold for applications that do not.
* Runtime changes of lists and roles, which `README.md:12` excludes.
* `GetColorFromHex`, `GetBadges`, `GetJoinedChannels`, `CheckConnect` and the other getters
  that only read; `SetReconnectTimeout`, a duration.
* Certificates and the TLS context, addresses, `AuthorizeData` (two strings put into a line),
  logging, the build, the executors (code of the application: `Run` has their call, which
  returns, throws or ends the process).

## 7. Hazards

`PROJECT.json` lists them with their lines. In groups:

* a second read loop or a stale buffer after a recovery: `OneReadLoop`,
  `NoCrossSessionFraming`;
* a recovered session that is not what it was, a handler left behind: `SessionRestored`,
  `HandlerFollows`, `HandlerNeverGoesBack`;
* a recovery that never ends or ends the process: `RecoveryEnds`, `SessionSettles`,
  `TerminationHasCause`, `ImplementsSession`;
* a peer that never answers the handshake: `RecoveryEnds`, `SessionSettles`;
* a bot taken away while a chat message is on its way to it: `TerminationHasCause`;
* a stream that breaks and is not noticed: `NeverReconnects`, `BrokenStreamEndsReading`;
* PINGs lost or answered twice: `PingHandledOnce`, `PingAnswered`, `OnePongPerPing`;
* shared commands: `ContentIsAllowed`, `OwnContentUnlessShared`, `Authorised`;
* a request served twice, dropped, or lost with another one: `CalledOnce`, `CommandIsExecuted`,
  `ImplementsService`;
* configuration without effect: `MinimumRoleRequired`;
* lines and chunks: `ProcessorTypeOK`, `OneLinePerMessage`, `ImplementsLineStream`,
  `NothingHeldBack`, `PingsAreIdentified`;
* tags and badges: `SpeakersAreKnown`.

Without a property: a JOIN line that grows without limit, torn strings and `shared_ptr`s,
overlapping writes, and the missing returns of `GetCommand` and `GetMode`; each has its reason
in `PROJECT.json`.

## 8. Plan

Done: the session layer (`Connection`, `MessageHandler`, `IrcClient`, `Session`), the bot with
its setup (`UserVerificator`, `ChatBot`, `CommandService`), the message processor and the messages
(`MessageTypes`, `MessageContents`, `MessageProcessor`, `LineStream`), their runs and theorems, and
the proofs that they implement the three abstract specifications.
What could follow:

1. `Chat`: batches, processor and bot composed on an instance small enough for TLC, with a
   property from the bytes of a PRIVMSG to the call of an executor.
2. The refinements give each part a far smaller specification; `Session`, `LineStream`
   and `CommandService` could be composed instead of the parts.
3. The safety half of the liveness properties as theorems: that a reading which ended is never
   taken up again without `ErrorWithBytes`, and that a PING the bot's client has read is in its
   batch, on the strand or answered until the process ends.
