------------------------------- MODULE ChatBot -------------------------------
(***************************************************************************)
(* chat_bot::ChatBot and commands::Command.  ParseAndExecute runs on the   *)
(* system thread pool and posts two handlers to the io_context, without a  *)
(* strand: any worker thread takes any of them, and all workers share the  *)
(* Command objects, whose content_ is written by AddContent and read by    *)
(* Execute.                                                                *)
(***************************************************************************)
EXTENDS UserVerificator, Sequences

CONSTANTS
  Commands,      \* names of commands the application may add
  Modes,         \* names of modes it may add
  NoCommand,     \* no object
  Workers,       \* threads that run the io_context
  Starts,        \* characters that may start a command
  Levels,        \* what the application gives SetRoleLevel
  MinimumRoles,  \* what it gives SetMinimumUserRole
  Settings,      \* bound: the verificators it makes of commands
  ModeSettings,  \* the verificators it makes of modes
  Chats,         \* external: the chat messages with a text there may be
  MaxMessages    \* bound: how many messages are handed to the bot

\* The command or mode objects.
Executable == Commands \cup Modes

\* A text by the character it starts with and the word that follows.
ChatMessage == [nick : Users, role : Role, start : Starts,
                command : Commands \cup {NoCommand}]

ASSUME ChatBotAssumption ==
  /\ MaxMessages \in Nat
  /\ Commands \cap Modes = {} /\ NoCommand \notin Executable
  /\ "!" \in Starts
  /\ Levels \subseteq Int /\ MinimumRoles \subseteq Role
  /\ Settings \subseteq Verificator /\ ModeSettings \subseteq Verificator
  /\ Chats \subseteq ChatMessage

VARIABLES
  process,           \* main() sets up, runs the workers, or has ended
  command_start,     \* command_start_
  added,             \* the keys of name_to_command_ and name_to_mode_
  verificator,       \* Command::verificator_
  minimum_user_role, \* Command::minimum_user_role_
  content,           \* Command::content_: the message it is the text of
  messages,          \* the messages given to ParseAndExecute so far
  posting,           \* of those, the ones whose second post is still to come
  ioc,               \* the handlers queued on the io_context
  worker,            \* what each worker thread does
  shared,            \* history: workers whose object another one served too
                     \* while they did
  executed           \* external: the calls of executors, with what they got

settingVars == <<command_start, added, verificator, minimum_user_role>>

setupVars == <<process, settingVars>>

postVars == <<messages, posting, ioc>>

botVars == <<setupVars, content, postVars, worker, shared, executed>>

MessageNumber == 1 .. MaxMessages

\* content_ before the first AddContent, and while it is being assigned
\* (another thread that looks at it sees neither text).
NoContent == 0
Torn == MaxMessages + 1
Content == 0 .. MaxMessages + 1

Handler == [task : {"UseModes", "ProcessCommand"}, msg : MessageNumber]

(***************************************************************************)
(* A worker: the message its handler is about, the objects still to serve, *)
(* the one it serves, and the next step on it.                             *)
(***************************************************************************)
Idle == [msg |-> 0, todo |-> {}, at |-> NoCommand, step |-> "idle"]

\* Looking for the next object.
Serving(m, objects) == [msg |-> m, todo |-> objects, at |-> NoCommand, step |-> "next"]

Job == [msg : 0 .. MaxMessages, todo : SUBSET Executable,
        at : Executable \cup {NoCommand},
        step : {"idle", "next", "adding", "execute", "run"}]

Call == [on : Executable, by : MessageNumber, content : Content, shared : BOOLEAN]

BotTypeOK ==
  /\ process \in {"setup", "running", "ended"}
  /\ added \subseteq Executable
  /\ verificator \in [Executable -> Verificator]
  /\ minimum_user_role \in [Executable -> Role]
  /\ content \in [Executable -> Content]
  /\ messages \in Seq(ChatMessage)
  /\ Len(messages) \in 0 .. MaxMessages
  /\ posting \subseteq 1 .. Len(messages)
  /\ ioc \in Seq(Handler)
  /\ worker \in [Workers -> Job]
  /\ \A w \in Workers : worker[w].todo \subseteq added
  /\ shared \subseteq Workers
  /\ executed \subseteq Call

Init ==
  /\ process = "setup"
  /\ command_start = "!"
  /\ added = {}
  /\ verificator = [x \in Executable |-> NewVerificator]
  /\ minimum_user_role = [x \in Executable |-> MODERATOR]
  /\ content = [x \in Executable |-> NoContent]
  /\ messages = <<>>
  /\ posting = {}
  /\ ioc = <<>>
  /\ worker = [w \in Workers |-> Idle]
  /\ shared = {}
  /\ executed = {}

-------------------------------------------------------------------------------
(***************************************************************************)
(* What the application sets up before RunWorkers: nothing may be changed  *)
(* once the threads run (README.md:12).                                    *)
(***************************************************************************)
Setup ==
  /\ process = "setup"
  /\ UNCHANGED <<process, postVars, worker, shared, executed>>

SetCommandStart ==
  /\ Setup
  /\ command_start' \in Starts
  /\ UNCHANGED <<added, verificator, minimum_user_role, content>>

\* A Command is moved into the map, over what has the name.
Add(x, v) ==
  /\ Setup
  /\ added' = added \cup {x}
  /\ verificator' = [verificator EXCEPT ![x] = v]
  /\ minimum_user_role' = [minimum_user_role EXCEPT ![x] = MODERATOR]
  /\ content' = [content EXCEPT ![x] = NoContent]
  /\ UNCHANGED command_start

AddCommand(c) == Add(c, NewVerificator)

\* GetMode finds no mode: what is set must be set before.
AddMode(m) == \E v \in ModeSettings : Add(m, v)

\* What one setter makes of a verificator.
SettingsAfter(v) ==
  {SetWhiteListOnly(v, status) : status \in BOOLEAN}
    \cup {AddUserInWhiteList(v, user) : user \in Users}
    \cup {RemoveUserFromWhiteList(v, user) : user \in Users}
    \cup {AddUserInBlackList(v, user) : user \in Users}
    \cup {RemoveUserFromBlackList(v, user) : user \in Users}
    \cup {SetRoleLevel(v, level) : level \in Levels}

\* GetCommand and a setter of the command.
Configure(c) ==
  /\ Setup
  /\ c \in added
  /\ \E v \in SettingsAfter(verificator[c]) \cap Settings :
       verificator' = [verificator EXCEPT ![c] = v]
  /\ UNCHANGED <<command_start, added, minimum_user_role, content>>

SetMinimumUserRole(c) ==
  /\ Setup
  /\ c \in added
  /\ \E role \in MinimumRoles :
       minimum_user_role' = [minimum_user_role EXCEPT ![c] = role]
  /\ UNCHANGED <<command_start, added, verificator, content>>

RunWorkers ==
  /\ process = "setup"
  /\ process' = "running"
  /\ UNCHANGED <<settingVars, content, postVars, worker, shared, executed>>

-------------------------------------------------------------------------------
\* ParseAndExecute, up to its first post and its second post.
\* Mutant: a newer handler replaces one that waits.
PostLatest(task, m) == ioc' = <<[task |-> task, msg |-> m]>>

Post(task, m) == ioc' = Append(ioc, [task |-> task, msg |-> m])

PostModes ==
  /\ process = "running"
  /\ Len(messages) < MaxMessages
  /\ \E chat \in Chats : messages' = Append(messages, chat)
  /\ posting' = posting \cup {Len(messages) + 1}
  /\ Post("UseModes", Len(messages) + 1)
  /\ UNCHANGED <<setupVars, content, worker, shared, executed>>

PostCommand(m) ==
  /\ process = "running"
  /\ m \in posting
  /\ posting' = posting \ {m}
  /\ Post("ProcessCommand", m)
  /\ UNCHANGED <<setupVars, content, messages, worker, shared, executed>>

-------------------------------------------------------------------------------
Moves(w, step) == worker' = [worker EXCEPT ![w].step = step]

\* Mutant: the loop stays at the object.
ServedAgain(w) ==
  worker' = [worker EXCEPT ![w] = Serving(worker[w].msg, worker[w].todo)]

\* The worker is through with the object it serves.
Served(w) ==
  worker' = [worker EXCEPT ![w] =
               Serving(worker[w].msg, worker[w].todo \ {worker[w].at})]

\* Mutant: the result of find is used without a look at end().
ObjectsUnchecked(h) ==
  IF h.task = "UseModes" THEN Modes \cap added
  ELSE IF messages[h.msg].start = command_start THEN {messages[h.msg].command} ELSE {}

\* UseModes serves every mode, ProcessCommand the command the text names.
Objects(h) ==
  IF h.task = "UseModes" THEN Modes \cap added
  ELSE IF messages[h.msg].start = command_start
  THEN {messages[h.msg].command} \cap added
  ELSE {}

Start(w) ==
  /\ worker[w].step = "idle"
  /\ ioc # <<>>
  /\ ioc' = Tail(ioc)
  /\ worker' = [worker EXCEPT ![w] = Serving(Head(ioc).msg, Objects(Head(ioc)))]
  /\ UNCHANGED <<setupVars, content, messages, posting, shared, executed>>

\* The other workers between AddContent and the executor of x.
ServesAlso(w, x) ==
  {v \in Workers \ {w} : worker[v].at = x /\ worker[v].step \in {"adding", "execute", "run"}}

\* Mutant: the text is not handed over.
AddContentSkipped(w) ==
  /\ worker[w].step = "next"
  /\ \E x \in worker[w].todo :
       worker' = [worker EXCEPT ![w].step = "execute", ![w].at = x]
  /\ UNCHANGED <<setupVars, content, postVars, shared, executed>>

\* AddContent begins.  The order of the modes is that of an unordered_map.
AddContent(w) ==
  /\ worker[w].step = "next"
  /\ \E x \in worker[w].todo :
       /\ worker' = [worker EXCEPT ![w].step = "adding", ![w].at = x]
       /\ content' = [content EXCEPT ![x] = Torn]
       /\ shared' = (shared \ {w}) \cup ServesAlso(w, x)
                      \cup (IF ServesAlso(w, x) = {} THEN {} ELSE {w})
  /\ UNCHANGED <<setupVars, postVars, executed>>

(***************************************************************************)
(* AddContent ends.  Two threads that assign the string at once are a data *)
(* race: the first to end may leave its text or a torn one.                *)
(***************************************************************************)
Overlaps(w) ==
  \E v \in Workers \ {w} : worker[v].step = "adding" /\ worker[v].at = worker[w].at

ContentAdded(w) ==
  /\ worker[w].step = "adding"
  /\ \E text \in {worker[w].msg} \cup (IF Overlaps(w) THEN {Torn} ELSE {}) :
       content' = [content EXCEPT ![worker[w].at] = text]
  /\ Moves(w, "execute")
  /\ UNCHANGED <<setupVars, postVars, shared, executed>>

\* Mutant: the user is not verified.
VerifyUserSkipped(w) ==
  /\ worker[w].step = "execute"
  /\ Moves(w, "run")
  /\ UNCHANGED <<setupVars, content, postVars, shared, executed>>

\* Execute: Verify, then the executor with content_ as it is by then.
VerifyUser(w) ==
  /\ worker[w].step = "execute"
  /\ LET author == messages[worker[w].msg] IN
       IF Verify(verificator[worker[w].at], author.nick, author.role)
       THEN Moves(w, "run")
       ELSE Served(w)
  /\ UNCHANGED <<setupVars, content, postVars, shared, executed>>

(***************************************************************************)
(* The executor is called.  A std::exception of it ends the handler, with  *)
(* modes left to serve; anything else it throws leaves the io_context and  *)
(* ends the process, and so does an executor that was never set.           *)
(***************************************************************************)
CallExecutor(w) ==
  executed' = executed \cup
    {[on |-> worker[w].at, by |-> worker[w].msg, content |-> content[worker[w].at],
      shared |-> w \in shared]}

Run(w) ==
  /\ worker[w].step = "run"
  /\ \/ CallExecutor(w) /\ Served(w) /\ UNCHANGED process
     \/ /\ CallExecutor(w)
        /\ worker' = [worker EXCEPT ![w] = Idle]
        /\ process' \in {"running", "ended"}
     \/ process' = "ended" /\ UNCHANGED <<worker, executed>>
  /\ UNCHANGED <<settingVars, content, postVars, shared>>

Finish(w) ==
  /\ worker[w].step = "next" /\ worker[w].todo = {}
  /\ worker' = [worker EXCEPT ![w] = Idle]
  /\ UNCHANGED <<setupVars, content, postVars, shared, executed>>

Work(w) ==
  /\ process = "running"
  /\ \/ Start(w) \/ AddContent(w) \/ ContentAdded(w)
     \/ VerifyUser(w) \/ Run(w) \/ Finish(w)

Application ==
  \/ SetCommandStart
  \/ \E c \in Commands : AddCommand(c) \/ Configure(c) \/ SetMinimumUserRole(c)
  \/ \E m \in Modes : AddMode(m)
  \/ RunWorkers

Next ==
  \/ Application
  \/ PostModes
  \/ \E m \in MessageNumber : PostCommand(m)
  \/ \E w \in Workers : Work(w)

Spec == Init /\ [][Next]_botVars

\* Threads of the pools keep running what is posted, as long as there are any.
FairSpec ==
  /\ Spec
  /\ \A m \in MessageNumber : WF_botVars(PostCommand(m))
  /\ \A w \in Workers : WF_botVars(Work(w))

-------------------------------------------------------------------------------
Allowed(x, m) == Verify(verificator[x], messages[m].nick, messages[m].role)

\* An executor is only ever called on behalf of a user who is allowed to.
Authorised == \A call \in executed : Allowed(call.on, call.by)

(***************************************************************************)
(* The validator decides which role a user must at least have to use a     *)
(* command (README.md:10), and SetMinimumUserRole is what sets one: nobody *)
(* below it gets through but who is on the white list.                     *)
(***************************************************************************)
MinimumRoleRequired ==
  \A call \in executed :
    \/ messages[call.by].role >= minimum_user_role[call.on]
    \/ messages[call.by].nick \in verificator[call.on].white_list

(***************************************************************************)
(* The validator decides who may use a command (README.md:10): the text an *)
(* executor gets was written by a user who is allowed to use it.           *)
(***************************************************************************)
ContentIsAllowed ==
  \A call \in executed :
    call.content \in DOMAIN messages => Allowed(call.on, call.content)

(***************************************************************************)
(* What the code does keep of it for any number of threads: the text is    *)
(* another message's than the one it is called for only if another thread  *)
(* was between AddContent and the executor of the same object meanwhile.   *)
(***************************************************************************)
OwnContentUnlessShared ==
  \A call \in executed : call.shared \/ call.content = call.by

(***************************************************************************)
(* The requests that are on their way: those of a ProcessCommand still to  *)
(* be posted, of the handlers that are queued and of the workers.          *)
(***************************************************************************)
CommandHandler(m) == [task |-> "ProcessCommand", msg |-> m]

Waiting == {CommandHandler(m) : m \in posting} \cup {ioc[i] : i \in DOMAIN ioc}

Held(w) == {worker[w].msg} \X worker[w].todo

Requests ==
  UNION ({{h.msg} \X Objects(h) : h \in Waiting} \cup {Held(w) : w \in Workers})

\* <<message, object>>: the author may use it, the executor was called.
Granted == {r \in (DOMAIN messages) \X Executable : Allowed(r[2], r[1])}

Called == {<<call.by, call.on>> : call \in executed}

(***************************************************************************)
(* For one message an executor is called at most once, whichever thread    *)
(* serves it: the one a worker is about to call was not called yet.        *)
(***************************************************************************)
CalledOnce ==
  \A w \in Workers :
    worker[w].step = "run" => <<worker[w].msg, worker[w].at>> \notin Called

(***************************************************************************)
(* However the threads interleave, the bot is the CommandService: what a   *)
(* message asks for is executed once or refused, and neither an exception  *)
(* nor another message takes a command away.                               *)
(***************************************************************************)
Service ==
  INSTANCE CommandService WITH
    offered <- added,
    given <- Len(messages),
    allowed <- Granted,
    pending <- Requests,
    called <- Called

ImplementsService == Service!Spec

(***************************************************************************)
(* A posted command of a user who is allowed to use it is executed, unless *)
(* an executor ends the process.                                           *)
(***************************************************************************)
CommandIsExecuted ==
  \A m \in MessageNumber, c \in Commands :
    (/\ m \in posting /\ messages[m].start = command_start
     /\ messages[m].command = c /\ c \in added /\ Allowed(c, m))
      ~> \/ \E call \in executed : call.on = c /\ call.by = m
         \/ process = "ended"
===============================================================================
