------------------------- MODULE ChatBotServiceProofs -------------------------
(***************************************************************************)
(* ChatBot implements CommandService for every set of commands, modes,     *)
(* users and settings, any number of messages and any number of worker     *)
(* threads.                                                                *)
(***************************************************************************)
EXTENDS ChatBotProofs

USE DEF settingVars, setupVars

(***************************************************************************)
(* Every request is in one place: no handler is queued twice, nor queued   *)
(* and still to be posted; a worker holds nothing that a waiting handler   *)
(* or another worker holds; and what it serves is among what it holds.     *)
(***************************************************************************)
PostedOnce ==
  /\ \A i, j \in DOMAIN ioc : ioc[i] = ioc[j] => i = j
  /\ \A m \in posting, i \in DOMAIN ioc : ioc[i] # CommandHandler(m)

HeldByOne ==
  /\ \A w \in Workers, h \in Waiting :
       worker[w].msg = h.msg => worker[w].todo \cap Objects(h) = {}
  /\ \A v, w \in Workers :
       v # w /\ worker[v].msg = worker[w].msg => worker[v].todo \cap worker[w].todo = {}

\* A handler is about the modes or about one command.
ModesOrCommand(objects) == objects \subseteq Modes \/ \E c \in Commands : objects \subseteq {c}

JobsInOrder ==
  \A w \in Workers :
    /\ worker[w].step = "idle" => worker[w].todo = {}
    /\ worker[w].step \in {"adding", "execute", "run"} => worker[w].at \in worker[w].todo
    /\ ModesOrCommand(worker[w].todo)

RequestInv == PostedOnce /\ HeldByOne /\ JobsInOrder

-------------------------------------------------------------------------------
\* What a waiting handler is about.
LEMMA WaitingHandler ==
  ASSUME BotInv, NEW h \in Waiting
  PROVE  /\ h \in Handler /\ h.msg \in Given
         /\ Objects(h) \subseteq added
         /\ h.task = "UseModes" => Objects(h) \subseteq Modes
         /\ h.task = "ProcessCommand" => Objects(h) \subseteq Commands
         /\ ModesOrCommand(Objects(h))
<1>1. h \in Handler /\ h.msg \in Given
  <2>1. CASE \E i \in DOMAIN ioc : h = ioc[i]
    BY <2>1 DEF BotInv, BotTypeOK, Grounded
  <2>2. CASE \E m \in posting : h = CommandHandler(m)
    <3>1. PICK m \in posting : h = CommandHandler(m)
      BY <2>2
    <3>2. m \in Given /\ m \in MessageNumber
      BY ChatBotAssumption DEF BotInv, BotTypeOK, Given, MessageNumber
    <3> QED BY <3>1, <3>2 DEF CommandHandler, Handler
  <2> QED BY <2>1, <2>2 DEF Waiting
<1>2. messages[h.msg].command \in Commands \cup {NoCommand}
  <2>1. messages[h.msg] \in ChatMessage
    BY <1>1 DEF BotInv, BotTypeOK, Given
  <2> QED BY <2>1 DEF ChatMessage
<1>3. NoCommand \notin added
  BY ChatBotAssumption DEF BotInv, BotTypeOK
<1>4. h.task = "UseModes" => Objects(h) \subseteq Modes
  BY DEF Objects
<1>5. h.task = "ProcessCommand" =>
        Objects(h) \subseteq {messages[h.msg].command} \cap Commands
  BY <1>2, <1>3 DEF Objects
<1>6. h.task \in {"UseModes", "ProcessCommand"}
  BY <1>1 DEF Handler
<1>7. Objects(h) \subseteq added
  BY DEF Objects
<1>8. ModesOrCommand(Objects(h))
  <2>1. CASE h.task = "UseModes"
    BY <1>4, <2>1 DEF ModesOrCommand
  <2>2. CASE h.task = "ProcessCommand"
    BY <1>2, <1>5, <2>2 DEF ModesOrCommand
  <2> QED BY <1>6, <2>1, <2>2
<1> QED BY <1>1, <1>4, <1>5, <1>7, <1>8

LEMMA TwoHandlers ==
  ASSUME BotInv, NEW h \in Waiting, NEW k \in Waiting, h # k, h.msg = k.msg
  PROVE  Objects(h) \cap Objects(k) = {}
<1>1. h.task # k.task /\ {h.task, k.task} \subseteq {"UseModes", "ProcessCommand"}
  BY WaitingHandler DEF Handler
<1>2. Commands \cap Modes = {}
  BY ChatBotAssumption
<1> QED BY <1>1, <1>2, WaitingHandler

\* Where the requests are that w does not hold.
Elsewhere(w) ==
  UNION ({{h.msg} \X Objects(h) : h \in Waiting} \cup {Held(v) : v \in Workers \ {w}})

LEMMA HeldOrElsewhere ==
  ASSUME NEW w \in Workers
  PROVE  Requests = Elsewhere(w) \cup Held(w)
BY DEF Requests, Elsewhere

LEMMA HeldNotElsewhere ==
  ASSUME RequestInv, NEW w \in Workers
  PROVE  Elsewhere(w) \cap Held(w) = {}
<1> SUFFICES ASSUME NEW r \in Elsewhere(w), r \in Held(w) PROVE FALSE
  OBVIOUS
<1>1. PICK x \in worker[w].todo : r = <<worker[w].msg, x>>
  BY DEF Held
<1>2. ASSUME NEW h \in Waiting, r \in {h.msg} \X Objects(h)
      PROVE  FALSE
  BY <1>1, <1>2 DEF RequestInv, HeldByOne
<1>3. ASSUME NEW v \in Workers \ {w}, r \in Held(v)
      PROVE  FALSE
  BY <1>1, <1>3 DEF RequestInv, HeldByOne, Held
<1> QED BY <1>2, <1>3 DEF Elsewhere

-------------------------------------------------------------------------------
(***************************************************************************)
(* A step of a worker that takes no handler.                               *)
(***************************************************************************)
WorksOn(w) ==
  /\ \A v \in Workers \ {w} : worker'[v] = worker[v]
  /\ UNCHANGED <<settingVars, postVars>>

LEMMA ElsewhereUnchanged ==
  ASSUME NEW w \in Workers, WorksOn(w)
  PROVE  Elsewhere(w)' = Elsewhere(w) /\ Waiting' = Waiting
<1>1. Waiting' = Waiting /\ \A h : Objects(h)' = Objects(h)
  BY DEF WorksOn, setupVars, postVars, Waiting, Objects
<1>2. \A v \in Workers \ {w} : Held(v)' = Held(v)
  BY DEF WorksOn, Held
<1> QED BY <1>1, <1>2 DEF Elsewhere

LEMMA WorkerKeepsInv ==
  ASSUME RequestInv, NEW w \in Workers, WorksOn(w),
         worker'[w].todo \subseteq worker[w].todo,
         worker'[w].todo = {} \/ worker'[w].msg = worker[w].msg,
         worker'[w].step = "idle" => worker'[w].todo = {},
         worker'[w].step \in {"adding", "execute", "run"} => worker'[w].at \in worker'[w].todo
  PROVE  RequestInv'
<1>1. Waiting' = Waiting /\ (\A h : Objects(h)' = Objects(h)) /\ UNCHANGED <<ioc, posting>>
  BY ElsewhereUnchanged DEF WorksOn, setupVars, postVars, Objects
<1>2. PostedOnce'
  BY <1>1 DEF RequestInv, PostedOnce, CommandHandler
<1>3. \A v \in Workers : /\ worker'[v].todo \subseteq worker[v].todo
                         /\ worker'[v].todo = {} \/ worker'[v].msg = worker[v].msg
  BY DEF WorksOn
<1>4. HeldByOne'
  BY <1>1, <1>3 DEF RequestInv, HeldByOne
<1>5. JobsInOrder'
  BY <1>3 DEF RequestInv, JobsInOrder, ModesOrCommand, WorksOn
<1> QED BY <1>2, <1>4, <1>5 DEF RequestInv

-------------------------------------------------------------------------------
LEMMA InitRequests == Init => RequestInv
<1> SUFFICES ASSUME Init PROVE RequestInv
  OBVIOUS
<1>1. /\ DOMAIN ioc = {} /\ posting = {}
      /\ \A w \in Workers : worker[w].todo = {} /\ worker[w].step = "idle"
  BY DEF Init, Idle
<1>2. Waiting = {}
  BY <1>1 DEF Waiting
<1> QED BY <1>1, <1>2
    DEF RequestInv, PostedOnce, HeldByOne, JobsInOrder, ModesOrCommand

\* Before the threads run nothing was asked for.
LEMMA NothingAsked ==
  ASSUME BotInv, RequestInv, process = "setup"
  PROVE  /\ Len(messages) = 0 /\ DOMAIN messages = {} /\ ioc = <<>> /\ posting = {}
         /\ Waiting = {} /\ \A w \in Workers : worker[w].todo = {}
<1>1. Given = {} /\ Len(messages) \in Nat /\ DOMAIN messages = Given
  BY DEF BotInv, BotTypeOK, Grounded, Given
<1>2. Len(messages) = 0 /\ DOMAIN messages = {} /\ posting = {}
  <2>1. posting \subseteq Given
    BY DEF BotInv, BotTypeOK, Given
  <2>2. Len(messages) = 0
    BY <1>1 DEF Given
  <2> QED BY <1>1, <2>1, <2>2
<1>3. ioc = <<>>
  <2>1. ioc \in Seq(Handler) /\ DOMAIN ioc = {}
    BY <1>1 DEF BotInv, BotTypeOK, Grounded
  <2>2. Len(ioc) = 0
    BY <2>1
  <2> QED BY <2>1, <2>2, EmptySeq
<1>4. \A w \in Workers : worker[w].todo = {}
  BY <1>1 DEF BotInv, Grounded, RequestInv, JobsInOrder
<1>5. Waiting = {}
  BY <1>2, <1>3 DEF Waiting
<1> QED BY <1>2, <1>3, <1>4, <1>5

LEMMA ApplicationChanges ==
  ASSUME Application
  PROVE  /\ process = "setup"
         /\ UNCHANGED <<postVars, worker, executed>>
         /\ added' = added \/ \E x \in Executable : added' = added \cup {x}
BY DEF Application, SetCommandStart, AddCommand, AddMode, Add, Configure,
   SetMinimumUserRole, RunWorkers, Setup, Executable

LEMMA ApplicationRequests ==
  ASSUME BotInv, RequestInv, Application
  PROVE  RequestInv' /\ Requests' = Requests /\ Granted' = Granted
<1>1. /\ DOMAIN messages = {} /\ ioc = <<>> /\ posting = {}
      /\ Waiting = {} /\ \A w \in Workers : worker[w].todo = {}
  BY ApplicationChanges, NothingAsked
<1>2. UNCHANGED <<messages, ioc, posting, worker>>
  BY ApplicationChanges DEF postVars
<1>3. Waiting' = {}
  BY <1>1, <1>2 DEF Waiting
<1>4. RequestInv'
  BY <1>1, <1>2, <1>3 DEF RequestInv, PostedOnce, HeldByOne, JobsInOrder, ModesOrCommand
<1>5. Requests' = Requests
  BY <1>1, <1>2, <1>3 DEF Requests, Held
<1>6. Granted' = {} /\ Granted = {}
  BY <1>1, <1>2 DEF Granted
<1> QED BY <1>4, <1>5, <1>6

-------------------------------------------------------------------------------
(***************************************************************************)
(* A message is posted twice.                                              *)
(***************************************************************************)
LEMMA PostQueues ==
  ASSUME BotInv, NEW task \in {"UseModes", "ProcessCommand"}, NEW m \in MessageNumber,
         Post(task, m)
  PROVE  /\ Len(ioc) \in Nat /\ DOMAIN ioc = 1 .. Len(ioc)
         /\ DOMAIN ioc' = 1 .. Len(ioc) + 1
         /\ \A i \in DOMAIN ioc : ioc'[i] = ioc[i]
         /\ ioc'[Len(ioc) + 1] = [task |-> task, msg |-> m]
         /\ {ioc'[i] : i \in DOMAIN ioc'}
              = {ioc[i] : i \in DOMAIN ioc} \cup {[task |-> task, msg |-> m]}
<1> DEFINE h == [task |-> task, msg |-> m]
<1>1. h \in Handler /\ ioc \in Seq(Handler) /\ ioc' = Append(ioc, h)
  BY DEF Handler, BotInv, BotTypeOK, Post
<1> HIDE DEF h
<1>2. /\ Len(ioc) \in Nat /\ DOMAIN ioc = 1 .. Len(ioc)
      /\ DOMAIN ioc' = 1 .. Len(ioc) + 1
      /\ \A i \in DOMAIN ioc : ioc'[i] = ioc[i]
      /\ ioc'[Len(ioc) + 1] = h
  BY <1>1, AppendProperties
<1>3. {ioc'[i] : i \in DOMAIN ioc'} = {ioc[i] : i \in DOMAIN ioc} \cup {h}
  BY <1>2
<1> QED BY <1>2, <1>3 DEF h

LEMMA NewHandlerKeepsPostedOnce ==
  ASSUME BotInv, RequestInv, NEW task \in {"UseModes", "ProcessCommand"},
         NEW m \in MessageNumber, Post(task, m),
         \A i \in DOMAIN ioc : ioc[i] # [task |-> task, msg |-> m],
         \A k \in posting' : CommandHandler(k) # [task |-> task, msg |-> m],
         \A k \in posting' : k \in posting \/ \A i \in DOMAIN ioc : ioc[i] # CommandHandler(k)
  PROVE  PostedOnce'
<1> DEFINE h == [task |-> task, msg |-> m]
<1>1. /\ Len(ioc) \in Nat /\ DOMAIN ioc = 1 .. Len(ioc)
      /\ DOMAIN ioc' = 1 .. Len(ioc) + 1
      /\ \A i \in DOMAIN ioc : ioc'[i] = ioc[i]
      /\ ioc'[Len(ioc) + 1] = h
  BY PostQueues
<1>2. /\ \A i \in DOMAIN ioc : ioc[i] # h
      /\ \A k \in posting' : CommandHandler(k) # h
  OBVIOUS
<1> HIDE DEF h
<1>3. \A i \in DOMAIN ioc' : i \in DOMAIN ioc \/ i = Len(ioc) + 1
  BY <1>1
<1>4. \A i, j \in DOMAIN ioc' : ioc'[i] = ioc'[j] => i = j
  BY <1>1, <1>2, <1>3 DEF RequestInv, PostedOnce
<1>5. \A k \in posting', i \in DOMAIN ioc' : ioc'[i] # CommandHandler(k)
  BY <1>1, <1>2, <1>3 DEF RequestInv, PostedOnce
<1> QED BY <1>4, <1>5 DEF PostedOnce, CommandHandler

\* The second post: the handler waits in the queue from then on.
LEMMA PostCommandRequests ==
  ASSUME BotInv, RequestInv, NEW m \in MessageNumber, PostCommand(m)
  PROVE  RequestInv' /\ Requests' = Requests
<1> DEFINE h == CommandHandler(m)
<1>1. /\ m \in posting /\ posting' = posting \ {m} /\ Post("ProcessCommand", m)
      /\ UNCHANGED <<setupVars, messages, worker>>
  BY DEF PostCommand
<1>2. {ioc'[i] : i \in DOMAIN ioc'} = {ioc[i] : i \in DOMAIN ioc} \cup {h}
  BY <1>1, PostQueues DEF CommandHandler
<1>3. Waiting' = Waiting
  BY <1>1, <1>2 DEF Waiting, CommandHandler
<1>4. \A g : Objects(g)' = Objects(g)
  BY <1>1 DEF Objects, setupVars
<1>5. PostedOnce'
  <2>1. \A i \in DOMAIN ioc : ioc[i] # [task |-> "ProcessCommand", msg |-> m]
    BY <1>1 DEF RequestInv, PostedOnce, CommandHandler
  <2>2. \A k \in posting' :
          k \in posting /\ CommandHandler(k) # [task |-> "ProcessCommand", msg |-> m]
    BY <1>1 DEF CommandHandler
  <2> QED BY <1>1, <2>1, <2>2, NewHandlerKeepsPostedOnce
<1>6. HeldByOne' /\ JobsInOrder'
  BY <1>1, <1>3, <1>4 DEF RequestInv, HeldByOne, JobsInOrder, ModesOrCommand
<1>7. Requests' = Requests
  BY <1>1, <1>3, <1>4 DEF Requests, Held
<1> QED BY <1>5, <1>6, <1>7 DEF RequestInv

\* A worker that holds something does so for a message the bot was given.
LEMMA HeldIsGiven ==
  ASSUME BotInv, RequestInv, NEW w \in Workers, worker[w].todo # {}
  PROVE  worker[w].msg \in Given
BY DEF RequestInv, JobsInOrder, BotInv, Grounded

(***************************************************************************)
(* The first post: the message asks for all modes, and for the command its *)
(* text names.                                                             *)
(***************************************************************************)
LEMMA PostModesRequests ==
  ASSUME BotInv, RequestInv, PostModes
  PROVE  /\ RequestInv'
         /\ \E command \in {{}} \cup {{c} : c \in Commands \cap added} :
              Requests' = Requests
                            \cup {Len(messages) + 1} \X ((Modes \cap added) \cup command)
<1> DEFINE n == Len(messages) + 1
           modes == [task |-> "UseModes", msg |-> n]
           command == CommandHandler(n)
<1>1. PICK chat \in Chats : messages' = Append(messages, chat)
  BY DEF PostModes
<1>2. /\ chat \in ChatMessage /\ messages \in Seq(ChatMessage)
      /\ Len(messages) \in Nat /\ n \in MessageNumber
  BY ChatBotAssumption DEF BotInv, BotTypeOK, PostModes, MessageNumber
<1>3. n \notin Given /\ DOMAIN messages = Given /\ \A k \in Given : messages'[k] = messages[k]
  BY <1>1, <1>2, AppendProperties DEF Given
<1>4. /\ posting' = posting \cup {n} /\ Post("UseModes", n)
      /\ UNCHANGED <<setupVars, worker>>
  BY DEF PostModes
<1>5. BotInv'
  BY PostModesKeeps
<1> HIDE DEF n
<1>6. {ioc'[i] : i \in DOMAIN ioc'} = {ioc[i] : i \in DOMAIN ioc} \cup {modes}
  BY <1>2, <1>4, PostQueues
<1>7. Waiting' = Waiting \cup {modes, command}
  BY <1>4, <1>6 DEF Waiting, CommandHandler
<1>8. \A h \in Waiting : h.msg \in Given /\ h.msg # n /\ Objects(h)' = Objects(h)
  <2> SUFFICES ASSUME NEW h \in Waiting
               PROVE  h.msg \in Given /\ h.msg # n /\ Objects(h)' = Objects(h)
    OBVIOUS
  <2>1. h.msg \in Given
    BY WaitingHandler
  <2> QED BY <1>3, <1>4, <2>1 DEF Objects, setupVars
<1>9. modes.msg = n /\ command.msg = n
  BY DEF CommandHandler
<1>10. PostedOnce'
  <2>1. \A i \in DOMAIN ioc : ioc[i].msg # n
    BY <1>3 DEF BotInv, Grounded
  <2>2. \A i \in DOMAIN ioc : ioc[i] # modes /\ ioc[i] # CommandHandler(n)
    BY <1>9, <2>1
  <2>3. \A k \in posting' : CommandHandler(k) # modes
    BY DEF CommandHandler
  <2>4. \A k \in posting' : k \in posting \/ k = n
    BY <1>4
  <2> QED BY <1>2, <1>4, <2>2, <2>3, <2>4, NewHandlerKeepsPostedOnce
<1>11. HeldByOne'
  <2>1. ASSUME NEW w \in Workers, NEW h \in Waiting', worker'[w].msg = h.msg
        PROVE  worker'[w].todo \cap Objects(h)' = {}
    <3>1. CASE h \in Waiting
      BY <1>4, <1>8, <2>1, <3>1 DEF RequestInv, HeldByOne
    <3>2. CASE h \in {modes, command}
      BY <1>3, <1>4, <1>9, <2>1, <3>2, HeldIsGiven
    <3> QED BY <1>7, <3>1, <3>2
  <2> QED BY <1>4, <2>1 DEF RequestInv, HeldByOne
<1>12. JobsInOrder'
  BY <1>4 DEF RequestInv, JobsInOrder
<1> DEFINE C == Objects(command)'
<1>13. C \in {{}} \cup {{c} : c \in Commands \cap added}
  <2>1. messages'[n] = chat
    BY <1>1, <1>2, AppendProperties DEF n
  <2>2. C \subseteq {chat.command} \cap added
    BY <1>4, <2>1 DEF Objects, CommandHandler, setupVars
  <2>3. chat.command \in Commands \cup {NoCommand} /\ NoCommand \notin added
    BY <1>2, ChatBotAssumption DEF ChatMessage, BotInv, BotTypeOK
  <2> HIDE DEF C
  <2> QED BY <2>2, <2>3
<1>14. Objects(modes)' = Modes \cap added
  BY <1>4 DEF Objects, setupVars
<1>15. Requests' = Requests \cup {n} \X ((Modes \cap added) \cup C)
  <2>1. \A w \in Workers : Held(w)' = Held(w)
    BY <1>4 DEF Held
  <2>2. Objects(command)' = C
    OBVIOUS
  <2>3. ASSUME NEW r
        PROVE  /\ r \in Requests <=> \/ \E h \in Waiting : r \in {h.msg} \X Objects(h)
                                     \/ \E w \in Workers : r \in Held(w)
               /\ r \in Requests' <=> \/ \E h \in Waiting' : r \in {h.msg} \X Objects(h)'
                                      \/ \E w \in Workers : r \in Held(w)'
    BY DEF Requests
  <2> HIDE DEF C, modes, command
  <2>4. ASSUME NEW r
        PROVE  (\E h \in Waiting' : r \in {h.msg} \X Objects(h)')
                 <=> \/ \E h \in Waiting : r \in {h.msg} \X Objects(h)
                     \/ r \in {n} \X (Modes \cap added)
                     \/ r \in {n} \X C
    <3> DEFINE old(h) == {h.msg} \X Objects(h)
               new(h) == {h.msg} \X Objects(h)'
    <3>1. \A h \in Waiting : new(h) = old(h)
      BY <1>8
    <3>2. new(modes) = {n} \X (Modes \cap added)
      BY <1>9, <1>14
    <3>3. new(command) = {n} \X C
      BY <1>9, <2>2
    <3> HIDE DEF old, new
    <3>4. (\E h \in Waiting' : r \in new(h))
            <=> \/ \E h \in Waiting : r \in old(h)
                \/ r \in {n} \X (Modes \cap added) \/ r \in {n} \X C
      BY <1>7, <3>1, <3>2, <3>3
    <3> QED BY <3>4 DEF old, new
  <2>5. ASSUME NEW r
        PROVE  r \in Requests' <=> r \in Requests \cup {n} \X ((Modes \cap added) \cup C)
    BY <2>1, <2>3, <2>4
  <2> QED BY <2>5
<1> QED BY <1>10, <1>11, <1>12, <1>13, <1>15 DEF RequestInv, n

-------------------------------------------------------------------------------
\* A worker takes the first handler, and what it asked for with it.
LEMMA HandlerTaken ==
  ASSUME BotInv, RequestInv, ioc # <<>>, ioc' = Tail(ioc), UNCHANGED posting
  PROVE  /\ Head(ioc) \in Waiting
         /\ Waiting' = Waiting \ {Head(ioc)}
         /\ PostedOnce'
<1>1. ioc \in Seq(Handler)
  BY DEF BotInv, BotTypeOK
<1>2. /\ Len(ioc) \in Nat /\ DOMAIN ioc = 1 .. Len(ioc) /\ 1 \in DOMAIN ioc
      /\ Head(ioc) = ioc[1]
      /\ DOMAIN ioc' = 1 .. Len(ioc) - 1
      /\ \A i \in DOMAIN ioc' : i + 1 \in DOMAIN ioc /\ ioc'[i] = ioc[i + 1]
  BY <1>1, HeadTailProperties
<1>3. \A i \in DOMAIN ioc : i # 1 => i - 1 \in DOMAIN ioc' /\ ioc'[i - 1] = ioc[i]
  BY <1>2
<1>4. {ioc'[i] : i \in DOMAIN ioc'} = {ioc[i] : i \in DOMAIN ioc} \ {ioc[1]}
  <2>1. \A i \in DOMAIN ioc' : ioc[i + 1] # ioc[1]
    BY <1>2 DEF RequestInv, PostedOnce
  <2>2. \A i \in DOMAIN ioc : ioc[i] # ioc[1] => \E j \in DOMAIN ioc' : ioc'[j] = ioc[i]
    BY <1>3
  <2> QED BY <1>2, <2>1, <2>2
<1>5. \A m \in posting : CommandHandler(m) # ioc[1]
  BY <1>2 DEF RequestInv, PostedOnce
<1>6. Head(ioc) \in Waiting /\ Waiting' = Waiting \ {Head(ioc)}
  BY <1>2, <1>4, <1>5 DEF Waiting, CommandHandler
<1>7. \A i, j \in DOMAIN ioc' : ioc'[i] = ioc'[j] => i = j
  <2> SUFFICES ASSUME NEW i \in DOMAIN ioc', NEW j \in DOMAIN ioc', ioc'[i] = ioc'[j]
               PROVE  i = j
    OBVIOUS
  <2>1. i + 1 = j + 1
    BY <1>2 DEF RequestInv, PostedOnce
  <2> QED BY <1>2, <2>1
<1>8. \A m \in posting, i \in DOMAIN ioc' : ioc'[i] # CommandHandler(m)
  BY <1>2 DEF RequestInv, PostedOnce
<1> QED BY <1>6, <1>7, <1>8 DEF PostedOnce, CommandHandler

LEMMA StartRequests ==
  ASSUME BotInv, RequestInv, NEW w \in Workers, Start(w)
  PROVE  RequestInv' /\ Requests' = Requests
<1> DEFINE h == Head(ioc)
<1>1. /\ worker[w].step = "idle" /\ ioc # <<>> /\ ioc' = Tail(ioc)
      /\ worker' = [worker EXCEPT ![w] = Serving(h.msg, Objects(h))]
      /\ UNCHANGED <<setupVars, messages, posting>>
  BY DEF Start
<1>2. h \in Waiting /\ Waiting' = Waiting \ {h} /\ PostedOnce'
  BY <1>1, HandlerTaken
<1>3. \A g : Objects(g)' = Objects(g)
  BY <1>1 DEF Objects, setupVars
<1>4. /\ worker'[w].msg = h.msg /\ worker'[w].todo = Objects(h) /\ worker'[w].step = "next"
      /\ \A v \in Workers \ {w} : worker'[v] = worker[v]
  BY <1>1 DEF Serving, BotInv, BotTypeOK
<1>5. worker[w].todo = {}
  BY <1>1 DEF RequestInv, JobsInOrder
<1> HIDE DEF h
<1>6. ASSUME NEW g \in Waiting', g.msg = h.msg
      PROVE  Objects(h) \cap Objects(g) = {}
  BY <1>2, <1>6, TwoHandlers
<1>7. ASSUME NEW v \in Workers, NEW g \in Waiting', worker'[v].msg = g.msg
      PROVE  worker'[v].todo \cap Objects(g) = {}
  <2>1. CASE v = w
    BY <1>4, <1>6, <1>7, <2>1
  <2>2. CASE v # w
    BY <1>2, <1>4, <1>7, <2>2 DEF RequestInv, HeldByOne
  <2> QED BY <2>1, <2>2
<1>8. ASSUME NEW u \in Workers, NEW v \in Workers, u # v, worker'[u].msg = worker'[v].msg
      PROVE  worker'[u].todo \cap worker'[v].todo = {}
  <2>1. ASSUME NEW x \in Workers, x # w, worker[x].msg = h.msg
        PROVE  worker[x].todo \cap Objects(h) = {}
    BY <1>2, <2>1 DEF RequestInv, HeldByOne
  <2>2. CASE u # w /\ v # w
    BY <1>4, <1>8, <2>2 DEF RequestInv, HeldByOne
  <2>3. CASE u = w
    BY <1>4, <1>8, <2>1, <2>3
  <2>4. CASE v = w
    BY <1>4, <1>8, <2>1, <2>4
  <2> QED BY <2>2, <2>3, <2>4
<1>9. HeldByOne'
  BY <1>3, <1>7, <1>8 DEF HeldByOne
<1>10. JobsInOrder'
  <2>1. ModesOrCommand(worker'[w].todo)
    BY <1>2, <1>4, WaitingHandler
  <2> QED BY <1>4, <2>1 DEF RequestInv, JobsInOrder, ModesOrCommand
<1>11. Requests' = Requests
  <2> DEFINE asked(g) == {g.msg} \X Objects(g)
  <2>1. ASSUME NEW r
        PROVE  /\ r \in Requests <=> \/ \E g \in Waiting : r \in asked(g)
                                     \/ \E v \in Workers : r \in Held(v)
               /\ r \in Requests' <=> \/ \E g \in Waiting' : r \in asked(g)'
                                      \/ \E v \in Workers : r \in Held(v)'
    BY DEF Requests
  <2>2. \A g : asked(g)' = asked(g)
    BY <1>3
  <2>3. Held(w) = {} /\ Held(w)' = asked(h)
    BY <1>4, <1>5 DEF Held
  <2>4. \A v \in Workers \ {w} : Held(v)' = Held(v)
    BY <1>4 DEF Held
  <2> DEFINE held(v) == Held(v)'
  <2>5. ASSUME NEW r
        PROVE  r \in Requests' <=> \/ \E g \in Waiting' : r \in asked(g)
                                   \/ \E v \in Workers : r \in held(v)
    BY <2>1, <2>2
  <2>6. held(w) = asked(h) /\ \A v \in Workers \ {w} : held(v) = Held(v)
    BY <2>3, <2>4
  <2> HIDE DEF asked, held
  <2>7. ASSUME NEW r
        PROVE  r \in Requests' <=> r \in Requests
    BY <1>2, <2>1, <2>3, <2>5, <2>6
  <2> QED BY <2>7
<1> QED BY <1>2, <1>9, <1>10, <1>11 DEF RequestInv

(***************************************************************************)
(* The other steps of a worker leave what it holds, or answer a request.   *)
(***************************************************************************)
LEMMA WorkRequests ==
  ASSUME RequestInv, NEW w \in Workers, WorksOn(w), NEW gone \in SUBSET Held(w),
         Held(w)' = Held(w) \ gone
  PROVE  Requests' = Requests \ gone
<1>1. Requests = Elsewhere(w) \cup Held(w)
  BY HeldOrElsewhere
<1>2. Requests' = Elsewhere(w)' \cup Held(w)'
  BY DEF Requests, Elsewhere
<1>3. Elsewhere(w)' = Elsewhere(w) /\ Elsewhere(w) \cap Held(w) = {}
  BY ElsewhereUnchanged, HeldNotElsewhere
<1> QED BY <1>1, <1>2, <1>3

LEMMA KeptRequests ==
  ASSUME RequestInv, NEW w \in Workers, WorksOn(w),
         worker'[w].msg = worker[w].msg, worker'[w].todo = worker[w].todo
  PROVE  Requests' = Requests
<1>1. Held(w)' = Held(w) \ {} /\ {} \in SUBSET Held(w)
  BY DEF Held
<1>2. Requests' = Requests \ {}
  BY <1>1, WorkRequests
<1> QED BY <1>2

LEMMA AddContentRequests ==
  ASSUME BotInv, RequestInv, NEW w \in Workers, AddContent(w)
  PROVE  RequestInv' /\ Requests' = Requests
<1>1. PICK x \in worker[w].todo :
        worker' = [worker EXCEPT ![w].step = "adding", ![w].at = x]
  BY DEF AddContent
<1>2. /\ worker'[w].msg = worker[w].msg /\ worker'[w].todo = worker[w].todo
      /\ worker'[w].at = x /\ worker'[w].step = "adding"
      /\ \A v \in Workers \ {w} : worker'[v] = worker[v]
  BY <1>1 DEF BotInv, BotTypeOK, Job
<1>3. WorksOn(w)
  BY <1>2 DEF WorksOn, AddContent
<1> QED BY <1>2, <1>3, KeptRequests, WorkerKeepsInv

LEMMA MovesRequests ==
  ASSUME BotInv, RequestInv, NEW w \in Workers, WorksOn(w),
         worker[w].step \in {"adding", "execute"},
         NEW step \in {"execute", "run"}, Moves(w, step)
  PROVE  RequestInv' /\ Requests' = Requests
<1>1. /\ worker'[w].msg = worker[w].msg /\ worker'[w].todo = worker[w].todo
      /\ worker'[w].at = worker[w].at /\ worker'[w].step = step
  BY MovesKeeps
<1>2. worker[w].at \in worker[w].todo
  BY DEF RequestInv, JobsInOrder
<1> QED BY <1>1, <1>2, KeptRequests, WorkerKeepsInv

LEMMA FinishRequests ==
  ASSUME BotInv, RequestInv, NEW w \in Workers, Finish(w)
  PROVE  RequestInv' /\ Requests' = Requests
<1>1. /\ worker'[w].todo = {} /\ worker[w].todo = {} /\ worker'[w].step = "idle"
      /\ \A v \in Workers \ {w} : worker'[v] = worker[v]
  BY IdlesKeeps DEF Finish
<1>2. WorksOn(w)
  BY <1>1 DEF WorksOn, Finish
<1>3. Held(w)' = Held(w) \ {} /\ {} \in SUBSET Held(w)
  BY <1>1 DEF Held
<1>4. Requests' = Requests \ {}
  BY <1>2, <1>3, WorkRequests
<1> QED BY <1>1, <1>2, <1>4, WorkerKeepsInv

\* What a worker serves.
Request(w) == <<worker[w].msg, worker[w].at>>

LEMMA RequestHeld ==
  ASSUME RequestInv, NEW w \in Workers, worker[w].step \in {"execute", "run"}
  PROVE  Request(w) \in Held(w) /\ Request(w) \in Requests
<1>1. Request(w) \in Held(w)
  BY DEF RequestInv, JobsInOrder, Request, Held
<1> QED BY <1>1, HeldOrElsewhere

LEMMA ServedRequests ==
  ASSUME BotInv, RequestInv, NEW w \in Workers, WorksOn(w),
         worker[w].step \in {"execute", "run"}, Served(w)
  PROVE  RequestInv' /\ Requests' = Requests \ {Request(w)}
<1>1. /\ worker'[w].msg = worker[w].msg /\ worker'[w].todo = worker[w].todo \ {worker[w].at}
      /\ worker'[w].step = "next"
  BY DEF Served, Serving, BotInv, BotTypeOK
<1>2. Held(w)' = Held(w) \ {Request(w)}
  BY <1>1 DEF Held, Request
<1>3. Requests' = Requests \ {Request(w)}
  <2> DEFINE gone == {Request(w)}
  <2>1. gone \in SUBSET Held(w)
    BY RequestHeld
  <2> HIDE DEF gone
  <2>2. Held(w)' = Held(w) \ gone
    BY <1>2 DEF gone
  <2>3. Requests' = Requests \ gone
    BY <2>1, <2>2, WorkRequests
  <2> QED BY <2>3 DEF gone
<1> QED BY <1>1, <1>3, WorkerKeepsInv

\* An executor that throws: of a command nothing but it was held.
LEMMA ThrownRequests ==
  ASSUME BotInv, RequestInv, NEW w \in Workers, WorksOn(w),
         worker[w].step = "run", worker' = [worker EXCEPT ![w] = Idle]
  PROVE  /\ RequestInv'
         /\ \E lost \in SUBSET Service!TakenAlong(Request(w)) :
              Requests' = Requests \ ({Request(w)} \cup lost)
<1> DEFINE r == Request(w)
           lost == Held(w) \ {r}
<1>1. worker'[w].todo = {} /\ worker'[w].step = "idle"
  BY IdlesKeeps
<1>2. r \in Held(w) /\ r = <<worker[w].msg, worker[w].at>>
  BY RequestHeld DEF Request
<1>3. Held(w)' = Held(w) \ Held(w)
  BY <1>1 DEF Held
<1>4. Requests' = Requests \ Held(w)
  BY <1>3, WorkRequests
<1>5. Held(w) = {r} \cup lost
  BY <1>2
<1>6. lost \subseteq Service!TakenAlong(r)
  <2>1. r[1] = worker[w].msg /\ r[2] = worker[w].at /\ worker[w].at \in worker[w].todo
    BY <1>2 DEF RequestInv, JobsInOrder
  <2>2. Held(w) \subseteq Requests
    BY HeldOrElsewhere
  <2>3. CASE worker[w].todo \subseteq Modes
    <3>1. Held(w) \subseteq {r[1]} \X Modes
      BY <2>1, <2>3 DEF Held
    <3> QED BY <2>1, <2>2, <2>3, <3>1 DEF Service!TakenAlong
  <2>4. CASE \E c \in Commands : worker[w].todo \subseteq {c}
    <3>1. lost = {}
      BY <1>2, <2>1, <2>4 DEF Held
    <3> QED BY <3>1
  <2> QED BY <2>3, <2>4 DEF RequestInv, JobsInOrder, ModesOrCommand
<1> HIDE DEF r, lost
<1>7. RequestInv'
  BY <1>1, WorkerKeepsInv
<1> QED BY <1>4, <1>5, <1>6, <1>7 DEF r

-------------------------------------------------------------------------------
LEMMA StepKeepsRequests == ASSUME BotInv, RequestInv, [Next]_botVars PROVE RequestInv'
<1>1. CASE UNCHANGED botVars
  BY <1>1 DEF botVars, setupVars, postVars, RequestInv, PostedOnce, HeldByOne, JobsInOrder,
     Waiting, CommandHandler, Objects
<1>2. CASE \E m \in MessageNumber : PostCommand(m)
  BY <1>2, PostCommandRequests
<1>3. ASSUME NEW w \in Workers, Work(w)
      PROVE  RequestInv'
  <2>1. CASE Start(w) \/ AddContent(w) \/ Finish(w)
    BY <2>1, StartRequests, AddContentRequests, FinishRequests
  <2>2. CASE ContentAdded(w)
    <3>1. Moves(w, "execute") /\ worker[w].step = "adding"
      BY <2>2 DEF ContentAdded
    <3>2. WorksOn(w)
      BY <2>2, <3>1, MovesKeeps DEF ContentAdded, WorksOn
    <3> QED BY <3>1, <3>2, MovesRequests
  <2>3. CASE VerifyUser(w)
    <3>1. /\ worker[w].step = "execute"
          /\ Served(w) \/ Moves(w, "run")
      BY <2>3 DEF VerifyUser
    <3>2. WorksOn(w)
      BY <2>3, <3>1, MovesKeeps, ServedKeeps DEF VerifyUser, WorksOn
    <3> QED BY <3>1, <3>2, MovesRequests, ServedRequests
  <2>4. CASE Run(w)
    <3>1. /\ worker[w].step = "run"
          /\ Served(w) \/ worker' = [worker EXCEPT ![w] = Idle] \/ UNCHANGED worker
      BY <2>4 DEF Run
    <3>2. WorksOn(w)
      BY <2>4, RunKeeps DEF Run, WorksOn
    <3>3. CASE UNCHANGED worker
      BY <3>1, <3>2, <3>3, WorkerKeepsInv DEF RequestInv, JobsInOrder
    <3> QED BY <3>1, <3>2, <3>3, ServedRequests, ThrownRequests
  <2> QED BY <1>3, <2>1, <2>2, <2>3, <2>4 DEF Work
<1> QED BY <1>1, <1>2, <1>3, ApplicationRequests, PostModesRequests DEF Next

LEMMA RequestInvHolds == Spec => []RequestInv
<1> QED BY InitRequests, BotInvHolds, StepKeepsRequests, PTL DEF Spec

LEMMA VerifiedHolds == Spec => [](Verified /\ Authorised)
<1>1. Init => Verified /\ Authorised
  BY DEF Init, Verified, Authorised, Idle
<1> QED BY <1>1, BotInvHolds, StepVerifies, PTL DEF Spec

-------------------------------------------------------------------------------
(***************************************************************************)
(* Every step of the bot is one of the service, or none.                   *)
(***************************************************************************)
LEMMA OfferStep ==
  ASSUME BotInv, RequestInv, Application
  PROVE  [Service!Next]_(Service!serviceVars)
<1>1. Requests' = Requests /\ Granted' = Granted
  BY ApplicationRequests
<1>2. Len(messages) = 0 /\ messages' = messages /\ Called' = Called
  BY ApplicationChanges, NothingAsked DEF postVars, Called
<1>3. CASE added' = added
  BY <1>1, <1>2, <1>3 DEF Service!serviceVars
<1>4. CASE \E x \in Executable : added' = added \cup {x}
  BY <1>1, <1>2, <1>4 DEF Service!Offer, Service!Next, Executable
<1> QED BY <1>3, <1>4, ApplicationChanges

LEMMA AskStep ==
  ASSUME BotInv, RequestInv, PostModes
  PROVE  [Service!Next]_(Service!serviceVars)
<1> DEFINE n == Len(messages) + 1
           some == {x \in Executable : Allowed(x, n)'}
<1>1. PICK chat \in Chats : messages' = Append(messages, chat)
  BY DEF PostModes
<1>2. chat \in ChatMessage /\ messages \in Seq(ChatMessage) /\ Len(messages) \in Nat
  BY ChatBotAssumption DEF BotInv, BotTypeOK
<1>3. /\ Len(messages') = n /\ DOMAIN messages' = (DOMAIN messages) \cup {n}
      /\ n \notin DOMAIN messages
      /\ \A k \in DOMAIN messages : messages'[k] = messages[k]
  BY <1>1, <1>2, AppendProperties
<1>4. UNCHANGED <<added, verificator, executed>>
  BY DEF PostModes, setupVars
<1> HIDE DEF n
<1>5. \A k \in DOMAIN messages : \A x : Allowed(x, k)' <=> Allowed(x, k)
  BY <1>3, <1>4 DEF Allowed
<1>6. Granted' = Granted \cup {n} \X some
  <2> DEFINE now(x, k) == Allowed(x, k)
             later(x, k) == Allowed(x, k)'
  <2>1. /\ Granted = {r \in (DOMAIN messages) \X Executable : now(r[2], r[1])}
        /\ Granted' = {r \in (DOMAIN messages') \X Executable : later(r[2], r[1])}
    BY DEF Granted
  <2>2. \A k \in DOMAIN messages : \A x : later(x, k) <=> now(x, k)
    BY <1>5
  <2>3. some = {x \in Executable : later(x, n)}
    OBVIOUS
  <2> HIDE DEF now, later, some
  <2>4. ASSUME NEW k, NEW x
        PROVE  <<k, x>> \in Granted' <=> <<k, x>> \in Granted \cup {n} \X some
    BY <1>3, <2>1, <2>2, <2>3
  <2>5. \A r \in Granted' \cup Granted \cup {n} \X some : r = <<r[1], r[2]>>
    BY <2>1
  <2> QED BY <2>4, <2>5
<1> HIDE DEF some
<1>7. some \in SUBSET (Commands \cup Modes)
  BY DEF some, Executable
<1>8. PICK command \in {{}} \cup {{c} : c \in Commands \cap added} :
        Requests' = Requests \cup {n} \X ((Modes \cap added) \cup command)
  BY PostModesRequests DEF n
<1>9. Called' = Called
  BY <1>4 DEF Called
<1>10. Service!Ask
  BY <1>3, <1>4, <1>6, <1>7, <1>8, <1>9 DEF Service!Ask, n
<1> QED BY <1>10 DEF Service!Next

LEMMA QuietStep ==
  ASSUME Requests' = Requests, UNCHANGED <<settingVars, messages, executed>>
  PROVE  UNCHANGED Service!serviceVars
<1>1. Granted' = Granted /\ Called' = Called /\ added' = added
  BY DEF Granted, Allowed, Called
<1> QED BY <1>1 DEF Service!serviceVars

LEMMA RequestGranted ==
  ASSUME BotInv, NEW w \in Workers, worker[w].step \in {"execute", "run"}
  PROVE  Request(w) \in Granted <=> Allowed(worker[w].at, worker[w].msg)
<1>1. worker[w].msg \in DOMAIN messages /\ worker[w].at \in Executable
  BY DEF BotInv, BotTypeOK, Grounded, Given
<1> QED BY <1>1 DEF Granted, Request

LEMMA RefuseStep ==
  ASSUME BotInv, RequestInv, NEW w \in Workers, VerifyUser(w)
  PROVE  [Service!Next]_(Service!serviceVars)
<1>1. /\ worker[w].step = "execute" /\ UNCHANGED <<setupVars, postVars, executed>>
      /\ \/ Moves(w, "run")
         \/ Served(w) /\ ~Allowed(worker[w].at, worker[w].msg)
  BY DEF VerifyUser, Allowed
<1>2. WorksOn(w)
  BY <1>1, MovesKeeps, ServedKeeps DEF WorksOn
<1>3. CASE Moves(w, "run")
  BY <1>1, <1>2, <1>3, MovesRequests, QuietStep DEF postVars
<1>4. CASE Served(w) /\ ~Allowed(worker[w].at, worker[w].msg)
  <2>1. Requests' = Requests \ {Request(w)}
    BY <1>1, <1>2, <1>4, ServedRequests
  <2>2. Request(w) \in Requests /\ Request(w) \notin Granted
    BY <1>1, <1>4, RequestHeld, RequestGranted
  <2>3. Granted' = Granted /\ Called' = Called /\ UNCHANGED <<added, messages>>
    BY <1>1 DEF setupVars, postVars, Granted, Allowed, Called
  <2>4. Service!Refuse
    BY <2>1, <2>2, <2>3 DEF Service!Refuse
  <2> QED BY <2>4 DEF Service!Next
<1> QED BY <1>1, <1>3, <1>4

LEMMA CallStep ==
  ASSUME BotInv, RequestInv, Verified, NEW w \in Workers, Run(w)
  PROVE  [Service!Next]_(Service!serviceVars)
<1>1. worker[w].step = "run" /\ UNCHANGED <<settingVars, postVars>>
  BY DEF Run
<1>2. WorksOn(w)
  BY <1>1, RunKeeps DEF WorksOn
<1> SUFFICES ASSUME executed' = executed \cup {CallOf(w)},
                    Served(w) \/ worker' = [worker EXCEPT ![w] = Idle]
             PROVE  [Service!Next]_(Service!serviceVars)
  <2>1. CASE UNCHANGED <<worker, executed>>
    <3>1. Requests' = Requests
      BY <1>2, <2>1, KeptRequests
    <3> QED BY <1>1, <2>1, <3>1, QuietStep DEF postVars
  <2> QED BY <2>1 DEF Run, CallExecutor, CallOf
<1>3. Request(w) \in Requests /\ Request(w) \in Granted
  BY <1>1, RequestHeld, RequestGranted DEF Verified
<1>4. \E lost \in SUBSET Service!TakenAlong(Request(w)) :
        Requests' = Requests \ ({Request(w)} \cup lost)
  <2>1. CASE Served(w)
    <3>1. Requests' = Requests \ ({Request(w)} \cup {})
      BY <1>1, <1>2, <2>1, ServedRequests
    <3> QED BY <3>1
  <2> QED BY <1>1, <1>2, <2>1, ThrownRequests
<1>5. Called' = Called \cup {Request(w)}
  <2>1. <<CallOf(w).by, CallOf(w).on>> = Request(w)
    BY DEF CallOf, Request
  <2> DEFINE call == CallOf(w)
  <2> HIDE DEF call
  <2>2. Called' = Called \cup {<<call.by, call.on>>}
    BY DEF Called, call
  <2> QED BY <2>1, <2>2 DEF call
<1>6. Granted' = Granted /\ UNCHANGED <<added, messages>>
  BY <1>1 DEF postVars, Granted, Allowed
<1>7. Service!Call
  <2> DEFINE r == Request(w)
  <2>1. /\ r \in Requests /\ r \in Granted /\ Called' = Called \cup {r}
        /\ \E lost \in SUBSET Service!TakenAlong(r) : Requests' = Requests \ ({r} \cup lost)
        /\ UNCHANGED <<added, Len(messages), Granted>>
    BY <1>3, <1>4, <1>5, <1>6
  <2> HIDE DEF r
  <2> QED BY <2>1 DEF Service!Call
<1> QED BY <1>7 DEF Service!Next

LEMMA StepServes ==
  ASSUME BotInv, RequestInv, Verified, [Next]_botVars
  PROVE  [Service!Next]_(Service!serviceVars)
<1>1. CASE UNCHANGED botVars
  <2>1. Requests' = Requests
    BY <1>1 DEF botVars, setupVars, postVars, Requests, Waiting, Held, Objects
  <2> QED BY <1>1, <2>1, QuietStep DEF botVars, postVars
<1>2. ASSUME NEW m \in MessageNumber, PostCommand(m)
      PROVE  [Service!Next]_(Service!serviceVars)
  BY <1>2, PostCommandRequests, QuietStep DEF PostCommand
<1>3. ASSUME NEW w \in Workers, Start(w) \/ AddContent(w) \/ Finish(w)
      PROVE  [Service!Next]_(Service!serviceVars)
  <2>1. Requests' = Requests
    BY <1>3, StartRequests, AddContentRequests, FinishRequests
  <2>2. UNCHANGED <<setupVars, messages, executed>>
    BY <1>3 DEF Start, AddContent, Finish, postVars
  <2> QED BY <2>1, <2>2, QuietStep
<1>4. ASSUME NEW w \in Workers, ContentAdded(w)
      PROVE  [Service!Next]_(Service!serviceVars)
  <2>1. /\ Moves(w, "execute") /\ worker[w].step = "adding"
        /\ UNCHANGED <<setupVars, postVars, executed>>
    BY <1>4 DEF ContentAdded
  <2>2. WorksOn(w)
    BY <2>1, MovesKeeps DEF WorksOn
  <2> QED BY <2>1, <2>2, MovesRequests, QuietStep DEF postVars
<1> QED BY <1>1, <1>2, <1>3, <1>4, OfferStep, AskStep, RefuseStep, CallStep
        DEF Next, Work

(***************************************************************************)
(* The bot implements CommandService, for every number of threads: what a  *)
(* message asks for is executed once or refused, only a user Verify        *)
(* accepts is served, and neither a mode that throws nor a thread that is  *)
(* faster takes a command away.                                            *)
(***************************************************************************)
THEOREM ServiceImplemented == Spec => ImplementsService
<1>1. Init => Service!Init
  <2> SUFFICES ASSUME Init PROVE Service!Init
    OBVIOUS
  <2>1. /\ added = {} /\ messages = <<>> /\ executed = {} /\ posting = {} /\ ioc = <<>>
        /\ \A w \in Workers : worker[w].todo = {}
    BY DEF Init, Idle
  <2>2. Waiting = {} /\ \A w \in Workers : Held(w) = {}
    BY <2>1 DEF Waiting, Held
  <2>3. Requests = {} /\ Granted = {} /\ Called = {} /\ Len(messages) = 0
    BY <2>1, <2>2 DEF Requests, Granted, Called
  <2> QED BY <2>1, <2>3 DEF Service!Init
<1> QED BY <1>1, StepServes, BotInvHolds, RequestInvHolds, VerifiedHolds, PTL
        DEF Spec, Service!Spec, ImplementsService

-------------------------------------------------------------------------------
\* What was called is not asked for any more.
Answered == Requests \cap Called = {}

LEMMA StepAnswers ==
  ASSUME BotInv, Answered, [Service!Next]_(Service!serviceVars)
  PROVE  Answered'
<1>1. CASE Requests' = Requests /\ Called' = Called
  BY <1>1 DEF Answered
<1>2. CASE Service!Ask
  <2>1. PICK some : Requests' = Requests \cup {Len(messages) + 1} \X some
    BY <1>2 DEF Service!Ask
  <2>2. \A r \in Called : r[1] # Len(messages) + 1
    <3>1. \A call \in executed : call.by \in Given
      BY DEF BotInv, Grounded
    <3>2. Len(messages) + 1 \notin Given
      BY DEF Given, BotInv, BotTypeOK
    <3> QED BY <3>1, <3>2 DEF Called
  <2>3. Called' = Called
    BY <1>2 DEF Service!Ask
  <2> QED BY <2>1, <2>2, <2>3 DEF Answered
<1>3. CASE Service!Call
  <2>1. PICK r \in Requests :
          /\ Called' = Called \cup {r}
          /\ \E lost : Requests' = Requests \ ({r} \cup lost)
    BY <1>3 DEF Service!Call
  <2> QED BY <2>1 DEF Answered
<1>4. CASE Service!Refuse
  BY <1>4 DEF Service!Refuse, Answered
<1> QED BY <1>1, <1>2, <1>3, <1>4 DEF Service!Next, Service!Offer, Service!serviceVars

\* What a worker is about to call is still asked for.
LEMMA AskedIsNotCalled == RequestInv /\ Answered => CalledOnce
<1> SUFFICES ASSUME RequestInv, Answered, NEW w \in Workers, worker[w].step = "run"
             PROVE  <<worker[w].msg, worker[w].at>> \notin Called
  BY DEF CalledOnce
<1> QED BY RequestHeld DEF Answered, Request

(***************************************************************************)
(* A request that was called is neither waiting nor held any more, so no   *)
(* worker calls the executor for it again, with whatever text, for any     *)
(* number of threads.                                                      *)
(***************************************************************************)
THEOREM CalledOnceHolds == Spec => []CalledOnce
<1>1. Init => Answered
  BY DEF Init, Answered, Called
<1>2. BotInv /\ RequestInv /\ Verified /\ Answered /\ [Next]_botVars => Answered'
  BY StepServes, StepAnswers
<1> QED BY <1>1, <1>2, AskedIsNotCalled, BotInvHolds, RequestInvHolds, VerifiedHolds, PTL
        DEF Spec
===============================================================================
