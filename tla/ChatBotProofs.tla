---------------------------- MODULE ChatBotProofs ----------------------------
(***************************************************************************)
(* Theorems about ChatBot for every set of commands, modes, users and      *)
(* settings, any number of messages and any number of worker threads.      *)
(***************************************************************************)
EXTENDS ChatBot, SequenceTheorems, TLAPS

USE DEF settingVars

(***************************************************************************)
(* What makes the types inductive: handlers, jobs and calls are about      *)
(* messages the bot was given, of which there are none before the threads  *)
(* run, and a job past the search for an object serves one.                *)
(***************************************************************************)
Given == 1 .. Len(messages)

Grounded ==
  /\ process = "setup" => Given = {}
  /\ \A i \in DOMAIN ioc : ioc[i].msg \in Given
  /\ \A w \in Workers :
       /\ worker[w].step # "idle" => worker[w].msg \in Given
       /\ worker[w].step \in {"adding", "execute", "run"} => worker[w].at \in Executable
  /\ \A call \in executed : call.by \in Given

BotInv == BotTypeOK /\ Grounded

-------------------------------------------------------------------------------
\* Queueing a handler about a message the bot was given.
LEMMA PostKeeps ==
  ASSUME BotInv, NEW task \in {"UseModes", "ProcessCommand"}, NEW m \in MessageNumber,
         Post(task, m)
  PROVE  /\ ioc' \in Seq(Handler)
         /\ \A i \in DOMAIN ioc' : ioc'[i].msg = m \/ (i \in DOMAIN ioc /\ ioc'[i] = ioc[i])
<1>1. [task |-> task, msg |-> m] \in Handler
  BY DEF Handler
<1>2. ioc \in Seq(Handler)
  BY DEF BotInv, BotTypeOK
<1> QED BY <1>1, <1>2, AppendProperties DEF Post

LEMMA InitGrounded == Init => BotInv
<1> SUFFICES ASSUME Init PROVE BotInv
  OBVIOUS
<1>1. Idle \in Job /\ Idle.step = "idle" /\ Idle.todo = {}
  BY ChatBotAssumption DEF Idle, Job
<1>2. /\ verificator \in [Executable -> Verificator]
      /\ minimum_user_role \in [Executable -> Role]
      /\ content \in [Executable -> Content]
  BY ChatBotAssumption
  DEF Init, Content, NoContent, NewVerificator, Verificator, Role, MODERATOR
<1>3. /\ messages \in Seq(ChatMessage) /\ Len(messages) = 0
      /\ ioc \in Seq(Handler) /\ DOMAIN ioc = {}
  BY DEF Init
<1>4. /\ worker \in [Workers -> Job] /\ added = {} /\ posting = {} /\ executed = {}
      /\ process = "setup" /\ shared = {}
      /\ \A w \in Workers : worker[w].todo = {} /\ worker[w].step = "idle"
  BY <1>1 DEF Init
<1>5. BotTypeOK
  BY <1>2, <1>3, <1>4, ChatBotAssumption DEF BotTypeOK
<1>6. Grounded
  BY <1>3, <1>4 DEF Grounded, Given
<1> QED BY <1>5, <1>6 DEF BotInv

\* The setters keep the shape of a verificator.
LEMMA SettersKeep ==
  ASSUME NEW v \in Verificator, NEW after \in SettingsAfter(v)
  PROVE  after \in Verificator
<1>1. CASE \E status \in BOOLEAN : after = SetWhiteListOnly(v, status)
  BY <1>1 DEF SetWhiteListOnly, Verificator
<1>2. CASE \E level \in Levels : after = SetRoleLevel(v, level)
  BY <1>2, ChatBotAssumption DEF SetRoleLevel, Verificator
<1>3. ASSUME NEW user \in Users,
             after \in {AddUserInWhiteList(v, user), RemoveUserFromWhiteList(v, user),
                       AddUserInBlackList(v, user), RemoveUserFromBlackList(v, user)}
      PROVE  after \in Verificator
  BY <1>3 DEF AddUserInWhiteList, RemoveUserFromWhiteList, AddUserInBlackList,
     RemoveUserFromBlackList, Verificator
<1> QED BY <1>1, <1>2, <1>3 DEF SettingsAfter

LEMMA AddKeeps ==
  ASSUME BotInv, NEW x \in Executable, NEW v \in Verificator, Add(x, v)
  PROVE  BotInv'
<1>1. MODERATOR \in Role /\ NoContent \in Content
  BY ChatBotAssumption DEF MODERATOR, Role, NoContent, Content
<1>2. BotTypeOK'
  BY <1>1 DEF Add, Setup, postVars, BotInv, BotTypeOK
<1>3. Grounded'
  BY DEF Add, Setup, postVars, BotInv, Grounded, Given
<1> QED BY <1>2, <1>3 DEF BotInv

LEMMA ApplicationKeeps == ASSUME BotInv, Application PROVE BotInv'
<1>1. CASE SetCommandStart
  BY <1>1 DEF SetCommandStart, Setup, postVars, BotInv, BotTypeOK, Grounded, Given
<1>2. ASSUME NEW c \in Commands, AddCommand(c) PROVE BotInv'
  <2>1. NewVerificator \in Verificator /\ c \in Executable
    BY DEF NewVerificator, Verificator, MODERATOR, Executable
  <2> QED BY <1>2, <2>1, AddKeeps DEF AddCommand
<1>3. ASSUME NEW m \in Modes, AddMode(m) PROVE BotInv'
  <2>1. PICK v \in ModeSettings : Add(m, v)
    BY <1>3 DEF AddMode
  <2>2. v \in Verificator /\ m \in Executable
    BY ChatBotAssumption DEF Executable
  <2> QED BY <2>1, <2>2, AddKeeps
<1>4. ASSUME NEW c \in Commands, Configure(c) PROVE BotInv'
  <2>1. PICK v \in SettingsAfter(verificator[c]) :
          verificator' = [verificator EXCEPT ![c] = v]
    BY <1>4 DEF Configure
  <2>2. c \in Executable /\ verificator \in [Executable -> Verificator]
    BY DEF Executable, BotInv, BotTypeOK
  <2>3. v \in Verificator
    BY <2>1, <2>2, SettersKeep
  <2>4. verificator' \in [Executable -> Verificator]
    BY <2>1, <2>2, <2>3
  <2> QED BY <1>4, <2>4
      DEF Configure, Setup, postVars, BotInv, BotTypeOK, Grounded, Given
<1>5. ASSUME NEW c \in Commands, SetMinimumUserRole(c) PROVE BotInv'
  <2>1. minimum_user_role' \in [Executable -> Role]
    BY <1>5, ChatBotAssumption DEF SetMinimumUserRole, BotInv, BotTypeOK
  <2> QED BY <1>5, <2>1
      DEF SetMinimumUserRole, Setup, postVars, BotInv, BotTypeOK, Grounded, Given
<1>6. CASE RunWorkers
  BY <1>6 DEF RunWorkers, postVars, BotInv, BotTypeOK, Grounded, Given
<1> QED BY <1>1, <1>2, <1>3, <1>4, <1>5, <1>6 DEF Application

LEMMA PostModesKeeps == ASSUME BotInv, PostModes PROVE BotInv'
<1> DEFINE n == Len(messages) + 1
<1>1. PICK chat \in Chats : messages' = Append(messages, chat)
  BY DEF PostModes
<1>2. /\ chat \in ChatMessage /\ messages \in Seq(ChatMessage)
      /\ Len(messages) \in Nat /\ n \in MessageNumber
  BY ChatBotAssumption DEF BotInv, BotTypeOK, PostModes, MessageNumber
<1>3. messages' \in Seq(ChatMessage) /\ Len(messages') = n
  BY <1>1, <1>2, AppendProperties
<1>4. Given' = Given \cup {n}
  BY <1>2, <1>3 DEF Given
<1>5. /\ ioc' \in Seq(Handler)
      /\ \A i \in DOMAIN ioc' : ioc'[i].msg = n \/ (i \in DOMAIN ioc /\ ioc'[i] = ioc[i])
  BY <1>2, PostKeeps DEF PostModes
<1>6. posting' \subseteq Given'
  BY <1>4 DEF PostModes, BotInv, BotTypeOK, Given
<1>7. BotTypeOK'
  BY <1>2, <1>3, <1>5, <1>6 DEF PostModes, setupVars, BotInv, BotTypeOK, Given,
     MessageNumber
<1>8. Grounded'
  BY <1>4, <1>5 DEF PostModes, setupVars, BotInv, Grounded
<1> QED BY <1>7, <1>8 DEF BotInv

LEMMA PostCommandKeeps ==
  ASSUME BotInv, NEW m \in MessageNumber, PostCommand(m) PROVE BotInv'
<1>1. /\ ioc' \in Seq(Handler)
      /\ \A i \in DOMAIN ioc' : ioc'[i].msg = m \/ (i \in DOMAIN ioc /\ ioc'[i] = ioc[i])
  BY PostKeeps DEF PostCommand
<1>2. m \in Given /\ Given' = Given
  BY DEF PostCommand, BotInv, BotTypeOK, Given
<1>3. BotTypeOK'
  BY <1>1 DEF PostCommand, setupVars, BotInv, BotTypeOK
<1>4. Grounded'
  BY <1>1, <1>2 DEF PostCommand, setupVars, BotInv, Grounded
<1> QED BY <1>3, <1>4 DEF BotInv

(***************************************************************************)
(* A step of a worker: its job stays one, and what it leaves alone.        *)
(***************************************************************************)
LEMMA ServedKeeps ==
  ASSUME BotInv, NEW w \in Workers, worker[w].step # "idle", Served(w)
  PROVE  /\ worker' \in [Workers -> Job]
         /\ \A v \in Workers \ {w} : worker'[v] = worker[v]
         /\ worker'[w].step = "next" /\ worker'[w].msg = worker[w].msg
         /\ worker'[w].todo \subseteq worker[w].todo
<1>1. worker[w] \in Job /\ worker \in [Workers -> Job]
  BY DEF BotInv, BotTypeOK
<1> DEFINE job == Serving(worker[w].msg, worker[w].todo \ {worker[w].at})
<1>2. /\ job \in Job /\ job.step = "next" /\ job.msg = worker[w].msg
      /\ job.todo \subseteq worker[w].todo
  BY <1>1, ChatBotAssumption DEF Serving, Job
<1>3. worker' = [worker EXCEPT ![w] = job]
  BY DEF Served
<1> HIDE DEF job
<1> QED BY <1>1, <1>2, <1>3

LEMMA MovesKeeps ==
  ASSUME BotInv, NEW w \in Workers,
         NEW step \in {"execute", "run"}, Moves(w, step)
  PROVE  /\ worker' \in [Workers -> Job]
         /\ \A v \in Workers \ {w} : worker'[v] = worker[v]
         /\ worker'[w].step = step /\ worker'[w].msg = worker[w].msg
         /\ worker'[w].at = worker[w].at /\ worker'[w].todo = worker[w].todo
BY DEF Moves, BotInv, BotTypeOK, Job

LEMMA IdlesKeeps ==
  ASSUME BotInv, NEW w \in Workers, worker' = [worker EXCEPT ![w] = Idle]
  PROVE  /\ worker' \in [Workers -> Job]
         /\ \A v \in Workers \ {w} : worker'[v] = worker[v]
         /\ worker'[w].step = "idle" /\ worker'[w].todo = {}
<1>1. Idle \in Job /\ Idle.step = "idle" /\ Idle.todo = {}
  BY ChatBotAssumption DEF Idle, Job
<1> QED BY <1>1 DEF BotInv, BotTypeOK

LEMMA StartKeeps ==
  ASSUME BotInv, NEW w \in Workers, Start(w)
  PROVE  /\ BotInv'
         /\ \A v \in Workers \ {w} : worker'[v] = worker[v]
         /\ worker'[w].step = "next"
<1> DEFINE h == Head(ioc)
<1>1. ioc \in Seq(Handler) /\ ioc # <<>>
  BY DEF BotInv, BotTypeOK, Start
<1>2. /\ h \in Handler /\ h = ioc[1] /\ 1 \in DOMAIN ioc /\ ioc' \in Seq(Handler)
      /\ \A i \in DOMAIN ioc' : i + 1 \in DOMAIN ioc /\ ioc'[i] = ioc[i + 1]
  BY <1>1, HeadTailProperties DEF Start
<1>3. h.msg \in Given
  BY <1>2 DEF BotInv, Grounded
<1>5. Objects(h) \subseteq added /\ added \subseteq Executable
  BY DEF Objects, BotInv, BotTypeOK
<1> DEFINE job == Serving(h.msg, Objects(h))
<1>6. /\ job \in Job /\ job.step = "next" /\ job.msg = h.msg
      /\ job.todo \subseteq added
  BY <1>2, <1>5, ChatBotAssumption DEF Serving, Job, Handler, MessageNumber
<1>7. worker' = [worker EXCEPT ![w] = job] /\ worker \in [Workers -> Job]
  BY DEF Start, BotInv, BotTypeOK
<1> HIDE DEF job
<1>8. /\ worker'[w].step = "next" /\ worker'[w].msg = h.msg
      /\ worker'[w].todo \subseteq added
  BY <1>6, <1>7
<1>9. \A v \in Workers \ {w} : worker'[v] = worker[v]
  BY <1>7
<1>10. BotTypeOK'
  BY <1>2, <1>6, <1>7, <1>8, <1>9 DEF Start, setupVars, BotInv, BotTypeOK
<1>11. Grounded'
  BY <1>2, <1>3, <1>8, <1>9 DEF Start, setupVars, BotInv, Grounded, Given
<1> QED BY <1>8, <1>9, <1>10, <1>11 DEF BotInv

LEMMA AddContentKeeps ==
  ASSUME BotInv, NEW w \in Workers, AddContent(w)
  PROVE  /\ BotInv'
         /\ \A v \in Workers \ {w} : worker'[v] = worker[v]
         /\ worker'[w].step = "adding"
<1>1. PICK x \in worker[w].todo :
        /\ worker' = [worker EXCEPT ![w].step = "adding", ![w].at = x]
        /\ content' = [content EXCEPT ![x] = Torn]
        /\ shared' = (shared \ {w}) \cup ServesAlso(w, x)
                       \cup (IF ServesAlso(w, x) = {} THEN {} ELSE {w})
  BY DEF AddContent
<1>2. x \in Executable
  BY <1>1 DEF BotInv, BotTypeOK, Job
<1>3. Torn \in Content
  BY ChatBotAssumption DEF Torn, Content
<1>4. /\ worker' \in [Workers -> Job] /\ worker'[w].step = "adding"
      /\ worker'[w].at = x /\ worker'[w].msg = worker[w].msg
      /\ worker'[w].todo = worker[w].todo
      /\ \A v \in Workers \ {w} : worker'[v] = worker[v]
  BY <1>1, <1>2 DEF BotInv, BotTypeOK, Job
<1>5. BotTypeOK'
  <2>1. shared' \subseteq Workers
    BY <1>1 DEF ServesAlso, BotInv, BotTypeOK
  <2>2. \A v \in Workers : worker'[v].todo \subseteq added
    BY <1>4 DEF BotInv, BotTypeOK
  <2>3. content' \in [Executable -> Content]
    BY <1>1, <1>3 DEF BotInv, BotTypeOK
  <2> QED BY <1>4, <2>1, <2>2, <2>3
      DEF AddContent, setupVars, postVars, BotInv, BotTypeOK
<1>6. Grounded'
  BY <1>2, <1>4 DEF AddContent, setupVars, postVars, BotInv, Grounded, Given
<1> QED BY <1>4, <1>5, <1>6 DEF BotInv

LEMMA ContentAddedKeeps ==
  ASSUME BotInv, NEW w \in Workers, ContentAdded(w)
  PROVE  BotInv' /\ Moves(w, "execute")
<1>1. PICK text \in {worker[w].msg} \cup {Torn} :
        content' = [content EXCEPT ![worker[w].at] = text]
  BY DEF ContentAdded
<1>2. text \in Content
  BY <1>1, ChatBotAssumption DEF BotInv, BotTypeOK, Job, Torn, Content
<1>3. BotTypeOK'
  <2>1. content' \in [Executable -> Content]
    BY <1>1, <1>2 DEF BotInv, BotTypeOK
  <2>2. /\ worker' \in [Workers -> Job]
        /\ \A v \in Workers : worker'[v].todo = worker[v].todo
    BY MovesKeeps DEF ContentAdded
  <2> QED BY <2>1, <2>2 DEF ContentAdded, setupVars, postVars, BotInv, BotTypeOK
<1>4. Grounded'
  BY MovesKeeps DEF ContentAdded, setupVars, postVars, BotInv, Grounded, Given
<1> QED BY <1>3, <1>4 DEF ContentAdded, BotInv

LEMMA VerifyUserKeeps ==
  ASSUME BotInv, NEW w \in Workers, VerifyUser(w)
  PROVE  /\ BotInv'
         /\ \/ Served(w)
            \/ Moves(w, "run") /\ Allowed(worker[w].at, worker[w].msg)
<1>1. \/ Served(w)
      \/ Moves(w, "run") /\ Allowed(worker[w].at, worker[w].msg)
  BY DEF VerifyUser, Allowed
<1>2. worker[w].step = "execute"
  BY DEF VerifyUser
<1>3. /\ worker' \in [Workers -> Job]
      /\ \A v \in Workers \ {w} : worker'[v] = worker[v]
      /\ worker'[w].msg = worker[w].msg /\ worker'[w].todo \subseteq worker[w].todo
      /\ \/ worker'[w].step = "next"
         \/ worker'[w].step = "run" /\ worker'[w].at = worker[w].at
  BY <1>1, <1>2, ServedKeeps, MovesKeeps
<1>4. BotTypeOK'
  BY <1>3 DEF VerifyUser, setupVars, postVars, BotInv, BotTypeOK
<1>5. Grounded'
  BY <1>2, <1>3 DEF VerifyUser, setupVars, postVars, BotInv, Grounded, Given
<1> QED BY <1>1, <1>4, <1>5 DEF BotInv

\* What Run adds to executed.
CallOf(w) ==
  [on |-> worker[w].at, by |-> worker[w].msg, content |-> content[worker[w].at],
   shared |-> w \in shared]

LEMMA RunKeeps ==
  ASSUME BotInv, NEW w \in Workers, Run(w)
  PROVE  /\ BotInv'
         /\ \A v \in Workers \ {w} : worker'[v] = worker[v]
         /\ \/ worker'[w].step \in {"next", "idle"}
               /\ executed' = executed \cup {CallOf(w)}
            \/ UNCHANGED <<worker, executed>>
<1> DEFINE call == CallOf(w)
<1>1. worker[w].step = "run" /\ executed' \in {executed, executed \cup {call}}
  BY DEF Run, CallExecutor, CallOf
<1>2. worker[w].msg \in Given /\ worker[w].at \in Executable
  BY <1>1 DEF BotInv, Grounded
<1>3. worker[w].msg \in MessageNumber
  BY <1>2, ChatBotAssumption DEF BotInv, BotTypeOK, Given, MessageNumber
<1>4. call \in Call
  BY <1>2, <1>3 DEF CallOf, Call, BotInv, BotTypeOK
<1>5. /\ worker' \in [Workers -> Job]
      /\ \A v \in Workers \ {w} : worker'[v] = worker[v]
      /\ \/ worker'[w].step = "idle"
         \/ worker'[w].step = "next" /\ worker'[w].msg = worker[w].msg
         \/ worker'[w] = worker[w]
      /\ worker'[w].todo \subseteq worker[w].todo
  <2>1. worker' = worker \/ Served(w) \/ worker' = [worker EXCEPT ![w] = Idle]
    BY DEF Run
  <2>2. worker \in [Workers -> Job]
    BY DEF BotInv, BotTypeOK
  <2> QED BY <1>1, <2>1, <2>2, ServedKeeps, IdlesKeeps
<1>6. /\ process' \in {"setup", "running", "ended"}
      /\ process' = "setup" => process = "setup"
  BY DEF Run, BotInv, BotTypeOK
<1>7. call.by = worker[w].msg
  BY DEF CallOf
<1> HIDE DEF call
<1>8. BotTypeOK'
  BY <1>1, <1>4, <1>5, <1>6 DEF Run, postVars, BotInv, BotTypeOK
<1>9. Grounded'
  BY <1>1, <1>2, <1>5, <1>6, <1>7 DEF Run, postVars, BotInv, Grounded, Given
<1>10. \/ worker'[w].step \in {"next", "idle"} /\ executed' = executed \cup {call}
       \/ UNCHANGED <<worker, executed>>
  <2>1. \/ executed' = executed \cup {call} /\ Served(w)
        \/ executed' = executed \cup {call} /\ worker' = [worker EXCEPT ![w] = Idle]
        \/ UNCHANGED <<worker, executed>>
    BY DEF Run, CallExecutor, CallOf, call
  <2> QED BY <1>1, <2>1, ServedKeeps, IdlesKeeps
<1> QED BY <1>5, <1>8, <1>9, <1>10 DEF BotInv, call

LEMMA FinishKeeps ==
  ASSUME BotInv, NEW w \in Workers, Finish(w)
  PROVE  /\ BotInv'
         /\ \A v \in Workers \ {w} : worker'[v] = worker[v]
         /\ worker'[w].step = "idle"
<1>1. /\ worker' \in [Workers -> Job]
      /\ \A v \in Workers \ {w} : worker'[v] = worker[v]
      /\ worker'[w].step = "idle" /\ worker'[w].todo = {}
  BY IdlesKeeps DEF Finish
<1>2. BotTypeOK'
  BY <1>1 DEF Finish, setupVars, postVars, BotInv, BotTypeOK
<1>3. Grounded'
  BY <1>1 DEF Finish, setupVars, postVars, BotInv, Grounded, Given
<1> QED BY <1>1, <1>2, <1>3 DEF BotInv

-------------------------------------------------------------------------------
LEMMA StepKeeps == ASSUME BotInv, [Next]_botVars PROVE BotInv'
<1>1. CASE UNCHANGED botVars
  BY <1>1 DEF botVars, setupVars, postVars, BotInv, BotTypeOK, Grounded, Given
<1>2. CASE PostModes
  BY <1>2, PostModesKeeps
<1>3. CASE \E m \in MessageNumber : PostCommand(m)
  BY <1>3, PostCommandKeeps
<1>4. CASE \E w \in Workers : Work(w)
  BY <1>4, StartKeeps, AddContentKeeps, ContentAddedKeeps, VerifyUserKeeps, RunKeeps,
     FinishKeeps DEF Work
<1> QED BY <1>1, <1>2, <1>3, <1>4, ApplicationKeeps DEF Next

THEOREM BotInvHolds == Spec => []BotInv
<1> QED BY InitGrounded, StepKeeps, PTL DEF Spec

(***************************************************************************)
(* The variables of the bot have their types: the jobs of the workers are  *)
(* about messages ParseAndExecute was given, and serve commands and modes  *)
(* that were added (the lookup in ProcessCommand).                         *)
(***************************************************************************)
THEOREM BotTypeCorrect == Spec => []BotTypeOK
<1>1. BotInv => BotTypeOK
  BY DEF BotInv
<1> QED BY <1>1, BotInvHolds, PTL

-------------------------------------------------------------------------------
(***************************************************************************)
(* Nothing changes who is allowed what once there are messages, so what    *)
(* Verify decided still holds when the executor is called.                 *)
(***************************************************************************)
Verified ==
  \A w \in Workers : worker[w].step = "run" => Allowed(worker[w].at, worker[w].msg)

LEMMA SettingsStay ==
  ASSUME BotInv, [Next]_botVars
  PROVE  /\ \A m \in Given : messages'[m] = messages[m]
         /\ Given = {} \/ verificator' = verificator
<1>1. CASE UNCHANGED botVars
  BY <1>1 DEF botVars, setupVars, postVars
<1>2. CASE Application
  <2>1. process = "setup" /\ messages' = messages
    BY <1>2 DEF Application, SetCommandStart, AddCommand, AddMode, Add, Configure,
       SetMinimumUserRole, RunWorkers, Setup, postVars
  <2> QED BY <2>1 DEF BotInv, Grounded
<1>3. CASE PostModes
  BY <1>3, AppendProperties DEF PostModes, setupVars, BotInv, BotTypeOK, Given
<1>4. CASE \E m \in MessageNumber : PostCommand(m)
  BY <1>4 DEF PostCommand, setupVars
<1>5. CASE \E w \in Workers : Work(w)
  BY <1>5 DEF Work, Start, AddContent, ContentAdded, VerifyUser, Run, Finish,
     setupVars, postVars
<1> QED BY <1>1, <1>2, <1>3, <1>4, <1>5 DEF Next

LEMMA WorkerVerifies ==
  ASSUME BotInv, Verified, Authorised, NEW w \in Workers, Work(w)
  PROVE  Verified' /\ Authorised'
<1> DEFINE Accepted(x, m) ==
      Verify(verificator'[x], messages'[m].nick, messages'[m].role)
<1>1. \A x \in Executable, m \in Given : Accepted(x, m) <=> Allowed(x, m)
  <2>1. [Next]_botVars
    BY DEF Next
  <2> QED BY <2>1, SettingsStay DEF Allowed
<1>2. /\ Verified' <=> \A v \in Workers : worker'[v].step = "run"
                       => Accepted(worker'[v].at, worker'[v].msg)
      /\ Authorised' <=> \A call \in executed' : Accepted(call.on, call.by)
  BY DEF Verified, Authorised, Allowed
<1> HIDE DEF Accepted
<1>3. /\ \A v \in Workers : worker[v].step = "run"
                             => Accepted(worker[v].at, worker[v].msg)
      /\ \A call \in executed : Accepted(call.on, call.by)
  BY <1>1 DEF Verified, Authorised, BotInv, BotTypeOK, Grounded, Call
<1>4. CASE ~Run(w) /\ ~VerifyUser(w)
  <2>1. \A v \in Workers \ {w} : worker'[v] = worker[v]
    BY <1>4, StartKeeps, AddContentKeeps, ContentAddedKeeps, MovesKeeps, FinishKeeps
    DEF Work
  <2>2. worker'[w].step # "run"
    BY <1>4, StartKeeps, AddContentKeeps, ContentAddedKeeps, MovesKeeps, FinishKeeps
    DEF Work
  <2>3. executed' = executed
    BY <1>4 DEF Work, Start, AddContent, ContentAdded, Finish
  <2> QED BY <1>2, <1>3, <2>1, <2>2, <2>3
<1>5. CASE VerifyUser(w)
  <2>1. worker[w].step = "execute" /\ executed' = executed
    BY <1>5 DEF VerifyUser
  <2>2. \A v \in Workers \ {w} : worker'[v] = worker[v]
    BY <1>5, <2>1, VerifyUserKeeps, ServedKeeps, MovesKeeps
  <2>3. CASE Served(w)
    <3>1. worker'[w].step # "run"
      BY <2>1, <2>3, ServedKeeps
    <3> QED BY <1>2, <1>3, <2>1, <2>2, <3>1
  <2>4. CASE Moves(w, "run") /\ Allowed(worker[w].at, worker[w].msg)
    <3>1. worker'[w].at = worker[w].at /\ worker'[w].msg = worker[w].msg
      BY <2>4, MovesKeeps
    <3>2. Accepted(worker[w].at, worker[w].msg)
      BY <1>1, <2>1, <2>4 DEF BotInv, Grounded
    <3> QED BY <1>2, <1>3, <2>1, <2>2, <3>1, <3>2
  <2> QED BY <1>5, <2>3, <2>4, VerifyUserKeeps
<1>6. CASE Run(w)
  <2>1. worker[w].step = "run" /\ Accepted(worker[w].at, worker[w].msg)
    BY <1>3, <1>6 DEF Run
  <2>2. CASE UNCHANGED <<worker, executed>>
    BY <1>2, <1>3, <2>2
  <2>3. CASE /\ worker'[w].step \in {"next", "idle"}
             /\ executed' = executed \cup {CallOf(w)}
    <3>1. \A v \in Workers \ {w} : worker'[v] = worker[v]
      BY <1>6, RunKeeps
    <3>2. CallOf(w).on = worker[w].at /\ CallOf(w).by = worker[w].msg
      BY DEF CallOf
    <3> QED BY <1>2, <1>3, <2>1, <2>3, <3>1, <3>2
  <2> QED BY <1>6, <2>2, <2>3, RunKeeps
<1> QED BY <1>4, <1>5, <1>6

LEMMA StepVerifies ==
  ASSUME BotInv, Verified, Authorised, [Next]_botVars
  PROVE  Verified' /\ Authorised'
<1>1. CASE \E w \in Workers : Work(w)
  BY <1>1, WorkerVerifies
<1>2. CASE UNCHANGED <<worker, executed>>
  BY <1>2, SettingsStay
  DEF Verified, Authorised, Allowed, BotInv, BotTypeOK, Grounded, Call
<1>3. CASE Application \/ PostModes \/ \E m \in MessageNumber : PostCommand(m)
  BY <1>3, <1>2 DEF Application, SetCommandStart, AddCommand, AddMode, Add, Configure,
     SetMinimumUserRole, RunWorkers, Setup, PostModes, PostCommand
<1> QED BY <1>1, <1>2, <1>3 DEF Next, botVars

(***************************************************************************)
(* An executor is only called for a user Verify accepts, however many      *)
(* threads run the io_context and whatever they interleave.                *)
(***************************************************************************)
THEOREM AuthorisedHolds == Spec => []Authorised
<1>1. Init => Verified /\ Authorised
  BY DEF Init, Verified, Authorised, Idle
<1> QED BY <1>1, BotInvHolds, StepVerifies, PTL DEF Spec

-------------------------------------------------------------------------------
(***************************************************************************)
(* Two workers between AddContent and the executor of one object have both *)
(* been marked; a worker that has not been, has its own text in content_.  *)
(***************************************************************************)
Serves(w) == worker[w].step \in {"adding", "execute", "run"}

SharedIsMarked ==
  \A v, w \in Workers :
    v # w /\ Serves(v) /\ Serves(w) /\ worker[v].at = worker[w].at => w \in shared

ContentIsOwn ==
  \A w \in Workers :
    worker[w].step \in {"execute", "run"} /\ w \notin shared
      => content[worker[w].at] = worker[w].msg

ContentInv == SharedIsMarked /\ ContentIsOwn /\ OwnContentUnlessShared

\* A step of a worker that begins no AddContent and ends none.
LEMMA OtherStepOwns ==
  ASSUME ContentInv, UNCHANGED <<content, shared>>, NEW w \in Workers,
         \A v \in Workers \ {w} : worker'[v] = worker[v],
         \/ worker'[w].step \in {"idle", "next"}
         \/ /\ worker[w].step = "execute" /\ worker'[w].step = "run"
            /\ worker'[w].at = worker[w].at /\ worker'[w].msg = worker[w].msg
  PROVE  SharedIsMarked' /\ ContentIsOwn'
<1>1. \A v \in Workers :
        Serves(v)' => Serves(v) /\ worker'[v].at = worker[v].at
                      /\ worker'[v].msg = worker[v].msg
  BY DEF Serves
<1>2. SharedIsMarked'
  BY <1>1 DEF ContentInv, SharedIsMarked, Serves
<1>3. ContentIsOwn'
  BY <1>1 DEF ContentInv, ContentIsOwn, Serves
<1> QED BY <1>2, <1>3

LEMMA AddContentOwns ==
  ASSUME BotInv, ContentInv, NEW w \in Workers, AddContent(w)
  PROVE  ContentInv'
<1>1. PICK x \in worker[w].todo :
        /\ worker' = [worker EXCEPT ![w].step = "adding", ![w].at = x]
        /\ content' = [content EXCEPT ![x] = Torn]
        /\ shared' = (shared \ {w}) \cup ServesAlso(w, x)
                       \cup (IF ServesAlso(w, x) = {} THEN {} ELSE {w})
  BY DEF AddContent
<1>2. /\ worker'[w].step = "adding" /\ worker'[w].at = x
      /\ \A v \in Workers \ {w} : worker'[v] = worker[v]
  BY <1>1 DEF BotInv, BotTypeOK, Job
<1>3. \A v \in Workers \ {w} : Serves(v) /\ worker[v].at = x => v \in shared' /\ w \in shared'
  BY <1>1 DEF ServesAlso, Serves
<1>4. \A v \in Workers \ {w} : v \in shared => v \in shared'
  BY <1>1
<1>5. SharedIsMarked'
  BY <1>2, <1>3, <1>4 DEF ContentInv, SharedIsMarked, Serves
<1>6. ContentIsOwn'
  <2> SUFFICES ASSUME NEW v \in Workers, worker'[v].step \in {"execute", "run"},
                      v \notin shared'
               PROVE  content'[worker'[v].at] = worker'[v].msg
    BY DEF ContentIsOwn
  <2>1. v # w /\ worker'[v] = worker[v] /\ v \notin shared /\ Serves(v)
    BY <1>2, <1>4 DEF Serves
  <2>2. worker[v].at # x
    BY <1>3, <2>1
  <2>3. content'[worker[v].at] = content[worker[v].at]
    BY <1>1, <2>1, <2>2 DEF Serves, BotInv, BotTypeOK, Grounded
  <2> QED BY <2>1, <2>3 DEF ContentInv, ContentIsOwn
<1>7. OwnContentUnlessShared'
  BY DEF AddContent, ContentInv, OwnContentUnlessShared
<1> QED BY <1>5, <1>6, <1>7 DEF ContentInv

LEMMA ContentAddedOwns ==
  ASSUME BotInv, ContentInv, NEW w \in Workers, ContentAdded(w)
  PROVE  ContentInv'
<1> DEFINE x == worker[w].at
<1>1. PICK text \in {worker[w].msg} \cup (IF Overlaps(w) THEN {Torn} ELSE {}) :
        content' = [content EXCEPT ![x] = text]
  BY DEF ContentAdded
<1>2. /\ worker'[w].step = "execute" /\ worker'[w].at = x
      /\ worker'[w].msg = worker[w].msg
      /\ \A v \in Workers \ {w} : worker'[v] = worker[v]
  BY MovesKeeps DEF ContentAdded
<1>3. worker[w].step = "adding" /\ UNCHANGED <<shared, executed>>
  BY DEF ContentAdded
<1>4. x \in Executable /\ content \in [Executable -> Content]
  BY <1>3 DEF BotInv, BotTypeOK, Grounded
<1>5. SharedIsMarked'
  BY <1>2, <1>3 DEF ContentInv, SharedIsMarked, Serves
<1>6. w \in shared \/ content'[x] = worker[w].msg
  <2>1. Overlaps(w) => w \in shared
    BY <1>3 DEF Overlaps, ContentInv, SharedIsMarked, Serves
  <2> QED BY <1>1, <1>4, <2>1
<1>7. ContentIsOwn'
  <2> SUFFICES ASSUME NEW v \in Workers, worker'[v].step \in {"execute", "run"},
                      v \notin shared', v # w
               PROVE  content'[worker'[v].at] = worker'[v].msg
    BY <1>2, <1>3, <1>6 DEF ContentIsOwn
  <2>1. worker'[v] = worker[v] /\ v \notin shared /\ Serves(v)
    BY <1>2, <1>3 DEF Serves
  <2>2. worker[v].at # x
    BY <1>3, <2>1 DEF ContentInv, SharedIsMarked, Serves
  <2>3. content'[worker[v].at] = content[worker[v].at]
    BY <1>1, <2>2
  <2> QED BY <2>1, <2>3 DEF ContentInv, ContentIsOwn
<1>8. OwnContentUnlessShared'
  BY <1>3 DEF ContentInv, OwnContentUnlessShared
<1> QED BY <1>5, <1>7, <1>8 DEF ContentInv

LEMMA CallOfShared == ASSUME NEW w PROVE CallOf(w).shared <=> w \in shared
BY Zenon DEF CallOf

LEMMA StepOwnsContent == ASSUME BotInv, ContentInv, [Next]_botVars PROVE ContentInv'
<1>1. CASE UNCHANGED <<content, shared, worker, executed>>
  BY <1>1 DEF ContentInv, SharedIsMarked, ContentIsOwn, OwnContentUnlessShared, Serves
<1>2. CASE Application
  <2>1. CASE UNCHANGED content
    BY <1>1, <1>2, <2>1 DEF Application, SetCommandStart, AddCommand, AddMode, Add,
       Configure, SetMinimumUserRole, RunWorkers, Setup
  <2>2. ASSUME NEW x \in Executable, NEW v, Add(x, v)
        PROVE  ContentInv'
    <3>1. process = "setup" /\ UNCHANGED <<shared, worker, executed>>
      BY <2>2 DEF Add, Setup
    <3>2. \A w \in Workers : ~Serves(w)
      BY <3>1 DEF BotInv, Grounded, Serves
    <3> QED BY <3>1, <3>2
        DEF ContentInv, SharedIsMarked, ContentIsOwn, OwnContentUnlessShared, Serves
  <2>3. CASE \E c \in Commands : AddCommand(c)
    BY <2>2, <2>3 DEF AddCommand, Executable
  <2>4. CASE \E m \in Modes : AddMode(m)
    BY <2>2, <2>4 DEF AddMode, Executable
  <2> QED BY <1>2, <2>1, <2>3, <2>4
      DEF Application, SetCommandStart, Configure, SetMinimumUserRole, RunWorkers
<1>3. ASSUME NEW w \in Workers, Work(w)
      PROVE  ContentInv'
  <2>1. CASE Start(w) \/ Finish(w)
    <3>1. /\ worker'[w].step \in {"idle", "next"}
          /\ \A v \in Workers \ {w} : worker'[v] = worker[v]
      BY <2>1, StartKeeps, FinishKeeps
    <3>2. UNCHANGED <<content, shared, executed>>
      BY <2>1 DEF Start, Finish
    <3> QED BY <3>1, <3>2, OtherStepOwns DEF ContentInv, OwnContentUnlessShared
  <2>2. CASE AddContent(w)
    BY <2>2, AddContentOwns
  <2>3. CASE ContentAdded(w)
    BY <2>3, ContentAddedOwns
  <2>4. CASE VerifyUser(w)
    <3>1. worker[w].step = "execute" /\ UNCHANGED <<content, shared, executed>>
      BY <2>4 DEF VerifyUser
    <3>2. /\ \A v \in Workers \ {w} : worker'[v] = worker[v]
          /\ \/ worker'[w].step = "next"
             \/ /\ worker'[w].step = "run"
                /\ worker'[w].at = worker[w].at /\ worker'[w].msg = worker[w].msg
      BY <2>4, <3>1, VerifyUserKeeps, ServedKeeps, MovesKeeps
    <3> QED BY <3>1, <3>2, OtherStepOwns DEF ContentInv, OwnContentUnlessShared
  <2>5. CASE Run(w)
    <3>0. CASE UNCHANGED <<worker, executed>>
      BY <1>1, <2>5, <3>0 DEF Run
    <3> SUFFICES ASSUME ~UNCHANGED <<worker, executed>> PROVE ContentInv'
      BY <3>0
    <3>1. /\ worker'[w].step \in {"idle", "next"}
          /\ \A v \in Workers \ {w} : worker'[v] = worker[v]
      BY <2>5, RunKeeps
    <3>2. /\ worker[w].step = "run" /\ UNCHANGED <<content, shared>>
          /\ executed' = executed \cup {CallOf(w)}
      BY <2>5, RunKeeps DEF Run
    <3>3. w \in shared \/ content[worker[w].at] = worker[w].msg
      BY <3>2 DEF ContentInv, ContentIsOwn
    <3>4. CallOf(w).shared \/ CallOf(w).content = CallOf(w).by
      BY <3>3, CallOfShared DEF CallOf
    <3>5. OwnContentUnlessShared'
      BY <3>2, <3>4 DEF ContentInv, OwnContentUnlessShared
    <3> QED BY <3>1, <3>2, <3>5, OtherStepOwns DEF ContentInv
  <2> QED BY <1>3, <2>1, <2>2, <2>3, <2>4, <2>5 DEF Work
<1>4. CASE PostModes \/ \E m \in MessageNumber : PostCommand(m)
  BY <1>1, <1>4 DEF PostModes, PostCommand
<1> QED BY <1>1, <1>2, <1>3, <1>4 DEF Next, botVars

THEOREM ContentInvHolds == Spec => []ContentInv
<1>1. Init => ContentInv
  BY DEF Init, ContentInv, SharedIsMarked, ContentIsOwn, OwnContentUnlessShared, Serves,
     Idle
<1> QED BY <1>1, BotInvHolds, StepOwnsContent, PTL DEF Spec

(***************************************************************************)
(* However many threads run the io_context, an executor gets the text of   *)
(* another message than the one it is called for only when two threads     *)
(* were between AddContent and Execute of one object at once.              *)
(***************************************************************************)
THEOREM OwnContentUnlessSharedHolds == Spec => []OwnContentUnlessShared
<1>1. ContentInv => OwnContentUnlessShared
  BY DEF ContentInv
<1> QED BY <1>1, ContentInvHolds, PTL
===============================================================================
