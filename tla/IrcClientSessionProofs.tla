----------------------- MODULE IrcClientSessionProofs -----------------------
(***************************************************************************)
(* The read loop has one holder at a time, and what follows from it.       *)
(***************************************************************************)
EXTENDS IrcClientProofs

USE DEF bufferVars, readVars, poolVars

-------------------------------------------------------------------------------
\* Where the Reconnect task is in the queue of connection_strand_.

LEMMA DispatchOther ==
  ASSUME connection_strand \in Seq(Task), NEW t \in Task, t.task # "Reconnect", Dispatch(t)
  PROVE  ReconnectQueued' = ReconnectQueued
<1>1. /\ Len(connection_strand') = Len(connection_strand) + 1
      /\ \A i \in 1 .. Len(connection_strand) :
           connection_strand'[i] = connection_strand[i]
      /\ connection_strand'[Len(connection_strand) + 1] = t
      /\ connection_strand' \in Seq(Task)
  BY AppendProperties DEF Dispatch
<1>2. /\ DOMAIN connection_strand = 1 .. Len(connection_strand)
      /\ DOMAIN connection_strand' = 1 .. Len(connection_strand')
      /\ Len(connection_strand) \in Nat
  BY <1>1
<1> QED BY <1>1, <1>2 DEF ReconnectQueued

LEMMA DispatchReconnect ==
  ASSUME connection_strand \in Seq(Task), ReconnectQueued = {},
         Dispatch([task |-> "Reconnect"])
  PROVE  AtMostOne(ReconnectQueued')
<1> DEFINE t == [task |-> "Reconnect"]
<1>0. t \in Task
  BY DEF Task
<1>1. /\ Len(connection_strand') = Len(connection_strand) + 1
      /\ \A i \in 1 .. Len(connection_strand) :
           connection_strand'[i] = connection_strand[i]
      /\ connection_strand' \in Seq(Task)
  BY <1>0, AppendProperties DEF Dispatch
<1>2. /\ DOMAIN connection_strand = 1 .. Len(connection_strand)
      /\ DOMAIN connection_strand' = 1 .. Len(connection_strand')
      /\ Len(connection_strand) \in Nat
  BY <1>1
<1>3. \A i \in ReconnectQueued' : i = Len(connection_strand) + 1
  BY <1>1, <1>2 DEF ReconnectQueued
<1> QED BY <1>3 DEF AtMostOne

LEMMA TailShifts ==
  ASSUME connection_strand \in Seq(Task), NEW name, NextTask(name)
  PROVE  \A i \in ReconnectQueued' : i + 1 \in ReconnectQueued /\ i + 1 # 1
<1>1. /\ Len(connection_strand') = Len(connection_strand) - 1
      /\ \A i \in 1 .. Len(connection_strand') :
           connection_strand'[i] = connection_strand[i + 1]
      /\ connection_strand' \in Seq(Task)
      /\ Len(connection_strand) \in Nat \ {0}
  BY HeadTailProperties DEF NextTask
<1>2. /\ DOMAIN connection_strand = 1 .. Len(connection_strand)
      /\ DOMAIN connection_strand' = 1 .. Len(connection_strand')
  BY <1>1
<1> QED BY <1>1, <1>2 DEF ReconnectQueued

LEMMA NextTaskKeepsOne ==
  ASSUME connection_strand \in Seq(Task), AtMostOne(ReconnectQueued),
         NEW name, NextTask(name)
  PROVE  /\ AtMostOne(ReconnectQueued')
         /\ ReconnectQueued = {} => ReconnectQueued' = {}
<1>1. \A i \in ReconnectQueued' : i \in Nat
  BY NextTaskTypes DEF ReconnectQueued
<1> QED BY <1>1, TailShifts DEF AtMostOne

LEMMA NextTaskReconnect ==
  ASSUME connection_strand \in Seq(Task), AtMostOne(ReconnectQueued),
         NextTask("Reconnect")
  PROVE  ReconnectQueued # {} /\ ReconnectQueued' = {}
<1>1. 1 \in ReconnectQueued
  <2>1. /\ connection_strand # <<>>
        /\ connection_strand[1].task = "Reconnect"
        /\ 1 \in 1 .. Len(connection_strand)
    BY HeadTailProperties DEF NextTask
  <2> QED BY <2>1 DEF ReconnectQueued
<1>2. \A i \in ReconnectQueued' : FALSE
  BY <1>1, TailShifts DEF AtMostOne
<1> QED BY <1>1, <1>2

-------------------------------------------------------------------------------
\* One read loop.

\* A step that leaves the holders alone.
LEMMA HoldersAlone ==
  ASSUME OneReadLoop, UNCHANGED <<reads, connection_strand, timer, main, connection>>
  PROVE  OneReadLoop'
BY DEF OneReadLoop, ReconnectQueued, Recovering, AtMostOne

\* The timers of a step that moves one of them.
LEMMA TimerMovesHolders ==
  ASSUME timer \in [Conn -> TimerStage], NEW c \in Conn, NEW from, NEW to,
         TimerMoves(c, from, to)
  PROVE  /\ timer[c] = from /\ timer'[c] = to
         /\ \A d \in Conn \ {c} : timer'[d] = timer[d]
BY DEF TimerMoves

LEMMA LoopMain ==
  ASSUME TypeOK, OneReadLoop, Main
  PROVE  OneReadLoop'
<1>1. CASE MainRead
  <2>1. reads = {} /\ ReconnectQueued = {} /\ Recovering = {} /\ reads' = {NewRead}
    BY <1>1 DEF MainRead, OneReadLoop, StartRead
  <2>2. ReconnectQueued' = {} /\ Recovering' = {}
    BY <1>1, <2>1 DEF MainRead, ReconnectQueued, Recovering, handlerVars
  <2>3. NewRead.conn = connection /\ connection' = connection /\ main' = "Run"
    BY <1>1 DEF MainRead, NewRead
  <2> QED BY <2>1, <2>2, <2>3 DEF OneReadLoop, AtMostOne
<1>2. CASE MainConnect \/ MainAuthorize \/ MainCapRequest \/ MainJoin
  <2>1. main # "Run"
    BY <1>2 DEF MainConnect, MainAuthorize, MainCapRequest, MainJoin
  <2>2. UNCHANGED <<reads, connection_strand, timer, connection>>
    BY <1>2 DEF MainConnect, MainAuthorize, MainCapRequest, MainJoin, handlerVars
  <2> QED BY <2>1, <2>2 DEF OneReadLoop, ReconnectQueued, Recovering, AtMostOne
<1> QED BY <1>1, <1>2 DEF Main

LEMMA LoopReadLoop ==
  ASSUME TypeOK, OneReadLoop, ReadLoop
  PROVE  OneReadLoop'
<1>1. PICK r \in reads : \/ ReadBytes(r) \/ ReadNothing(r) \/ ReadBytesAndError(r)
                         \/ OnReadParse(r) \/ OnReadContinue(r)
  BY DEF ReadLoop
<1>2. /\ reads = {r} /\ r.conn = connection /\ r \in Read
      /\ main = "Run" /\ ReconnectQueued = {} /\ Recovering = {}
  BY <1>1 DEF OneReadLoop, AtMostOne, TypeOK, ClientTypeOK
<1>3. UNCHANGED <<timer, main, connection>>
  BY <1>1 DEF ReadBytes, ReadNothing, ReadBytesAndError, OnReadParse, OnReadContinue
<1>4. Recovering' = {}
  BY <1>2, <1>3 DEF Recovering
<1>5. AtMostOne(reads') /\ \A q \in reads' : q.conn = connection
  <2>1. ASSUME NEW stage, NEW msgs, MoveTo(r, stage, msgs)
        PROVE  AtMostOne(reads') /\ \A q \in reads' : q.conn = connection
    BY <1>2, <2>1 DEF MoveTo, AtMostOne, Read
  <2>2. CASE Finish(r)
    BY <1>2, <2>2 DEF Finish, AtMostOne
  <2>3. CASE StartRead(reads \ {r})
    BY <1>2, <2>3 DEF StartRead, NewRead, AtMostOne
  <2> QED BY <1>1, <2>1, <2>2, <2>3
       DEF ReadBytes, ReadNothing, ReadBytesAndError, OnReadParse, OnReadContinue
<1>6. CASE Dispatch([task |-> "Reconnect"]) /\ Finish(r)
  <2>1. AtMostOne(ReconnectQueued')
    BY <1>2, <1>6, DispatchReconnect DEF TypeOK, HandlerTypeOK
  <2>2. reads' = {}
    BY <1>2, <1>6 DEF Finish
  <2> QED BY <1>2, <1>3, <1>4, <2>1, <2>2 DEF OneReadLoop, AtMostOne
<1>7. CASE UNCHANGED connection_strand
  <2>1. ReconnectQueued' = {}
    BY <1>2, <1>7 DEF ReconnectQueued
  <2> QED BY <1>2, <1>3, <1>4, <1>5, <2>1 DEF OneReadLoop, AtMostOne
<1> QED BY <1>1, <1>6, <1>7
     DEF ReadBytes, ReadNothing, ReadBytesAndError, OnReadParse, OnReadContinue, handlerVars

LEMMA LoopConnectionStrand ==
  ASSUME TypeOK, OneReadLoop, ConnectionStrand
  PROVE  OneReadLoop'
<1>1. CASE Reconnect
  <2>1. ReconnectQueued # {} /\ ReconnectQueued' = {}
    BY <1>1, NextTaskReconnect DEF Reconnect, OneReadLoop, TypeOK, HandlerTypeOK
  <2>2. reads = {} /\ Recovering = {} /\ main = "Run"
    BY <2>1 DEF OneReadLoop
  <2>3. PICK c \in Conn : timer' = [timer EXCEPT ![c] = "Connect"]
    BY <1>1 DEF Reconnect
  <2>4. \A d \in Conn \ {c} : timer'[d] = timer[d]
    BY <2>3 DEF TypeOK, ClientTypeOK
  <2>5. \A d \in Recovering' : d = c
    BY <2>2, <2>4 DEF Recovering
  <2>6. reads' = {} /\ main' = "Run"
    BY <1>1, <2>2 DEF Reconnect
  <2> QED BY <2>1, <2>5, <2>6 DEF OneReadLoop, AtMostOne
<1>2. CASE SwitchHandler \/ SendPong
  <2>1. UNCHANGED <<reads, timer, main, connection>>
    BY <1>2 DEF SwitchHandler, SendPong, clientVars
  <2>2. /\ AtMostOne(ReconnectQueued')
        /\ ReconnectQueued = {} => ReconnectQueued' = {}
    BY <1>2, NextTaskKeepsOne
    DEF SwitchHandler, SendPong, OneReadLoop, TypeOK, HandlerTypeOK
  <2>3. Recovering' = Recovering
    BY <2>1 DEF Recovering
  <2> QED BY <2>1, <2>2, <2>3 DEF OneReadLoop, AtMostOne
<1> QED BY <1>1, <1>2 DEF ConnectionStrand

LEMMA LoopTimer ==
  ASSUME TypeOK, OneReadLoop, NEW c \in Conn, TimerHandler(c)
  PROVE  OneReadLoop'
<1> DEFINE Before == {"Connect", "Handshake", "UpdateConnection", "FlushBuffer",
                      "Authorize", "Read"}
<1>0. timer \in [Conn -> TimerStage]
  BY DEF TypeOK, ClientTypeOK
<1>1. CASE TimerRead(c) /\ CanRead
  <2>1. /\ timer[c] = "Read" /\ timer'[c] = "CapRequest"
        /\ \A d \in Conn \ {c} : timer'[d] = timer[d]
        /\ reads' = reads \cup {NewRead}
        /\ UNCHANGED <<connection_strand, main, connection>>
    BY <1>0, <1>1, TimerMovesHolders DEF TimerRead, StartRead, handlerVars
  <2>2. c \in Recovering
    BY <2>1 DEF Recovering
  <2>3. Recovering' = {}
    BY <2>1, <2>2 DEF Recovering, OneReadLoop, AtMostOne
  <2>4. reads = {} /\ ReconnectQueued = {} /\ main = "Run"
    BY <2>2 DEF OneReadLoop
  <2>5. ReconnectQueued' = {}
    BY <2>1, <2>4 DEF ReconnectQueued
  <2>6. NewRead.conn = connection
    BY DEF NewRead
  <2> QED BY <2>1, <2>3, <2>4, <2>5, <2>6 DEF OneReadLoop, AtMostOne
<1>2. CASE /\ UNCHANGED <<reads, main, connection>>
           /\ ReconnectQueued' = ReconnectQueued
           /\ \A d \in Conn \ {c} : timer'[d] = timer[d]
           /\ timer'[c] \in Before => timer[c] \in Before
  <2>1. Recovering' \subseteq Recovering
    BY <1>2 DEF Recovering
  <2> QED BY <1>2, <2>1 DEF OneReadLoop, AtMostOne
<1>3. CASE TimerUpdateConnection(c)
  <2>1. [task |-> "UpdateConnection", conn |-> connection] \in Task
    BY DEF Task, TypeOK, ClientTypeOK
  <2>2. ReconnectQueued' = ReconnectQueued
    BY <1>3, <2>1, DispatchOther
    DEF TimerUpdateConnection, UpdateConnection, TypeOK, HandlerTypeOK
  <2> QED BY <1>0, <1>2, <1>3, <2>2, TimerMovesHolders DEF TimerUpdateConnection
<1>4. CASE \/ TimerConnect(c) \/ TimerFlushBuffer(c) \/ TimerAuthorize(c)
           \/ (TimerRead(c) /\ ~CanRead)
           \/ TimerCapRequest(c) \/ TimerJoin(c)
  <2>1. UNCHANGED <<reads, main, connection, connection_strand>>
    BY <1>4 DEF TimerConnect, TimerFlushBuffer, TimerAuthorize, TimerRead,
       TimerCapRequest, TimerJoin, handlerVars
  <2>2. ReconnectQueued' = ReconnectQueued
    BY <2>1 DEF ReconnectQueued
  <2>3. \/ UNCHANGED timer
        \/ \E from \in Before, to \in TimerStage : TimerMoves(c, from, to)
        \/ TimerMoves(c, "CapRequest", "Join") \/ TimerMoves(c, "Join", "done")
    BY <1>4 DEF TimerConnect, AfterConnect, TimerFlushBuffer, TimerAuthorize, TimerRead,
       TimerCapRequest, TimerJoin, TimerStage
  <2> QED BY <1>0, <1>2, <2>1, <2>2, <2>3, TimerMovesHolders
<1> QED BY <1>1, <1>3, <1>4 DEF TimerHandler

LEMMA LoopPool ==
  ASSUME TypeOK, OneReadLoop, HandlerPool
  PROVE  OneReadLoop'
<1>1. PICK b \in pool : HandleMessage(b)
  BY DEF HandlerPool
<1>2. UNCHANGED <<reads, timer, main, connection>>
  BY DEF HandlerPool, clientVars
<1>3. ReconnectQueued' = ReconnectQueued
  <2>1. CASE HandlePing(b)
    <3>1. [task |-> "SendPong", ping |-> <<b.id, b.next>>] \in Task
      BY DEF Task, TypeOK, HandlerTypeOK, Batch, MessageId
    <3> QED BY <2>1, <3>1, DispatchOther DEF HandlePing, TypeOK, HandlerTypeOK
  <2>2. CASE UNCHANGED connection_strand
    BY <2>2 DEF ReconnectQueued
  <2> QED BY <1>1, <2>1, <2>2 DEF HandleMessage, HandleChat, HandleNickless, HandleOther
<1> QED BY <1>2, <1>3 DEF OneReadLoop, Recovering, AtMostOne

LEMMA NextKeepsOneReadLoop == TypeOK /\ OneReadLoop /\ [Next]_vars => OneReadLoop'
<1> SUFFICES ASSUME TypeOK, OneReadLoop, [Next]_vars PROVE OneReadLoop'
  OBVIOUS
<1>1. CASE UNCHANGED vars \/ Application \/ BotTask \/ WriteCompletes \/ Network
  <2>1. UNCHANGED <<reads, connection_strand, timer, main, connection>>
    BY <1>1 DEF vars, clientVars, handlerVars, BotTask, ParseAndExecute, WriteCompletes, Network, Application,
       CallJoin, CallPart, CallDisconnect, CallSetChatBot, Call, SetChatBot
  <2> QED BY <2>1, HoldersAlone
<1> QED BY <1>1, LoopMain, LoopReadLoop, LoopConnectionStrand, LoopTimer, LoopPool DEF Next

(***************************************************************************)
(* There is never a second read loop, however handlers, strand tasks and   *)
(* timers interleave.                                                      *)
(***************************************************************************)
THEOREM OneReadLoopHolds == Spec => []OneReadLoop
<1>1. Init => OneReadLoop
  BY DEF Init, HandlerInit, OneReadLoop, ReconnectQueued, Recovering, AtMostOne
<1> QED BY <1>1, NextKeepsOneReadLoop, TypeCorrect, PTL DEF Spec

-------------------------------------------------------------------------------
(***************************************************************************)
(* The buffer of the incomplete line.  From the timer handler's            *)
(* FlushBuffer on, and while a read is in progress, it holds nothing of an *)
(* earlier connection.                                                     *)
(***************************************************************************)
BufferIsCurrent ==
  /\ main # "Run" => incomplete_from = 0
  /\ \/ reads # {}
     \/ \E c \in Conn : timer[c] \in {"Authorize", "Read"}
     => incomplete_from \in {0, connection}

LEMMA NextKeepsBuffer ==
  TypeOK /\ OneReadLoop /\ BufferIsCurrent /\ [Next]_vars => BufferIsCurrent'
<1> SUFFICES ASSUME TypeOK, OneReadLoop, BufferIsCurrent, [Next]_vars
             PROVE  BufferIsCurrent'
  OBVIOUS
<1>0. timer \in [Conn -> TimerStage]
  BY DEF TypeOK, ClientTypeOK
<1>1. CASE UNCHANGED vars \/ Application \/ BotTask \/ WriteCompletes \/ Network \/ HandlerPool
  <2>1. UNCHANGED <<reads, timer, main, connection, incomplete_from>>
    BY <1>1 DEF vars, clientVars, BotTask, ParseAndExecute, WriteCompletes, Network, HandlerPool, Application,
       CallJoin, CallPart, CallDisconnect, CallSetChatBot, Call
  <2> QED BY <2>1 DEF BufferIsCurrent
<1>2. CASE Main
  <2>1. incomplete_from = 0 /\ incomplete_from' = 0
    BY <1>2 DEF BufferIsCurrent, Main, MainConnect, MainAuthorize, MainCapRequest,
       MainJoin, MainRead
  <2> QED BY <2>1 DEF BufferIsCurrent
<1>3. CASE ReadLoop
  <2>1. PICK r \in reads : \/ ReadBytes(r) \/ ReadNothing(r) \/ ReadBytesAndError(r)
                           \/ OnReadParse(r) \/ OnReadContinue(r)
    BY <1>3 DEF ReadLoop
  <2>2. r.conn = connection /\ main = "Run"
    BY <2>1 DEF OneReadLoop
  <2>3. incomplete_from \in {0, connection}
    BY <2>1 DEF BufferIsCurrent
  <2>4. incomplete_from' \in {0, connection} /\ UNCHANGED <<connection, main>>
    BY <2>1, <2>2, <2>3
    DEF ReadBytes, ReadNothing, ReadBytesAndError, OnReadParse, OnReadContinue
  <2> QED BY <2>2, <2>4 DEF BufferIsCurrent
<1>4. CASE Reconnect
  <2>1. ReconnectQueued # {}
    BY <1>4, NextTaskReconnect DEF Reconnect, OneReadLoop, TypeOK, HandlerTypeOK
  <2>2. reads = {} /\ Recovering = {} /\ main = "Run"
    BY <2>1 DEF OneReadLoop
  <2>3. UNCHANGED <<reads, main>>
    BY <1>4 DEF Reconnect
  <2>4. \A c \in Conn : timer'[c] \notin {"Authorize", "Read"}
    BY <1>0, <1>4, <2>2 DEF Reconnect, Recovering
  <2> QED BY <2>2, <2>3, <2>4 DEF BufferIsCurrent
<1>5. CASE SwitchHandler \/ SendPong
  <2>1. UNCHANGED <<reads, timer, main, connection, incomplete_from>>
    BY <1>5 DEF SwitchHandler, SendPong, clientVars
  <2> QED BY <2>1 DEF BufferIsCurrent
<1>6. ASSUME NEW c \in Conn, TimerHandler(c)
      PROVE  BufferIsCurrent'
  <2>0. UNCHANGED <<connection, main>>
    BY <1>6 DEF TimerHandler, TimerConnect, TimerUpdateConnection, TimerFlushBuffer,
       TimerAuthorize, TimerRead, TimerCapRequest, TimerJoin
  <2>1. CASE TimerFlushBuffer(c)
    BY <2>0, <2>1 DEF TimerFlushBuffer, BufferIsCurrent
  <2>2. CASE TimerAuthorize(c) \/ TimerRead(c)
    <3>1. timer[c] \in {"Authorize", "Read"}
      BY <2>2 DEF TimerAuthorize, TimerRead, TimerMoves
    <3>2. incomplete_from \in {0, connection} /\ UNCHANGED incomplete_from
      BY <2>2, <3>1 DEF BufferIsCurrent, TimerAuthorize, TimerRead
    <3> QED BY <2>0, <3>2 DEF BufferIsCurrent
  <2>3. CASE \/ TimerConnect(c) \/ TimerUpdateConnection(c)
             \/ TimerCapRequest(c) \/ TimerJoin(c)
    <3>1. UNCHANGED <<reads, incomplete_from>>
      BY <2>3 DEF TimerConnect, TimerUpdateConnection, TimerCapRequest, TimerJoin
    <3>2. \A d \in Conn : timer'[d] \in {"Authorize", "Read"} => timer'[d] = timer[d]
      BY <1>0, <2>3 DEF TimerConnect, TimerUpdateConnection, TimerCapRequest, TimerJoin,
         TimerMoves, AfterConnect
    <3> QED BY <2>0, <3>1, <3>2 DEF BufferIsCurrent
  <2> QED BY <1>6, <2>1, <2>2, <2>3 DEF TimerHandler
<1> QED BY <1>1, <1>2, <1>3, <1>4, <1>5, <1>6 DEF Next, ConnectionStrand

(***************************************************************************)
(* Bytes of two connections are never framed into one message.             *)
(***************************************************************************)
THEOREM NoCrossSessionFramingHolds == Spec => []NoCrossSessionFraming
<1>1. Init => BufferIsCurrent
  BY DEF Init, BufferIsCurrent
<1>2. OneReadLoop /\ BufferIsCurrent => NoCrossSessionFraming
  BY DEF OneReadLoop, BufferIsCurrent, NoCrossSessionFraming
<1> QED BY <1>1, <1>2, NextKeepsBuffer, OneReadLoopHolds, TypeCorrect, PTL DEF Spec

-------------------------------------------------------------------------------
\* Refinement of Session.

LEMMA NextTaskKeepsReconnect ==
  ASSUME connection_strand \in Seq(Task), NEW name, name # "Reconnect", NextTask(name)
  PROVE  ReconnectQueued' = {} <=> ReconnectQueued = {}
<1>1. /\ Len(connection_strand') = Len(connection_strand) - 1
      /\ \A i \in 1 .. Len(connection_strand') :
           connection_strand'[i] = connection_strand[i + 1]
      /\ connection_strand' \in Seq(Task)
      /\ Len(connection_strand) \in Nat \ {0}
      /\ connection_strand[1].task # "Reconnect"
  BY HeadTailProperties DEF NextTask
<1>2. /\ DOMAIN connection_strand = 1 .. Len(connection_strand)
      /\ DOMAIN connection_strand' = 1 .. Len(connection_strand')
  BY <1>1
<1>3. ASSUME NEW i \in ReconnectQueued
      PROVE  i - 1 \in ReconnectQueued'
  <2>1. i \in 1 .. Len(connection_strand) /\ i # 1
    BY <1>1, <1>2 DEF ReconnectQueued
  <2>2. i - 1 \in 1 .. Len(connection_strand') /\ (i - 1) + 1 = i
    BY <1>1, <2>1
  <2>3. connection_strand'[i - 1] = connection_strand[i]
    BY <1>1, <2>2
  <2> QED BY <1>2, <2>2, <2>3 DEF ReconnectQueued
<1> QED BY <1>3, TailShifts

\* While the client reads or is about to, nobody waits in a handshake.
LEMMA NoHandshake ==
  ASSUME main = "Run", Recovering = {}
  PROVE  ~InHandshake
BY DEF InHandshake, Recovering

\* A step that keeps the phase: the holders change in nothing the phase tells.
LEMMA PhaseAlone ==
  ASSUME UNCHANGED <<alive, main, connection>>,
         InHandshake' <=> InHandshake,
         Recovering' = {} <=> Recovering = {},
         (reads' = {} /\ ReconnectQueued' = {}) <=> (reads = {} /\ ReconnectQueued = {})
  PROVE  UNCHANGED S!sessionVars
BY DEF S!sessionVars, SessionPhase

\* A step that terminates the process.
LEMMA PhaseDies ==
  ASSUME alive, ~alive', UNCHANGED connection
  PROVE  S!Next
BY DEF S!Next, S!Die, SessionPhase

LEMMA PhaseMain ==
  ASSUME TypeOK, OneReadLoop, OneReadLoop', Main
  PROVE  S!Next \/ UNCHANGED S!sessionVars
<1>1. alive /\ UNCHANGED connection /\ main # "Run"
  BY DEF Main, MainConnect, MainAuthorize, MainCapRequest, MainJoin, MainRead
<1>2. CASE MainRead
  <2>1. reads' # {} /\ alive' /\ main' = "Run"
    BY <1>2 DEF MainRead, StartRead
  <2>2. Recovering' = {}
    BY <2>1 DEF OneReadLoop
  <2>3. ~InHandshake /\ ~InHandshake'
    BY <1>2, <2>1, <2>2 DEF InHandshake, MainRead, Recovering
  <2> QED BY <1>1, <2>1, <2>2, <2>3 DEF S!Next, S!GoOnline, SessionPhase
<1>3. CASE alive' /\ main' # "Run"
  <2>1. UNCHANGED timer /\ main # "Handshake" /\ Recovering = {}
    BY <1>1 DEF Main, MainConnect, MainAuthorize, MainCapRequest, MainJoin, MainRead,
       OneReadLoop
  <2>2. ~InHandshake /\ (InHandshake' <=> main' = "Handshake")
    BY <2>1 DEF InHandshake, Recovering
  <2>3. CASE main' = "Handshake"
    BY <1>1, <1>3, <2>2, <2>3 DEF S!Next, S!Wait, SessionPhase
  <2>4. CASE main' # "Handshake"
    BY <1>1, <1>3, <2>2, <2>4 DEF S!sessionVars, SessionPhase
  <2> QED BY <2>3, <2>4
<1>4. CASE ~alive'
  BY <1>1, <1>4, PhaseDies
<1>5. main' # "Run" \/ MainRead
  BY DEF Main, MainConnect, AfterConnect, MainAuthorize, MainCapRequest, MainJoin
<1> QED BY <1>2, <1>3, <1>4, <1>5

LEMMA PhaseReadLoop ==
  ASSUME TypeOK, OneReadLoop, OneReadLoop', ReadLoop
  PROVE  S!Next \/ UNCHANGED S!sessionVars
<1>1. PICK r \in reads : \/ ReadBytes(r) \/ ReadNothing(r) \/ ReadBytesAndError(r)
                         \/ OnReadParse(r) \/ OnReadContinue(r)
  BY DEF ReadLoop
<1>2. alive /\ main = "Run" /\ Recovering = {} /\ reads # {}
  BY <1>1 DEF OneReadLoop, ReadBytes, ReadNothing, ReadBytesAndError, OnReadParse,
     OnReadContinue
<1>3. UNCHANGED <<alive, main, connection, timer>>
  BY <1>1 DEF ReadBytes, ReadNothing, ReadBytesAndError, OnReadParse, OnReadContinue
<1>4. Recovering' = {}
  BY <1>2, <1>3 DEF Recovering
<1>5. ~InHandshake /\ ~InHandshake'
  BY <1>2, <1>3, <1>4, NoHandshake DEF InHandshake, Recovering
<1> QED BY <1>2, <1>3, <1>4, <1>5 DEF S!Next, S!Lose, S!sessionVars, SessionPhase

LEMMA PhaseConnectionStrand ==
  ASSUME TypeOK, TypeOK', OneReadLoop, ConnectionStrand
  PROVE  S!Next \/ UNCHANGED S!sessionVars
<1>1. CASE Reconnect
  <2>1. ReconnectQueued # {}
    BY <1>1, NextTaskReconnect DEF Reconnect, OneReadLoop, TypeOK, HandlerTypeOK
  <2>2. main = "Run" /\ Recovering = {} /\ alive
    BY <1>1, <2>1 DEF OneReadLoop, Reconnect, NextTask
  <2>3. PICK c \in Conn : c > connection /\ connection' = c
                          /\ timer' = [timer EXCEPT ![c] = "Connect"]
    BY <1>1 DEF Reconnect
  <2>4. c \in Recovering'
    BY <2>3 DEF Recovering, TypeOK, ClientTypeOK
  <2>5. main' = "Run" /\ alive'
    BY <1>1, <2>2 DEF Reconnect
  <2>6. connection' \in Nat
    BY <2>3, MaxConnAssumption DEF Conn
  <2>7. ~InHandshake /\ ~InHandshake'
    BY <2>2, <2>3, <2>5 DEF InHandshake, Recovering, TypeOK, ClientTypeOK
  <2> QED BY <2>1, <2>2, <2>3, <2>4, <2>5, <2>6, <2>7 DEF S!Next, S!Break, SessionPhase
<1>2. CASE SwitchHandler \/ SendPong
  <2>1. alive /\ UNCHANGED <<reads, timer, main, connection>>
    BY <1>2 DEF SwitchHandler, SendPong, NextTask, clientVars
  <2>2. ReconnectQueued' = {} <=> ReconnectQueued = {}
    BY <1>2, NextTaskKeepsReconnect DEF SwitchHandler, SendPong, TypeOK, HandlerTypeOK
  <2>3. Recovering' = Recovering
    BY <2>1 DEF Recovering
  <2>4. alive' \in BOOLEAN
    BY DEF TypeOK, ClientTypeOK
  <2>5. InHandshake' <=> InHandshake
    BY <2>1 DEF InHandshake
  <2> QED BY <2>1, <2>2, <2>3, <2>4, <2>5, PhaseAlone, PhaseDies
<1> QED BY <1>1, <1>2 DEF ConnectionStrand

LEMMA PhaseTimer ==
  ASSUME TypeOK, TypeOK', OneReadLoop, OneReadLoop', NEW c \in Conn, TimerHandler(c)
  PROVE  S!Next \/ UNCHANGED S!sessionVars
<1>0. timer \in [Conn -> TimerStage] /\ alive' \in BOOLEAN
  BY DEF TypeOK, ClientTypeOK
<1>1. alive /\ UNCHANGED <<main, connection>>
  BY DEF TimerHandler, TimerConnect, TimerUpdateConnection, TimerFlushBuffer,
     TimerAuthorize, TimerRead, TimerCapRequest, TimerJoin
<1>2. CASE ~alive'
  BY <1>1, <1>2, PhaseDies
<1>3. CASE alive' /\ timer[c] \in {"Connect", "UpdateConnection", "FlushBuffer", "Authorize"}
  <2>1. c \in Recovering
    BY <1>3 DEF Recovering
  <2>2. c \in Recovering' /\ \A d \in Conn \ {c} : timer'[d] = timer[d]
    BY <1>0, <1>3, TimerMovesHolders
    DEF TimerHandler, TimerConnect, AfterConnect, TimerUpdateConnection, TimerFlushBuffer,
        TimerAuthorize, TimerRead, TimerCapRequest, TimerJoin, TimerMoves, Recovering,
        Terminate
  <2>3. main = "Run" /\ main' = "Run"
    BY <1>1, <2>1 DEF OneReadLoop
  <2>4. \A d \in Conn \ {c} : timer[d] # "Handshake"
    BY <2>1 DEF OneReadLoop, AtMostOne, Recovering
  <2>5. ~InHandshake /\ (InHandshake' <=> timer'[c] = "Handshake")
    BY <1>3, <2>2, <2>3, <2>4 DEF InHandshake
  <2>6. CASE timer'[c] = "Handshake"
    BY <1>1, <1>3, <2>1, <2>3, <2>5, <2>6 DEF S!Next, S!Wait, SessionPhase
  <2>7. CASE timer'[c] # "Handshake"
    BY <1>1, <1>3, <2>1, <2>2, <2>5, <2>7 DEF S!sessionVars, SessionPhase
  <2> QED BY <2>6, <2>7
<1>4. CASE alive' /\ timer[c] = "Read"
  <2>1. c \in Recovering
    BY <1>4 DEF Recovering
  <2>2. main = "Run"
    BY <2>1 DEF OneReadLoop
  <2>3. reads' # {}
    BY <1>4 DEF TimerHandler, TimerConnect, TimerUpdateConnection, TimerFlushBuffer,
       TimerAuthorize, TimerRead, TimerCapRequest, TimerJoin, TimerMoves, StartRead,
       Terminate
  <2>4. Recovering' = {}
    BY <2>3 DEF OneReadLoop
  <2>5. ~InHandshake
    BY <1>4, <2>1, <2>2 DEF InHandshake, OneReadLoop, AtMostOne, Recovering
  <2>6. ~InHandshake'
    BY <1>1, <2>2, <2>4 DEF InHandshake, Recovering
  <2> QED BY <1>1, <1>4, <2>1, <2>2, <2>3, <2>4, <2>5, <2>6
      DEF S!Next, S!Recover, SessionPhase
<1>5. CASE alive' /\ timer[c] \in {"none", "Handshake", "CapRequest", "Join", "done"}
  <2>1. TimerCapRequest(c) \/ TimerJoin(c)
    BY <1>5 DEF TimerHandler, TimerConnect, TimerUpdateConnection, TimerFlushBuffer,
       TimerAuthorize, TimerRead, TimerMoves
  <2>2. UNCHANGED <<reads, connection_strand>>
    BY <2>1 DEF TimerCapRequest, TimerJoin, handlerVars
  <2>3. ReconnectQueued' = ReconnectQueued
    BY <2>2 DEF ReconnectQueued
  <2>4. /\ timer[c] \in {"CapRequest", "Join"} /\ timer'[c] \in {"Join", "done"}
        /\ \A d \in Conn \ {c} : timer'[d] = timer[d]
    BY <1>0, <1>5, <2>1 DEF TimerCapRequest, TimerJoin, TimerMoves, Terminate
  <2>5. Recovering' = Recovering
    BY <1>5, <2>4 DEF Recovering
  <2>6. InHandshake' <=> InHandshake
    BY <1>1, <2>4 DEF InHandshake
  <2> QED BY <1>1, <1>5, <2>2, <2>3, <2>5, <2>6, PhaseAlone
<1> QED BY <1>0, <1>2, <1>3, <1>4, <1>5 DEF TimerStage

LEMMA PhaseStep ==
  TypeOK /\ TypeOK' /\ OneReadLoop /\ OneReadLoop' /\ [Next]_vars
    => S!Next \/ UNCHANGED S!sessionVars
<1> SUFFICES ASSUME TypeOK, TypeOK', OneReadLoop, OneReadLoop', [Next]_vars
             PROVE  S!Next \/ UNCHANGED S!sessionVars
  OBVIOUS
<1>0. CASE BotTask
  <2>1. alive /\ UNCHANGED <<reads, connection_strand, timer, main, connection>>
    BY <1>0 DEF BotTask, ParseAndExecute, handlerVars
  <2>2. alive' \in BOOLEAN
    BY DEF TypeOK, ClientTypeOK
  <2> QED BY <2>1, <2>2, PhaseAlone, PhaseDies DEF InHandshake, Recovering, ReconnectQueued
<1>1. CASE UNCHANGED vars \/ Application \/ WriteCompletes \/ Network
  <2>1. UNCHANGED <<reads, connection_strand, timer, main, connection, alive>>
    BY <1>1 DEF vars, clientVars, handlerVars, WriteCompletes, Network, Application,
       CallJoin, CallPart, CallDisconnect, CallSetChatBot, Call, SetChatBot
  <2> QED BY <2>1, PhaseAlone DEF InHandshake, Recovering, ReconnectQueued
<1>2. CASE HandlerPool
  <2>1. PICK b \in pool : HandleMessage(b)
    BY <1>2 DEF HandlerPool
  <2>2. ReconnectQueued' = ReconnectQueued
    <3>1. CASE HandlePing(b)
      <4>1. [task |-> "SendPong", ping |-> <<b.id, b.next>>] \in Task
        BY DEF Task, TypeOK, HandlerTypeOK, Batch, MessageId
      <4> QED BY <3>1, <4>1, DispatchOther DEF HandlePing, TypeOK, HandlerTypeOK
    <3>2. CASE UNCHANGED connection_strand
      BY <3>2 DEF ReconnectQueued
    <3> QED BY <2>1, <3>1, <3>2 DEF HandleMessage, HandleChat, HandleNickless, HandleOther
  <2>3. UNCHANGED <<reads, timer, main, connection, alive>>
    BY <1>2 DEF HandlerPool, clientVars
  <2> QED BY <2>2, <2>3, PhaseAlone DEF InHandshake, Recovering
<1> QED BY <1>0, <1>1, <1>2, PhaseMain, PhaseReadLoop, PhaseConnectionStrand, PhaseTimer DEF Next

(***************************************************************************)
(* The client implements Session: its steps are steps of a session that    *)
(* starts, goes online, breaks, recovers, waits, is lost or dies.          *)
(***************************************************************************)
THEOREM SessionImplemented == Spec => ImplementsSession
<1>1. Init => S!Init
  BY DEF Init, S!Init, SessionPhase, InHandshake
<1> QED BY <1>1, PhaseStep, TypeCorrect, OneReadLoopHolds, PTL DEF Spec, S!Spec, ImplementsSession

-------------------------------------------------------------------------------
(***************************************************************************)
(* Without errors that carry bytes nobody ever sets reconnect_required_,   *)
(* so OnRead never dispatches Reconnect.                                   *)
(***************************************************************************)
NoReconnectIsAsked ==
  /\ \A c \in Conn : ~reconnect_required[c]
  /\ ReconnectQueued = {}
  /\ \A c \in Conn : timer[c] = "none"
  /\ connection = 1

LEMMA NextAsksNoReconnect ==
  ASSUME ~ErrorWithBytes, TypeOK, NoReconnectIsAsked, [Next]_vars
  PROVE  NoReconnectIsAsked'
<1>0. connection_strand \in Seq(Task) /\ reconnect_required \in [Conn -> BOOLEAN]
  BY DEF TypeOK, HandlerTypeOK, ConnectionTypeOK
<1>1. CASE UNCHANGED <<reconnect_required, connection_strand, timer, connection>>
  BY <1>1 DEF NoReconnectIsAsked, ReconnectQueued
<1>2. CASE UNCHANGED vars
  BY <1>1, <1>2 DEF vars, connVars, handlerVars, clientVars
<1>3. CASE Main \/ Application \/ BotTask \/ WriteCompletes \/ Network
  <2>1. UNCHANGED <<connection_strand, timer, connection>>
    BY <1>3 DEF Main, MainConnect, MainAuthorize, MainCapRequest, MainJoin, MainRead,
       Application, CallJoin, CallPart, CallDisconnect, CallSetChatBot, Call, SetChatBot,
       BotTask, ParseAndExecute, WriteCompletes, Network, handlerVars, clientVars
  <2>2. UNCHANGED reconnect_required
    BY <1>3 DEF Main, MainConnect, MainAuthorize, MainCapRequest, MainJoin, MainRead,
       Application, CallJoin, CallPart, CallDisconnect, CallSetChatBot,
       BotTask, ParseAndExecute, WriteCompletes, Network, Connect, Disconnect, WriteAuth, WriteCap, WriteJoin,
       WritePart, Write, AsyncWriteDone, NetworkBreaks, connVars
  <2> QED BY <1>1, <2>1, <2>2
<1>4. CASE ReadLoop
  <2>1. PICK r \in reads : ReadBytes(r) \/ ReadNothing(r) \/ OnReadParse(r)
                           \/ OnReadContinue(r)
    BY <1>4 DEF ReadLoop, ReadBytesAndError
  <2>2. ~reconnect_required[connection]
    BY DEF NoReconnectIsAsked, TypeOK, ClientTypeOK
  <2>3. UNCHANGED <<reconnect_required, connection_strand, timer, connection>>
    BY <2>1, <2>2 DEF ReadBytes, ReadNothing, OnReadParse, OnReadContinue,
       TakeReconnectRequired, connVars, handlerVars
  <2> QED BY <1>1, <2>3
<1>5. CASE ConnectionStrand
  <2>1. ~Reconnect
    BY <1>0, NextTaskReconnect DEF Reconnect, NoReconnectIsAsked, AtMostOne
  <2>2. UNCHANGED <<reconnect_required, timer, connection>>
    BY <1>5, <2>1 DEF ConnectionStrand, SwitchHandler, SendPong, AsyncWrite, connVars,
       clientVars
  <2>3. ReconnectQueued' = {}
    BY <1>0, <1>5, <2>1, NextTaskKeepsReconnect
    DEF ConnectionStrand, SwitchHandler, SendPong, NoReconnectIsAsked
  <2> QED BY <2>2, <2>3 DEF NoReconnectIsAsked
<1>6. ASSUME NEW c \in Conn, TimerHandler(c)
      PROVE  FALSE
  BY <1>6 DEF NoReconnectIsAsked, TimerHandler, TimerConnect, TimerUpdateConnection,
     TimerFlushBuffer, TimerAuthorize, TimerRead, TimerCapRequest, TimerJoin, TimerMoves
<1>7. CASE HandlerPool
  <2>1. PICK b \in pool : HandleMessage(b)
    BY <1>7 DEF HandlerPool
  <2>2. ReconnectQueued' = ReconnectQueued
    <3>1. CASE HandlePing(b)
      <4>1. [task |-> "SendPong", ping |-> <<b.id, b.next>>] \in Task
        BY DEF Task, TypeOK, HandlerTypeOK, Batch, MessageId
      <4> QED BY <1>0, <3>1, <4>1, DispatchOther DEF HandlePing
    <3>2. CASE UNCHANGED connection_strand
      BY <3>2 DEF ReconnectQueued
    <3> QED BY <2>1, <3>1, <3>2 DEF HandleMessage, HandleChat, HandleNickless, HandleOther
  <2>3. UNCHANGED <<reconnect_required, timer, connection>>
    BY <1>7 DEF HandlerPool, connVars, clientVars
  <2> QED BY <2>2, <2>3 DEF NoReconnectIsAsked
<1> QED BY <1>2, <1>3, <1>4, <1>5, <1>6, <1>7 DEF Next

(***************************************************************************)
(* The reconnect path of the client is dead code with a stream that        *)
(* reports errors without bytes.                                           *)
(***************************************************************************)
THEOREM NeverReconnectsHolds == Spec => []NeverReconnects
<1>1. CASE ErrorWithBytes
  <2>1. NeverReconnects
    BY <1>1 DEF NeverReconnects
  <2> QED BY <2>1, PTL
<1>2. CASE ~ErrorWithBytes
  <2>1. Init => NoReconnectIsAsked
    BY DEF Init, ConnectionInit, HandlerInit, NoReconnectIsAsked, ReconnectQueued
  <2>2. TypeOK /\ NoReconnectIsAsked /\ [Next]_vars => NoReconnectIsAsked'
    BY <1>2, NextAsksNoReconnect
  <2>3. NoReconnectIsAsked => NeverReconnects
    BY DEF NoReconnectIsAsked, NeverReconnects
  <2> QED BY <2>1, <2>2, <2>3, TypeCorrect, PTL DEF Spec
<1> QED BY <1>1, <1>2
===============================================================================
