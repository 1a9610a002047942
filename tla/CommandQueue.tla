---------------------------- MODULE CommandQueue ----------------------------
(***************************************************************************)
(* CCmdQueue and CDeferredCommand (ctlutil.cpp): commands that wait for    *)
(* their time, in presentation time or in stream time, for the thread that *)
(* asks for the one that is due and invokes it.                            *)
(*                                                                         *)
(* The methods of the queue take its lock; those of a command read and     *)
(* clear m_pQueue without it, so each of them is several steps.            *)
(***************************************************************************)
EXTENDS Integers, Sequences

CONSTANTS
  MaxCommands,  \* bound on the commands that are made
  MaxTime,      \* bound on the time of the clock
  MaxCalls,     \* bound on the other calls and on the failures of Invoke
  Offsets       \* the stream time offsets of Run

CommandAssumption ==
  MaxCommands \in Nat \ {0} /\ MaxTime \in Nat \ {0} /\ MaxCalls \in Nat /\ Offsets \subseteq Nat

Seqs == INSTANCE SequencesExt

VARIABLES
  now,          \* the time, by any clock
  calls,        \* how many of them so far
  lists,        \* m_listPresentation and m_listStream
  command,      \* what each command holds
  call,         \* the application's call of a method of each
  server,       \* the thread that invokes commands
  m_pClock, m_bRunning, m_StreamTimeOffset,
  m_dwAdvise,   \* is not zero
  m_tCurrentAdvise,
  m_evDue,
  advise,       \* external: the time at which the clock will set m_evDue, or 0
  crashed       \* a call was made through a pointer that is NULL or dangling

queue == <<m_pClock, m_bRunning, m_StreamTimeOffset>>
advice == <<m_dwAdvise, m_tCurrentAdvise, m_evDue, advise>>
vars == <<now, calls, lists, command, call, server, queue, advice, crashed>>

Lists == {"presentation", "stream"}
Ids == 1..MaxCommands
Times == 1..MaxTime
Unmade == [list |-> "presentation", time |-> 0, queued |-> FALSE, refs |-> 0, invoked |-> 0]
NoCall == [at |-> "none", time |-> 0]
Idle == [at |-> "look", cmd |-> 0, own |-> FALSE]

TypeOK ==
  /\ now \in 0..MaxTime /\ calls \in 0..MaxCalls
  /\ \A l \in Lists : \A i \in DOMAIN lists[l] : lists[l][i] \in Ids
  /\ \A c \in Ids :
       /\ command[c].list \in Lists /\ command[c].time \in Times \cup {0}
       /\ command[c].queued \in BOOLEAN
       /\ command[c].refs \in 0..3 /\ command[c].invoked \in Nat
       /\ call[c].at \in {"none", "new", "adopt", "held", "cancel", "clear", "postpone", "insert"}
       /\ call[c].time \in Times \cup {0}
  /\ server.at \in {"look", "wait", "check", "execute", "remove", "clear", "release"}
  /\ server.cmd \in Ids \cup {0} /\ server.own \in BOOLEAN
  /\ m_pClock \in BOOLEAN /\ m_bRunning \in BOOLEAN /\ m_StreamTimeOffset \in Offsets \cup {0}
  /\ m_dwAdvise \in BOOLEAN /\ m_evDue \in BOOLEAN
  /\ m_tCurrentAdvise \in Nat /\ advise \in Nat
  /\ crashed \in BOOLEAN

Init ==
  /\ now = 0 /\ calls = 0
  /\ lists = [l \in Lists |-> <<>>]
  /\ command = [c \in Ids |-> Unmade]
  /\ call = [c \in Ids |-> [NoCall EXCEPT !.at = "new"]]
  /\ server = Idle
  /\ m_pClock \in BOOLEAN /\ m_bRunning = FALSE /\ m_StreamTimeOffset = 0
  /\ m_dwAdvise = FALSE /\ m_tCurrentAdvise = 0 /\ m_evDue = FALSE /\ advise = 0
  /\ crashed = FALSE

-----------------------------------------------------------------------------
(* The queue.                                                              *)

\* The presentation time of the first command of a list.
DueAt(c) == command[c].time + IF command[c].list = "stream" THEN m_StreamTimeOffset ELSE 0

CheckTime(c) ==
  m_pClock /\ (command[c].list = "stream" => m_bRunning) /\ DueAt(c) <= now

\* The heads of the lists whose time is known.
Heads ==
  {lists[l][1] : l \in {k \in Lists : lists[k] # <<>> /\ (k = "stream" => m_bRunning)}}

\* Of two equal times the presentation time's command is first.
Earliest(c) ==
  /\ c \in Heads
  /\ \A d \in Heads :
       DueAt(c) < DueAt(d) \/ (DueAt(c) = DueAt(d) /\ (command[c].list = "presentation" \/ c = d))

\* With the new values of all else: the event is reset in any case, but the
\* clock is asked again only for another time, and never told to forget one.
SetTimeAdvise(advised) ==
  LET current == IF Heads' = {} THEN 0
                 ELSE CHOOSE t \in {DueAt(c)' : c \in Heads'} : \A c \in Heads' : t <= DueAt(c)'
  IN IF ~m_pClock'
     THEN UNCHANGED <<m_tCurrentAdvise, m_evDue>> /\ m_dwAdvise' = advised
          /\ advise' = IF advised THEN advise ELSE 0
     ELSE /\ m_evDue' = FALSE
          /\ IF current > 0 /\ current # m_tCurrentAdvise
             THEN m_dwAdvise' = TRUE /\ m_tCurrentAdvise' = current /\ advise' = current
             ELSE UNCHANGED m_tCurrentAdvise /\ m_dwAdvise' = advised
                  /\ advise' = IF advised THEN advise ELSE 0

\* Fault: a command goes to the end of its list.
InsertLast(c, l, time) ==
  /\ lists' = [lists EXCEPT ![l] = Append(@, c)]
  /\ command' = [command EXCEPT ![c].list = l, ![c].time = time, ![c].queued = @ \/ call[c].at = "new",
                                ![c].refs = @ + 1]

\* The place of a command of a time in a list: before the first one that is later.
Place(l, time) ==
  LET s == lists[l]
  IN  CHOOSE n \in 1..(Len(s) + 1) :
        /\ \A i \in 1..(n - 1) : command[s[i]].time <= time
        /\ n <= Len(s) => command[s[n]].time > time

Insert(c, l, time) ==
  /\ lists' = [lists EXCEPT ![l] = Seqs!InsertAt(@, Place(l, time), c)]
  /\ command' = [command EXCEPT ![c].list = l, ![c].time = time, ![c].queued = @ \/ call[c].at = "new",
                                ![c].refs = @ + 1]

In(c, l) == \E i \in DOMAIN lists[l] : lists[l][i] = c
InList(c) == In(c, command[c].list)

\* Remove, which does nothing (VFW_E_NOT_FOUND) when the command is not there.
Remove(c) ==
  IF InList(c)
  THEN /\ lists' = [lists EXCEPT ![command[c].list] = Seqs!RemoveAt(@, CHOOSE i \in DOMAIN @ : @[i] = c)]
       /\ command' = [command EXCEPT ![c].refs = @ - 1]
       /\ SetTimeAdvise(m_dwAdvise)
  ELSE UNCHANGED <<lists, command, advice>>

Counted == calls < MaxCalls /\ calls' = calls + 1

\* SetSyncSource withdraws the advise, but remembers its time.
SetSyncSource ==
  /\ Counted
  /\ \E clock \in BOOLEAN : m_pClock' = clock /\ (clock \/ m_pClock)
  /\ UNCHANGED <<now, lists, command, call, server, m_bRunning, m_StreamTimeOffset, crashed>>
  /\ SetTimeAdvise(m_dwAdvise /\ ~m_pClock)

Run ==
  /\ Counted
  /\ m_bRunning' = TRUE /\ m_StreamTimeOffset' \in Offsets
  /\ UNCHANGED <<now, lists, command, call, server, m_pClock, crashed>>
  /\ SetTimeAdvise(m_dwAdvise)

EndRun ==
  /\ m_bRunning /\ m_bRunning' = FALSE
  /\ UNCHANGED <<now, calls, lists, command, call, server, m_pClock, m_StreamTimeOffset, crashed>>
  /\ SetTimeAdvise(m_dwAdvise)

-----------------------------------------------------------------------------
(* The application, which makes commands and may call them back.           *)

\* One of its threads is within a call.
Free == \A c \in Ids : call[c].at \in {"new", "none", "held"}

\* Through a pointer that is no longer good.
Crash ==
  /\ crashed' = TRUE
  /\ UNCHANGED <<now, calls, lists, command, call, server, queue, advice>>

Go(c, at) == call' = [call EXCEPT ![c] = [@ EXCEPT !.at = at]]

\* New: the constructor inserts the command, when its executor and its method
\* are found.  The pointer comes without a reference.
New(c) ==
  /\ Free /\ call[c].at = "new" /\ \A d \in 1..(c - 1) : call[d].at # "new"
  /\ \/ \E l \in Lists, t \in Times :
          Insert(c, l, t) /\ Go(c, "adopt") /\ UNCHANGED queue /\ SetTimeAdvise(m_dwAdvise)
     \/ Go(c, "none") /\ UNCHANGED <<lists, command, queue, advice>>
  /\ UNCHANGED <<now, calls, server, crashed>>

\* The caller takes its reference, and keeps it.
Adopt(c) ==
  /\ call[c].at = "adopt"
  /\ IF command[c].refs = 0 THEN Crash
     ELSE /\ command' = [command EXCEPT ![c].refs = @ + 1]
          /\ Go(c, "held")
          /\ UNCHANGED <<now, calls, lists, server, queue, advice, crashed>>

\* Cancel: the look at m_pQueue, Remove, the end.
Cancel(c) ==
  /\ Counted
  /\ Free /\ call[c].at = "held" /\ command[c].queued
  /\ Go(c, "cancel")
  /\ UNCHANGED <<now, lists, command, server, queue, advice, crashed>>

CancelRemove(c) ==
  /\ call[c].at = "cancel"
  /\ IF ~command[c].queued THEN Crash
     ELSE /\ Go(c, IF InList(c) THEN "clear" ELSE "held")
          /\ UNCHANGED <<now, calls, server, queue, crashed>>
          /\ Remove(c)

CancelClear(c) ==
  /\ call[c].at = "clear"
  /\ command' = [command EXCEPT ![c].queued = FALSE]
  /\ Go(c, "held")
  /\ UNCHANGED <<now, calls, lists, server, queue, advice, crashed>>

\* Postpone: CheckTime, Remove, Insert.  It looks at no m_pQueue first.
Postpone(c, time) ==
  /\ Free /\ call[c].at = "held"
  /\ IF ~command[c].queued THEN Crash
     ELSE /\ Counted
          /\ ~ (m_pClock /\ (command[c].list = "stream" => m_bRunning)
                /\ time + (IF command[c].list = "stream" THEN m_StreamTimeOffset ELSE 0) <= now)
          /\ call' = [call EXCEPT ![c] = [at |-> "postpone", time |-> time]]
          /\ UNCHANGED <<now, lists, command, server, queue, advice, crashed>>

PostponeRemove(c) ==
  /\ call[c].at = "postpone"
  /\ IF ~command[c].queued THEN Crash
     ELSE /\ call' = [call EXCEPT ![c] = IF InList(c) THEN [@ EXCEPT !.at = "insert"]
                                         ELSE [at |-> "held", time |-> 0]]
          /\ UNCHANGED <<now, calls, server, queue, crashed>>
          /\ Remove(c)

PostponeInsert(c) ==
  /\ call[c].at = "insert"
  /\ IF ~command[c].queued THEN Crash
     ELSE /\ Insert(c, command[c].list, call[c].time)
          /\ call' = [call EXCEPT ![c] = [at |-> "held", time |-> 0]]
          /\ UNCHANGED <<now, calls, server, queue, crashed>>
          /\ SetTimeAdvise(m_dwAdvise)

-----------------------------------------------------------------------------
(* The thread that invokes commands.                                       *)

Serve(at) == server' = [server EXCEPT !.at = at]

\* A command is handed out, with a reference of its own.
Take(c) ==
  /\ server' = [at |-> "check", cmd |-> c, own |-> TRUE]
  /\ command' = [command EXCEPT ![c].refs = @ + 1]

\* One turn of the loop of GetDueCommand.
GetDueCommand ==
  /\ server.at = "look"
  /\ IF \E c \in Ids : Earliest(c) /\ CheckTime(c)
     THEN \E c \in Ids : Earliest(c) /\ CheckTime(c) /\ Take(c)
     ELSE Serve("wait") /\ UNCHANGED command
  /\ UNCHANGED <<now, calls, lists, call, queue, advice, crashed>>

WaitDue ==
  /\ server.at = "wait" /\ m_evDue
  /\ Serve("look")
  /\ UNCHANGED <<now, calls, lists, command, call, queue, advice, crashed>>

\* E_ABORT, after which the thread calls again.
TimedOut ==
  /\ server.at = "wait"
  /\ Serve("look")
  /\ UNCHANGED <<now, calls, lists, command, call, queue, advice, crashed>>

\* For a thread that asks for what is due at a stream time: the third kind of
\* command is handed out without a reference.
GetCommandDueFor(tStream) ==
  LET first(l) == IF lists[l] = <<>> THEN {} ELSE {lists[l][1]}
      present == {c \in first("presentation") : CheckTime(c)}
      stream == {c \in first("stream") : command[c].time <= tStream}
      early == {c \in first("presentation") :
                  m_bRunning /\ command[c].time <= tStream + m_StreamTimeOffset}
  IN
  /\ server.at = "look"
  /\ \/ \E c \in present : Take(c)
     \/ present = {} /\ \E c \in stream : Take(c)
     \/ /\ present = {} /\ stream = {}
        /\ \E c \in early : server' = [at |-> "check", cmd |-> c, own |-> FALSE]
        /\ UNCHANGED command
  /\ UNCHANGED <<now, calls, lists, call, queue, advice, crashed>>

\* Invoke: the look at m_pQueue, the method, Remove, the end.
InvokeCheck ==
  /\ server.at = "check"
  /\ Serve(IF command[server.cmd].queued THEN "execute" ELSE "release")
  /\ UNCHANGED <<now, calls, lists, command, call, queue, advice, crashed>>

InvokeExecute ==
  /\ server.at = "execute"
  /\ command' = [command EXCEPT ![server.cmd].invoked = @ + 1]
  /\ Serve("remove")
  /\ UNCHANGED <<now, calls, lists, call, queue, advice, crashed>>

\* The executor no longer has the method's interface: the command stays.
InvokeFails ==
  /\ Counted
  /\ server.at = "execute"
  /\ Serve("release")
  /\ UNCHANGED <<now, lists, command, call, queue, advice, crashed>>

InvokeRemove ==
  /\ server.at = "remove"
  /\ IF ~command[server.cmd].queued THEN Crash
     ELSE Serve("clear") /\ UNCHANGED <<now, calls, call, queue, crashed>> /\ Remove(server.cmd)

InvokeClear ==
  /\ server.at = "clear"
  /\ command' = [command EXCEPT ![server.cmd].queued = FALSE]
  /\ Serve("release")
  /\ UNCHANGED <<now, calls, lists, call, queue, advice, crashed>>

\* The thread releases what it was handed.  A reference that it was not given is
\* somebody else's.
ServerRelease ==
  /\ server.at = "release"
  /\ IF ~server.own THEN Crash
     ELSE /\ command' = [command EXCEPT ![server.cmd].refs = @ - 1]
          /\ server' = Idle
          /\ UNCHANGED <<now, calls, lists, call, queue, advice, crashed>>

-----------------------------------------------------------------------------
(* The clock: external, see Clock.                                         *)

Tick ==
  /\ now < MaxTime /\ now' = now + 1
  /\ UNCHANGED <<calls, lists, command, call, server, queue, advice, crashed>>

ClockFires ==
  /\ advise > 0 /\ advise <= now
  /\ m_evDue' = TRUE /\ advise' = 0
  /\ UNCHANGED <<now, calls, lists, command, call, server, queue, m_dwAdvise, m_tCurrentAdvise, crashed>>

-----------------------------------------------------------------------------
Application ==
  \E c \in Ids :
    \/ New(c) \/ Adopt(c) \/ Cancel(c) \/ CancelRemove(c) \/ CancelClear(c)
    \/ (\E t \in Times : Postpone(c, t)) \/ PostponeRemove(c) \/ PostponeInsert(c)

Returns == \E c \in Ids : CancelRemove(c) \/ CancelClear(c) \/ PostponeRemove(c) \/ PostponeInsert(c)

Invoke == InvokeCheck \/ InvokeExecute \/ InvokeRemove \/ InvokeClear \/ ServerRelease

Server == GetDueCommand \/ WaitDue \/ TimedOut \/ Invoke

\* After a crash there is nothing more to say.
Next ==
  \/ ~crashed /\ (\/ SetSyncSource \/ Run \/ EndRun \/ Application \/ Server \/ InvokeFails
                  \/ (\E t \in Times : GetCommandDueFor(t)) \/ Tick \/ ClockFires)
  \/ crashed /\ UNCHANGED vars

Spec == Init /\ [][Next]_vars

-----------------------------------------------------------------------------
(* Properties.                                                             *)

\* The lists are in the order of time and hold each command once.
Sorted ==
  \A l \in Lists : \A i, j \in DOMAIN lists[l] :
    i < j => lists[l][i] # lists[l][j] /\ command[lists[l][i]].time <= command[lists[l][j]].time

\* A command's references are those of the list, of the caller and of the
\* thread that was given one.
References ==
  \A c \in Ids :
    command[c].refs = (IF In(c, "presentation") THEN 1 ELSE 0) + (IF In(c, "stream") THEN 1 ELSE 0)
                      + (IF call[c].at \in {"none", "new", "adopt"} THEN 0 ELSE 1)
                      + (IF server.cmd = c /\ server.own THEN 1 ELSE 0)

\* A command is invoked once, whoever cancels or postpones it meanwhile.
InvokedOnce == \A c \in Ids : command[c].invoked <= 1

\* What GetDueCommand hands out is due, and nothing that is due comes before it.
EarliestFirst ==
  [][\A c \in Ids : server.at = "look" /\ server'.cmd = c /\ server'.own /\ GetDueCommand =>
       \A d \in Ids : InList(d) /\ CheckTime(d) => CheckTime(c) /\ DueAt(c) <= DueAt(d)]_vars

\* "return the event handle that will be signalled whenever there are deferred
\* commands due for execution": it is, or the clock is about to signal it.
DueIsSignalled ==
  (\E c \in Heads : CheckTime(c)) => m_evDue \/ (advise > 0 /\ advise <= now)

=============================================================================
