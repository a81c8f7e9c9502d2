------------------------------- MODULE EventBus -------------------------------
(***************************************************************************)
(* The event log of one workflow (packages/workflow_events.py) and the     *)
(* streams that show it in the console (GET /{id}/events/stream,           *)
(* apps/api/routes/workflows.py).  An event is its id.                     *)
(*                                                                         *)
(* Everything but waiting for a client is synchronous, so an operation is  *)
(* one step; subscribing stops for ever once the queue is full, since its  *)
(* reader starts only afterwards.                                          *)
(*                                                                         *)
(* The file may fail: an error on writing or reading it is swallowed, and a*)
(* line that cannot be read hides all the others.                          *)
(***************************************************************************)
EXTENDS Integers, Sequences, SequencesExt, FiniteSets

CONSTANTS Clients,
          BufferLimit,      \* MAX_BUFFER
          QueueLimit,       \* maxsize of a subscriber's queue
          EventFaults,      \* what may fail: "write", "read"
          MaxEvents, MaxRestarts

ASSUME EventLimits ==
  {BufferLimit, QueueLimit, MaxEvents} \subseteq Nat \ {0} /\ MaxRestarts \in Nat

VARIABLES
  log,         \* the lines of the workflow's file, Torn for a broken one
  buffer,      \* _buffers[workflow]
  counter,     \* _counters[workflow]
  stream,      \* the connection of each client
  lastId,      \* what a client sends as Last-Event-ID
  issued,      \* history: the ids given to events, in order
  before,      \* history: how many of them before the last restart
  failed,      \* history: a write was lost, or a read did not show the file
  restarts

history   == <<issued, before, failed>>
eventVars == <<log, buffer, counter, stream, lastId, history, restarts>>

Torn == 0

(* The rest is history, since the page was loaded: what the client has got *)
(* and what its full queue refused, and whether it was cut off from an     *)
(* event older than its Last-Event-ID; owed is what the connection owes.   *)
Closed == [state |-> "closed", queue |-> <<>>, backlog |-> <<>>,
           owed |-> {}, got |-> {}, dropped |-> {}, behind |-> FALSE]

EventInit ==
  /\ log = <<>> /\ buffer = <<>> /\ counter = 0
  /\ stream = [c \in Clients |-> Closed]
  /\ lastId = [c \in Clients |-> 0]
  /\ issued = <<>> /\ before = 0 /\ failed = FALSE /\ restarts = 0

-----------------------------------------------------------------------------

LastOf(s, n) == IF Len(s) <= n THEN s ELSE SubSeq(s, Len(s) - n + 1, Len(s))

Highest(s) == IF s = <<>> THEN 0 ELSE Max(ToSet(s))

(* The members of S in s, in their order: SelectSeq, in a form that proofs *)
(* can open.                                                               *)
Only(s, S) ==
  LET places == {i \in DOMAIN s : s[i] \in S}
  IN [k \in 1..Cardinality(places) |->
        s[CHOOSE i \in places : Cardinality({j \in places : j <= i}) = k]]

Later(s, id) == Only(s, {e \in ToSet(s) : e > id})

(* _load_persisted_events                                                  *)
Persisted == IF Torn \in ToSet(log) THEN <<>> ELSE LastOf(log, BufferLimit)

Reads == {Persisted} \union (IF "read" \in EventFaults THEN {<<>>} ELSE {})

(* Whether a read hid something.                                           *)
Hidden(file) == file # LastOf(log, BufferLimit)

(* _persist_event: what the file may be afterwards.                        *)
Written(id) ==
  {Append(log, id)} \union
  (IF "write" \in EventFaults THEN {log, Append(log, Torn)} ELSE {})

(* Mutant of NextId: the counter is not raised from the file.              *)
NextIdFresh(file) == counter + 1

(* _ensure_counter_from_persisted, then one more                           *)
NextId(file) == (IF counter = 0 THEN Highest(file) ELSE counter) + 1

(* emit reaches every queue that is registered, unless it is full.         *)
Registered(c) == stream[c].state \in {"open", "hung"}

Published(c, id) ==
  IF ~Registered(c) THEN stream[c]
  ELSE IF Len(stream[c].queue) < QueueLimit
    THEN [stream[c] EXCEPT !.owed = @ \union {id}, !.queue = Append(@, id)]
    ELSE [stream[c] EXCEPT !.owed = @ \union {id}, !.dropped = @ \union {id}]

Emit ==
  /\ Len(issued) < MaxEvents
  /\ \E file \in Reads :
       LET id == NextId(file) IN
       /\ counter' = id
       /\ issued' = Append(issued, id)
       /\ buffer' = LastOf(Append(buffer, id), BufferLimit)
       /\ log' \in Written(id)
       /\ failed' = (failed \/ (counter = 0 /\ Hidden(file)) \/ log' # Append(log, id))
       /\ stream' = [c \in Clients |-> Published(c, id)]
  /\ UNCHANGED <<lastId, before, restarts>>

(* Mutant of Merged: what is in memory is all there is.                    *)
MergedOnlyMemory(file) == IF buffer = <<>> THEN file ELSE buffer

(* get_events: lines of the file that are not in memory are appended.      *)
Merged(file) ==
  IF buffer = <<>> THEN file
  ELSE LastOf(buffer \o Only(file, ToSet(file) \ ToSet(buffer)), BufferLimit)

Load(file) ==
  /\ buffer' = Merged(file)
  /\ counter' = Max({counter, Highest(file)})
  /\ failed' = (failed \/ Hidden(file))

(* GET /{id}/events, the fallback by polling                               *)
Poll ==
  /\ \E file \in Reads : Load(file)
  /\ UNCHANGED <<log, stream, lastId, issued, before, restarts>>

(* What a connection owes the client: all that the file shows, and what is *)
(* older than its Last-Event-ID because it must have got that.  Nobody can *)
(* tell what that is once the file has failed or it was cut off behind.    *)
Owed(c, file) ==
  IF failed' \/ stream[c].behind THEN {e \in ToSet(file) : e > lastId[c]} ELSE ToSet(file)

(* The stream is opened: subscribe replays the buffer into the new queue,  *)
(* then get_events makes the backlog that is sent before the queue.        *)
Connect(c) ==
  /\ stream[c].state = "closed"
  /\ LET replay == Later(buffer, lastId[c])
     IN \/ /\ Len(replay) <= QueueLimit
           /\ \E file \in Reads :
                /\ Load(file)
                /\ stream' = [stream EXCEPT ![c] =
                     [@ EXCEPT !.state = "open", !.queue = replay,
                               !.backlog = Later(Merged(file), lastId[c]),
                               !.owed = Owed(c, file)]]
        \/ /\ Len(replay) > QueueLimit
           /\ stream' = [stream EXCEPT ![c] =
                [@ EXCEPT !.state = "hung", !.queue = SubSeq(replay, 1, QueueLimit)]]
           /\ UNCHANGED <<buffer, counter, failed>>
  /\ UNCHANGED <<log, lastId, issued, before, restarts>>

(* The generator yields: the backlog first, then what the queue holds.     *)
Send(c) ==
  /\ stream[c].state = "open"
  /\ \E from \in {"backlog", "queue"} :
       /\ stream[c][from] # <<>>
       /\ from = "queue" => stream[c].backlog = <<>>
       /\ lastId' = [lastId EXCEPT ![c] = Head(stream[c][from])]
       /\ stream' = [stream EXCEPT ![c][from] = Tail(@),
                                   ![c].got = @ \union {Head(stream[c][from])}]
  /\ UNCHANGED <<log, buffer, counter, history, restarts>>

(* What is left of a connection that ends: a backlog may be out of order,  *)
(* and the client asks from the last id it got.                            *)
CutOff(c) ==
  LET s == stream[c]
      waiting == (ToSet(s.backlog) \union ToSet(s.queue)) \ s.got
  IN [Closed EXCEPT !.got = s.got, !.dropped = s.dropped,
        !.behind = s.behind \/ (s.state = "open" /\ \E e \in waiting : e < lastId[c])]

(* The client leaves, and comes back later with its Last-Event-ID or as a  *)
(* new one (LogConsole.vue opens another EventSource after an error); the  *)
(* queue of one that hung stays registered.                                *)
Disconnect(c) ==
  /\ stream[c].state = "open"
  /\ \/ stream' = [stream EXCEPT ![c] = CutOff(c)] /\ UNCHANGED lastId
     \/ stream' = [stream EXCEPT ![c] = Closed] /\ lastId' = [lastId EXCEPT ![c] = 0]
  /\ UNCHANGED <<log, buffer, counter, history, restarts>>

EventRestart ==
  /\ restarts < MaxRestarts
  /\ restarts' = restarts + 1
  /\ buffer' = <<>> /\ counter' = 0
  /\ stream' = [c \in Clients |-> CutOff(c)]
  /\ before' = Len(issued)
  /\ UNCHANGED <<log, lastId, issued, failed>>

EventNext ==
  \/ Emit \/ Poll \/ EventRestart
  \/ \E c \in Clients : Connect(c) \/ Send(c) \/ Disconnect(c)

EventSpec == EventInit /\ [][EventNext]_eventVars

-----------------------------------------------------------------------------

EventTypeOK ==
  /\ log \in Seq(Nat) /\ buffer \in Seq(Nat) /\ Len(buffer) <= BufferLimit
  /\ counter \in Nat /\ issued \in Seq(Nat) /\ before \in 0..Len(issued)
  /\ failed \in BOOLEAN
  /\ \A c \in Clients :
       /\ stream[c].state \in {"closed", "open", "hung"}
       /\ Len(stream[c].queue) <= QueueLimit
       /\ lastId[c] \in stream[c].got \union {0}

(* An id names one event, with a buffer that forgets, and through restarts *)
(* unless the file has failed: a client's Last-Event-ID would otherwise    *)
(* skip new events.  Whatever fails, no id comes again before a restart.   *)
IdsNeverReused ==
  [][issued' # issued =>
       \A i \in DOMAIN issued : i > before \/ ~failed' =>
         issued[i] < issued'[Len(issued')]]_eventVars

(* Whatever the file showed when a client connected, and every event since,*)
(* the client has or will get, unless its queue was full when it came; this*)
(* holds over reconnections too, but see Owed.                             *)
NothingSkipped ==
  \A c \in Clients : stream[c].state = "open" =>
    LET s == stream[c]
    IN s.owed \ s.dropped \subseteq s.got \union ToSet(s.backlog) \union ToSet(s.queue)

(* The console's log is a live stream ("SSE stream of workflow log events",*)
(* apps/api/routes/workflows.py:759): a connection starts to send.         *)
StreamsStart == \A c \in Clients : stream[c].state # "hung"
=============================================================================
