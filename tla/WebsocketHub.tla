---------------------------- MODULE WebsocketHub ----------------------------
(***************************************************************************)
(* The WebSocket hub (api/websocket/wshub.go, wsclient.go): one goroutine  *)
(* of the hub, one per room, two pumps per client, and the goroutines that *)
(* send messages.  They meet in unbuffered channels, so a sender waits     *)
(* until the receiver is back at its select; only a client's queue has a   *)
(* buffer.  A message is the number it has in its room.                    *)
(***************************************************************************)
EXTENDS Naturals, Sequences, FiniteSets

CONSTANTS
    Sockets,        \* clients; each connects once
    Senders,        \* goroutines that publish output, status or a command's answer
    Capacity,       \* the buffer of wsClient.send
    CacheSize,      \* ConsoleCacheSize
    Rooms,          \* names of rooms, "gamelog" among them
    Wanted,         \* the rooms each client asks for
    MaxMessages,    \* bound: messages for each room
    NoSocket

ASSUME HubConstants ==
    /\ IsFiniteSet(Sockets) /\ NoSocket \notin Sockets
    /\ Capacity \in Nat \ {0} /\ CacheSize \in Nat \ {0} 
    /\ "gamelog" \in Rooms /\ IsFiniteSet(Rooms)
    /\ Wanted \in [Sockets -> SUBSET Rooms] /\ MaxMessages \in [Rooms -> Nat]

VARIABLES
    capable,        \* what allowCommands answers for a client: a current administrator
    reader,         \* readPump (and ServeWs before it): its step and room
    writer,         \* writePump
    conn,           \* the connection: not there yet, open, closed
    queue,          \* wsClient.send
    clients,        \* wsHub.clients
    leaving,        \* the client that removeClient works on, and the rooms left
    rooms,          \* the keys of wsHub.rooms
    members,        \* wsRoom.clients
    task,           \* what the goroutine of a room is doing
    sender,         \* what a sender is doing, and for which room
    sent,           \* messages accepted by each room
    cache,          \* LogCache
    heard,          \* messages queued for a client since it joined (history)
    limit           \* the last message of the log a revoked client may get (history)

clientVars == <<capable, reader, writer, conn, queue, heard, limit>>
hubVars    == <<clients, leaving, rooms>>
roomVars   == <<members, task, sent, cache>>
wsVars     == <<clientVars, hubVars, roomVars, sender>>

Free  == [kind |-> "select", client |-> NoSocket, todo |-> {}, next |-> 1]

HubTypeOK ==
    /\ capable \in [Sockets -> BOOLEAN]
    /\ reader \in [Sockets -> [step : {"none", "register", "read", "find", "create", "join", "leave",
                                       "unregister", "gone"},
                               room : Rooms, wish : {"join", "leave"}]]
    /\ writer \in [Sockets -> {"none", "running", "gone"}]
    /\ conn \in [Sockets -> {"none", "open", "closed"}]
    /\ \A c \in Sockets : Len(queue[c]) <= Capacity
    /\ clients \subseteq Sockets
    /\ leaving \in [client : Sockets \cup {NoSocket}, todo : SUBSET Rooms]
    /\ rooms \subseteq Rooms
    /\ members \in [Rooms -> SUBSET Sockets]
    /\ task \in [Rooms -> [kind : {"select", "admit", "replay", "deliver", "queue"},
                           client : Sockets \cup {NoSocket}, todo : SUBSET Sockets, next : Nat]]
    /\ sender \in [Senders -> [step : {"idle", "find", "create", "send"}, room : Rooms]]
    /\ \A r \in Rooms : sent[r] \in 0..MaxMessages[r]
    /\ Len(cache) <= CacheSize
    /\ limit \in [Sockets -> Nat]

HubInit ==
    /\ capable = [c \in Sockets |-> TRUE]
    /\ reader = [c \in Sockets |-> [step |-> "none", room |-> "gamelog", wish |-> "join"]]
    /\ writer = [c \in Sockets |-> "none"]
    /\ conn = [c \in Sockets |-> "none"]
    /\ queue = [c \in Sockets |-> <<>>]
    /\ clients = {} /\ leaving = [client |-> NoSocket, todo |-> {}] /\ rooms = {}
    /\ members = [r \in Rooms |-> {}] /\ task = [r \in Rooms |-> Free]
    /\ sender = [s \in Senders |-> [step |-> "idle", room |-> "gamelog"]]
    /\ sent = [r \in Rooms |-> 0] /\ cache = <<>>
    /\ heard = [c \in Sockets |-> [r \in Rooms |-> <<>>]]
    /\ limit = [c \in Sockets |-> 0]

----------------------------------------------------------------------------
(* The account of a client is deleted or changes its password              *)

Revoke(c) ==
    /\ capable[c]
    /\ capable' = [capable EXCEPT ![c] = FALSE]
    /\ limit' = [limit EXCEPT ![c] = sent["gamelog"]]
    /\ UNCHANGED <<reader, writer, conn, queue, heard, hubVars, roomVars, sender>>

\* maySubscribeRoom: the log is for administrators.
MaySubscribe(c, r) == r # "gamelog" \/ capable[c]

----------------------------------------------------------------------------
(* A client: ServeWs, readPump, writePump                                  *)

ReaderGoes(c, step) == reader' = [reader EXCEPT ![c].step = step]
ReaderBack(c) == reader' = [reader EXCEPT ![c] = [step |-> "read", room |-> "gamelog", wish |-> "join"]]

ServeWs(c) ==
    /\ reader[c].step = "none"
    /\ ReaderGoes(c, "register") /\ conn' = [conn EXCEPT ![c] = "open"]
    /\ UNCHANGED <<capable, writer, queue, heard, limit, hubVars, roomVars, sender>>

\* The connection ends: the peer leaves, or does not answer for pongWait.
Disconnect(c) ==
    /\ conn[c] = "open"
    /\ conn' = [conn EXCEPT ![c] = "closed"]
    /\ UNCHANGED <<capable, reader, writer, queue, heard, limit, hubVars, roomVars, sender>>

ReadError(c) ==
    /\ reader[c].step = "read" /\ conn[c] = "closed"
    /\ ReaderGoes(c, "unregister")
    /\ UNCHANGED <<capable, writer, conn, queue, heard, limit, hubVars, roomVars, sender>>

ReadSubscribe(c, r) ==
    /\ reader[c].step = "read" /\ conn[c] = "open" /\ MaySubscribe(c, r)
    /\ reader' = [reader EXCEPT ![c] = [step |-> "find", room |-> r, wish |-> "join"]]
    /\ UNCHANGED <<capable, writer, conn, queue, heard, limit, hubVars, roomVars, sender>>

ReadUnsubscribe(c, r) ==
    /\ reader[c].step = "read" /\ conn[c] = "open"
    /\ reader' = [reader EXCEPT ![c] = [step |-> "find", room |-> r, wish |-> "leave"]]
    /\ UNCHANGED <<capable, writer, conn, queue, heard, limit, hubVars, roomVars, sender>>

\* A command starts a goroutine whose answer is sent to the log.
ReadCommand(c, s) ==
    /\ reader[c].step = "read" /\ conn[c] = "open" /\ capable[c]
    /\ sender[s].step = "idle"
    /\ sender' = [sender EXCEPT ![s] = [step |-> "find", room |-> "gamelog"]]
    /\ UNCHANGED <<clientVars, hubVars, roomVars>>

\* GetRoom: looked up under the read lock, and again under the write lock
\* before a room is made; a room made twice would lose its members.
Looked(r, found) == IF r \in rooms THEN found ELSE "create"

\* Mutant of MakeRoom: no second look under the write lock.
MakeRoomAgain(r) ==
    /\ rooms' = rooms \cup {r}
    /\ members' = [members EXCEPT ![r] = {}]
    /\ task' = [task EXCEPT ![r] = Free]

MakeRoom(r) ==
    IF r \in rooms THEN UNCHANGED <<rooms, members, task>>
    ELSE /\ rooms' = rooms \cup {r}
         /\ members' = [members EXCEPT ![r] = {}]
         /\ task' = [task EXCEPT ![r] = Free]

ReaderFindsRoom(c) ==
    /\ reader[c].step = "find"
    /\ ReaderGoes(c, Looked(reader[c].room, reader[c].wish))
    /\ UNCHANGED <<capable, writer, conn, queue, heard, limit, hubVars, roomVars, sender>>

ReaderMakesRoom(c) ==
    /\ reader[c].step = "create"
    /\ MakeRoom(reader[c].room)
    /\ ReaderGoes(c, reader[c].wish)
    /\ UNCHANGED <<capable, writer, conn, queue, heard, limit, clients, leaving, sent, cache, sender>>

\* writePump sends what is queued; an error, or a ping after the end of the
\* connection, ends it.
WriteMessage(c) ==
    /\ writer[c] = "running" /\ conn[c] = "open" /\ queue[c] # <<>>
    /\ queue' = [queue EXCEPT ![c] = Tail(@)]
    /\ UNCHANGED <<capable, reader, writer, conn, heard, limit, hubVars, roomVars, sender>>

WriteError(c) ==
    /\ writer[c] = "running" /\ conn[c] = "closed"
    /\ writer' = [writer EXCEPT ![c] = "gone"]
    /\ UNCHANGED <<capable, reader, conn, queue, heard, limit, hubVars, roomVars, sender>>

----------------------------------------------------------------------------
(* The hub                                                                 *)

HubFree == leaving.client = NoSocket

HubRegisters(c) ==
    /\ HubFree /\ reader[c].step = "register"
    /\ clients' = clients \cup {c}
    /\ ReaderGoes(c, "read") /\ writer' = [writer EXCEPT ![c] = "running"]
    /\ UNCHANGED <<capable, conn, queue, heard, limit, leaving, rooms, roomVars, sender>>

\* removeClient: out of the hub, the connection closed, and then one room
\* after the other is asked to forget the client.
HubUnregisters(c) ==
    /\ HubFree /\ reader[c].step = "unregister"
    /\ ReaderGoes(c, "gone")
    /\ conn' = [conn EXCEPT ![c] = "closed"]
    /\ IF c \in clients
       THEN /\ clients' = clients \ {c}
            /\ leaving' = [client |-> c, todo |-> rooms]
       ELSE UNCHANGED <<clients, leaving>>
    /\ UNCHANGED <<capable, writer, queue, heard, limit, rooms, roomVars, sender>>

HubForgot ==
    /\ ~HubFree /\ leaving.todo = {}
    /\ leaving' = [leaving EXCEPT !.client = NoSocket]
    /\ UNCHANGED <<clientVars, clients, rooms, roomVars, sender>>

----------------------------------------------------------------------------
(* A room                                                                  *)

RoomFree(r) == r \in rooms /\ task[r].kind = "select"

Forget(r, c) ==
    /\ members' = [members EXCEPT ![r] = @ \ {c}]
    /\ heard' = [heard EXCEPT ![c][r] = <<>>]

RoomReceivesJoin(r, c) ==
    /\ RoomFree(r) /\ reader[c].step = "join" /\ reader[c].room = r
    /\ ReaderBack(c)
    /\ task' = [task EXCEPT ![r] = [Free EXCEPT !.kind = "admit", !.client = c]]
    /\ UNCHANGED <<capable, writer, conn, queue, heard, limit, hubVars, members, sent, cache, sender>>

\* The capability is tested again; the log replays its cache first.
RoomAdmits(r) ==
    /\ task[r].kind = "admit"
    /\ LET c == task[r].client IN
       IF MaySubscribe(c, r)
       THEN /\ members' = [members EXCEPT ![r] = @ \cup {c}]
            /\ heard' = [heard EXCEPT ![c][r] = <<>>]
            /\ task' = [task EXCEPT ![r] = IF r = "gamelog" THEN [@ EXCEPT !.kind = "replay"] ELSE Free]
       ELSE /\ task' = [task EXCEPT ![r] = Free]
            /\ UNCHANGED <<members, heard>>
    /\ UNCHANGED <<capable, reader, writer, conn, queue, limit, hubVars, sent, cache, sender>>

\* Mutant of Offer: the queue grows.
OfferAlways(r, c, message) ==
    /\ queue' = [queue EXCEPT ![c] = Append(@, <<r, message>>)]
    /\ heard' = [heard EXCEPT ![c][r] = Append(@, message)]
    /\ UNCHANGED members

\* A queue that is full costs the client its place in the room, never the room
\* its progress.
Offer(r, c, message) ==
    IF Len(queue[c]) < Capacity
    THEN /\ queue' = [queue EXCEPT ![c] = Append(@, <<r, message>>)]
         /\ heard' = [heard EXCEPT ![c][r] = Append(@, message)]
         /\ UNCHANGED members
    ELSE Forget(r, c) /\ UNCHANGED queue

RoomReplays(r) ==
    /\ task[r].kind = "replay"
    /\ IF task[r].next > Len(cache)
       THEN /\ task' = [task EXCEPT ![r] = Free]
            /\ UNCHANGED <<queue, heard, members>>
       ELSE /\ Offer(r, task[r].client, cache[task[r].next])
            /\ task' = [task EXCEPT ![r] = IF Len(queue[task[r].client]) < Capacity
                                           THEN [@ EXCEPT !.next = task[r].next + 1] ELSE Free]
    /\ UNCHANGED <<capable, reader, writer, conn, limit, hubVars, sent, cache, sender>>

\* A client asks to leave, or the hub takes it out.
RoomReceivesLeave(r) ==
    /\ RoomFree(r)
    /\ \/ \E c \in Sockets :
            /\ reader[c].step = "leave" /\ reader[c].room = r
            /\ ReaderBack(c) /\ Forget(r, c)
            /\ UNCHANGED leaving
       \/ /\ r \in leaving.todo
          /\ leaving' = [leaving EXCEPT !.todo = @ \ {r}]
          /\ Forget(r, leaving.client)
          /\ UNCHANGED reader
    /\ UNCHANGED <<capable, writer, conn, queue, limit, clients, rooms, task, sent, cache, sender>>

RoomReceivesMessage(r, s) ==
    /\ RoomFree(r) /\ sender[s].step = "send" /\ sender[s].room = r
    /\ sent[r] < MaxMessages[r]
    /\ sent' = [sent EXCEPT ![r] = @ + 1]
    /\ sender' = [sender EXCEPT ![s] = [step |-> "idle", room |-> "gamelog"]]
    /\ task' = [task EXCEPT ![r] = [Free EXCEPT !.kind = "deliver", !.todo = members[r]]]
    /\ UNCHANGED <<clientVars, hubVars, members, cache>>

\* Mutant of RoomChecks: the capability is not tested again.
RoomTrusts(r, c) ==
    /\ task[r].kind = "deliver" /\ c \in task[r].todo
    /\ task' = [task EXCEPT ![r].kind = "queue", ![r].client = c, ![r].todo = @ \ {c}]
    /\ UNCHANGED <<members, heard>>
    /\ UNCHANGED <<capable, reader, writer, conn, queue, limit, hubVars, sent, cache, sender>>

\* For every member the capability is tested again ...
RoomChecks(r, c) ==
    /\ task[r].kind = "deliver" /\ c \in task[r].todo
    /\ IF MaySubscribe(c, r)
       THEN /\ task' = [task EXCEPT ![r].kind = "queue", ![r].client = c, ![r].todo = @ \ {c}]
            /\ UNCHANGED <<members, heard>>
       ELSE /\ task' = [task EXCEPT ![r].todo = @ \ {c}]
            /\ Forget(r, c)
    /\ UNCHANGED <<capable, reader, writer, conn, queue, limit, hubVars, sent, cache, sender>>

\* Mutant of MayQueue: the room waits for a place in the queue.
MayQueueInPlace(r) == task[r].kind = "queue" /\ Len(queue[task[r].client]) < Capacity

\* The room does not wait for a place in the queue: the select has a default.
MayQueue(r) == task[r].kind = "queue"

\* ... before the message is offered.
RoomQueues(r) ==
    /\ MayQueue(r)
    /\ Offer(r, task[r].client, sent[r])
    /\ task' = [task EXCEPT ![r].kind = "deliver", ![r].client = NoSocket]
    /\ UNCHANGED <<capable, reader, writer, conn, limit, hubVars, sent, cache, sender>>

\* The log keeps the newest lines.
Trimmed(lines) == IF Len(lines) > CacheSize THEN Tail(lines) ELSE lines

RoomDelivered(r) ==
    /\ task[r].kind = "deliver" /\ task[r].todo = {}
    /\ task' = [task EXCEPT ![r] = Free]
    /\ cache' = IF r = "gamelog" THEN Trimmed(Append(cache, sent[r])) ELSE cache
    /\ UNCHANGED <<clientVars, hubVars, members, sent, sender>>

----------------------------------------------------------------------------
(* A sender: GetRoom(r).Send                                               *)

SenderGoes(s, step) == sender' = [sender EXCEPT ![s].step = step]

PublishTo(s, r) ==
    /\ sender[s].step = "idle" /\ sent[r] < MaxMessages[r]
    /\ sender' = [sender EXCEPT ![s] = [step |-> "find", room |-> r]]
    /\ UNCHANGED <<clientVars, hubVars, roomVars>>

SenderFindsRoom(s) ==
    /\ sender[s].step = "find"
    /\ SenderGoes(s, Looked(sender[s].room, "send"))
    /\ UNCHANGED <<clientVars, hubVars, roomVars>>

SenderMakesRoom(s) ==
    /\ sender[s].step = "create"
    /\ MakeRoom(sender[s].room) /\ SenderGoes(s, "send")
    /\ UNCHANGED <<clientVars, clients, leaving, sent, cache>>

----------------------------------------------------------------------------

ClientWorks(c) ==
    \/ ReadError(c) \/ ReaderFindsRoom(c) \/ ReaderMakesRoom(c) \/ WriteMessage(c)
    \/ WriteError(c)

ClientAsks(c) ==
    \/ ServeWs(c) \/ Disconnect(c) \/ Revoke(c)
    \/ \E r \in Wanted[c] : ReadSubscribe(c, r) \/ ReadUnsubscribe(c, r)
    \/ \E s \in Senders : ReadCommand(c, s)

RoomWorks(r) ==
    \/ RoomAdmits(r) \/ RoomReplays(r) \/ RoomQueues(r) \/ RoomDelivered(r)
    \/ \E c \in Sockets : RoomChecks(r, c)

SenderWorks(s) == SenderFindsRoom(s) \/ SenderMakesRoom(s)

\* What the goroutines do without being asked.
HubWorks ==
    \/ \E c \in Sockets : ClientWorks(c) \/ HubRegisters(c) \/ HubUnregisters(c)
    \/ HubForgot
    \/ \E r \in Rooms :
         \/ RoomWorks(r) \/ RoomReceivesLeave(r)
         \/ \E c \in Sockets : RoomReceivesJoin(r, c)
         \/ \E s \in Senders : RoomReceivesMessage(r, s)
    \/ \E s \in Senders : SenderWorks(s)

HubNext ==
    \/ HubWorks
    \/ \E c \in Sockets : ClientAsks(c)
    \/ \E s \in Senders, r \in Rooms : PublishTo(s, r)

HubSpec == HubInit /\ [][HubNext]_wsVars

----------------------------------------------------------------------------
(* Properties                                                              *)

Consecutive(s) == \A i \in 1..Len(s) - 1 : s[i + 1] = s[i] + 1

\* What a member should have heard once the room is done with it.
UpToDate(c, r) == heard[c][r] = <<>> \/ heard[c][r][Len(heard[c][r])] = sent[r]

\* The members of a room have heard every message since they joined, once and
\* in order, the cached lines of the log first; and a client that left the hub
\* is in no room (wshub.go:107, wshub.go:178, wshub.go:204).
RoomsConsistent ==
    /\ \A r \in Rooms : \A c \in members[r] :
         /\ Consecutive(heard[c][r])
         /\ task[r].kind = "select" => UpToDate(c, r)
         /\ r = "gamelog" /\ task[r].kind = "select" /\ sent[r] > 0 => heard[c][r] # <<>>
    /\ \A c \in Sockets :
         reader[c].step = "gone" /\ leaving.client # c => \A r \in Rooms : c \notin members[r]

\* Once its account is gone a client gets nothing of the log that came later
\* (API.md:143); the line in delivery at that moment may still arrive.
RevokedHearNothingNew ==
    \A c \in Sockets : ~capable[c] =>
        \A i \in 1..Len(queue[c]) : queue[c][i][1] = "gamelog" => queue[c][i][2] <= limit[c]

\* The goroutine of a room is there, and takes what is sent to it or is past the guard of a
\* step of its own (RoomChecks or RoomDelivered when it delivers).
RoomServes(r) ==
    r \in rooms /\ (RoomFree(r) \/ task[r].kind \in {"admit", "replay", "deliver"} \/ MayQueue(r))

\* Nobody waits in a circle, although every channel is unbuffered, connections end and
\* clients do not read: clients and senders wait for a room that serves them; clients wait for
\* the hub, which waits for such rooms only, each of which forgets the client that leaves
\* (wshub.go:121, wshub.go:242).
NobodyStuck ==
    /\ \A c \in Sockets : reader[c].step \in {"join", "leave"} => RoomServes(reader[c].room)
    /\ \A s \in Senders : sender[s].step = "send" => RoomServes(sender[s].room)
    /\ \A r \in leaving.todo : RoomServes(r)

\* Messages arrive where they should, and no slow client stops them (wshub.go:107,
\* wshub.go:242).
RoomsWork == RoomsConsistent /\ NobodyStuck
=============================================================================
