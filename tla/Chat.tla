-------------------------------- MODULE Chat --------------------------------
(***************************************************************************)
(* One conversation as one of its two members sees it: the chat page and   *)
(* the ChatService behind it in the browser, the socket they use, and on   *)
(* the server the chat gateway, the chat controller and the tables of      *)
(* conversations and messages.                                             *)
(*                                                                         *)
(* The member whose page this is, is "me".  The peer's page is the same    *)
(* code; here only what it asks of the server matters.  A message is known *)
(* on the page by its place in the table, or is pending: shown before the  *)
(* server has it.  Messages come by three ways: the history the page loads *)
(* by HTTP, the broadcasts to the conversation's room, and the answer to a *)
(* message sent by HTTP because the socket is down.  Whether a message has *)
(* been read (isRead, chat:read and its receipt) is left out.              *)
(***************************************************************************)
EXTENDS Naturals, Sequences, SequencesExt

CONSTANTS
    Texts,            \* what a message may say
    ChatHandlers,     \* requests that the server works on at the same time
    MaxMessages,      \* bound on the messages of the conversation
    MaxChatRequests,  \* bound on the HTTP requests in flight
    HistorySize,      \* messages in a conversation as it is loaded: 50
    SocketLoss,       \* TRUE: the socket may drop
    ChatOverlap,      \* TRUE: the server's handlers overlap one another
    Hasty             \* TRUE: the page is opened again before its last requests end

ASSUME ChatAssumption ==
    /\ Texts # {}
    /\ {MaxMessages, MaxChatRequests, HistorySize} \subseteq Nat \ {0}
    /\ {SocketLoss, ChatOverlap, Hasty} \subseteq BOOLEAN

VARIABLES
    status,  \* the conversation's
    msgs,    \* its messages, in the order of creation
    work,    \* the handlers at work on the server
    room,    \* TRUE: the page's socket is in the conversation's room
    chat,    \* the page, with the signals of ChatService
    conn,    \* its socket
    up,      \* what the page has emitted, in order
    down,    \* what the server has sent back, in order
    calls    \* the HTTP requests in flight

chatVars == <<status, msgs, work, room, chat, conn, up, down, calls>>

-----------------------------------------------------------------------------
Members == {"me", "peer"}
Ids == 1 .. MaxMessages

Messages == [by : Members, text : Texts, deleted : BOOLEAN]

(* What the page shows of a message; id 0 is a pending one.                *)
Entries == [id : Ids \cup {0}, by : Members, text : Texts]

Entry(id) == [id |-> id, by |-> msgs[id].by, text |-> msgs[id].text]

PendingEntry(text) == [id |-> 0, by |-> "me", text |-> text]

(* `on`: conversationId is set.  `lost` is history: since the page was     *)
(* opened its socket has dropped, or its conversation could not be loaded. *)
Pages == [open : BOOLEAN, on : BOOLEAN, loading : BOOLEAN, sending : BOOLEAN,
          closed : BOOLEAN, shown : Seq(Entries), lost : BOOLEAN]

Away == [open |-> FALSE, on |-> FALSE, loading |-> FALSE, sending |-> FALSE,
         closed |-> FALSE, shown |-> <<>>, lost |-> FALSE]

(* `join`: joinConversation waits for the connection.                      *)
Sockets == [st : {"none", "connecting", "connected"}, join : BOOLEAN]

AnyText == CHOOSE t \in Texts : TRUE

Emits == [what : {"join", "send"}, text : Texts]
Joining == [what |-> "join", text |-> AnyText]

Events == [what : {"message", "closed", "ack", "nack"}, entry : Entries]
Event(what) == [what |-> what, entry |-> PendingEntry(AnyText)]

(* `mine`: the page that asked is still there.                             *)
ChatRequests ==
    [for : {"conversation", "messages", "send", "hide"},
     at : {"sent", "serving", "ok", "error"}, mine : BOOLEAN, text : Texts,
     history : Seq(Entries), closed : BOOLEAN]

Request(for, text) ==
    [for |-> for, at |-> "sent", mine |-> TRUE, text |-> text,
     history |-> <<>>, closed |-> FALSE]

(* A message of `by` that came by `via`: it is created, then the others    *)
(* are marked as read, then it is broadcast.  "gone" is a socket that has  *)
(* gone since, and with it whoever waits for the answer.                   *)
HandlerRecords ==
    [pc : {"idle", "create", "mark"}, by : Members,
     via : {"socket", "rest", "gone"}, text : Texts, id : Ids \cup {0}]

AtRest == [pc |-> "idle", by |-> "me", via |-> "socket", text |-> AnyText, id |-> 0]

(* Without Overlap whatever reaches the server waits until the handler at  *)
(* work has returned.                                                      *)
ServerFree == ChatOverlap \/ \A p \in ChatHandlers : work[p].pc = "idle"

Start(p, by, via, text) ==
    /\ work[p].pc = "idle"
    /\ work' = [work EXCEPT ![p] = [pc |-> "create", by |-> by, via |-> via,
                                    text |-> text, id |-> 0]]
Return(p) == work' = [work EXCEPT ![p] = AtRest]

ChatInit ==
    /\ status = "ACTIVE"
    /\ msgs = <<>>
    /\ work = [p \in ChatHandlers |-> AtRest]
    /\ room = FALSE
    /\ chat = Away
    /\ conn = [st |-> "none", join |-> FALSE]
    /\ up = <<>> /\ down = <<>> /\ calls = <<>>

-----------------------------------------------------------------------------
(* The page's list of messages                                             *)

IsPending(e) == e.id = 0

(* replacePending and removePending, of the entry at place i.              *)
ReplacePending(s, i, e) == [s EXCEPT ![i] = e]
RemovePending(s, i) == RemoveAt(s, i)

PendingPlaces(s) == {i \in DOMAIN s : IsPending(s[i])}

(* The message being sent is the last one that was made pending.           *)
InFlight(s) == {i \in PendingPlaces(s) : \A j \in PendingPlaces(s) : j <= i}

(* Mutant: nothing is taken for the pending entry's confirmation.          *)
AppendAlways(s, e) == Append(s, e)

(* chat:message: my own replaces the first pending entry of its text.      *)
AddMessage(s, e) ==
    LET same == {i \in PendingPlaces(s) : e.by = "me" /\ s[i].text = e.text}
    IN  IF same = {} THEN Append(s, e)
        ELSE ReplacePending(s, CHOOSE i \in same : \A j \in same : i <= j, e)

-----------------------------------------------------------------------------
(* Opening and leaving the page                                            *)

Ask(r) == Len(calls) < MaxChatRequests /\ calls' = Append(calls, r)

(* ngOnInit, and initChatFromRoute up to its first request.                *)
Open ==
    /\ ~chat.open /\ (Hasty \/ calls = <<>>)
    /\ chat' = [Away EXCEPT !.open = TRUE, !.loading = TRUE]
    /\ conn' = [st |-> "connecting", join |-> FALSE]
    /\ Ask(Request("conversation", AnyText))
    /\ UNCHANGED <<status, msgs, work, room, up, down>>

(* goBack, executeDelete's navigation and ngOnDestroy: the socket closes   *)
(* after what was emitted on it has arrived.  (The page is not left while  *)
(* it loads: the late answer would fill the page that comes after it.)     *)
GoAway ==
    /\ chat' = Away
    /\ conn.st = "connected" => up = <<>>
    /\ conn' = [st |-> "none", join |-> FALSE]
    /\ room' = FALSE
    /\ up' = <<>> /\ down' = <<>>
    /\ work' = [p \in ChatHandlers |-> IF work[p].by = "me" /\ work[p].via = "socket"
                                       THEN [work[p] EXCEPT !.via = "gone"] ELSE work[p]]

Leave ==
    /\ chat.open /\ ~chat.loading
    /\ GoAway
    /\ calls' = [i \in DOMAIN calls |-> [calls[i] EXCEPT !.mine = FALSE]]
    /\ UNCHANGED <<status, msgs>>

(* joinConversation: at once, or when the socket connects.                 *)
JoinConversation ==
    IF conn.st = "connected"
    THEN up' = Append(up, Joining) /\ UNCHANGED conn
    ELSE conn' = [conn EXCEPT !.join = TRUE] /\ UNCHANGED up

Loads(i, what) ==
    /\ i \in DOMAIN calls /\ calls[i].for = what /\ calls[i].mine
    /\ calls[i].at \in {"ok", "error"}

(* Mutant: the room is joined while the second request is still under way. *)
JoinsWhileLoading(i) ==
    /\ Loads(i, "conversation") /\ calls[i].at = "ok"
    /\ chat' = [chat EXCEPT !.on = TRUE, !.shown = calls[i].history,
                            !.closed = @ \/ calls[i].closed]
    /\ calls' = Append(RemoveAt(calls, i),
                       [Request("messages", AnyText) EXCEPT !.closed = calls[i].closed])
    /\ JoinConversation
    /\ UNCHANGED <<status, msgs, work, room, down>>

(* initChatFromRoute, with the conversation: a conversation without        *)
(* messages is asked for them again.                                       *)
ConversationLoads(i) ==
    /\ Loads(i, "conversation") /\ calls[i].at = "ok"
    /\ IF calls[i].history # <<>>
       THEN /\ chat' = [chat EXCEPT !.on = TRUE, !.loading = FALSE,
                                    !.shown = calls[i].history,
                                    !.closed = @ \/ calls[i].closed]
            /\ calls' = RemoveAt(calls, i)
            /\ JoinConversation
       ELSE /\ chat' = [chat EXCEPT !.on = TRUE]
            /\ calls' = Append(RemoveAt(calls, i), [Request("messages", AnyText)
                                                        EXCEPT !.closed = calls[i].closed])
            /\ UNCHANGED <<conn, up>>
    /\ UNCHANGED <<status, msgs, work, room, down>>

MessagesLoad(i) ==
    /\ Loads(i, "messages") /\ calls[i].at = "ok"
    /\ chat' = [chat EXCEPT !.loading = FALSE, !.shown = calls[i].history,
                            !.closed = @ \/ calls[i].closed]
    /\ calls' = RemoveAt(calls, i)
    /\ JoinConversation
    /\ UNCHANGED <<status, msgs, work, room, down>>

LoadFails(i) ==
    /\ Loads(i, "conversation") \/ Loads(i, "messages")
    /\ calls[i].at = "error"
    /\ chat' = [chat EXCEPT !.loading = FALSE, !.lost = TRUE]
    /\ calls' = RemoveAt(calls, i)
    /\ UNCHANGED <<status, msgs, work, room, conn, up, down>>

-----------------------------------------------------------------------------
(* Sending a message                                                       *)

(* sendMessage: shown at once, then by the socket, or else by HTTP.        *)
SendMessage(text) ==
    /\ chat.on /\ ~chat.closed /\ ~chat.sending
    /\ Len(msgs) < MaxMessages
    /\ chat' = [chat EXCEPT !.sending = TRUE, !.shown = Append(@, PendingEntry(text))]
    /\ IF conn.st = "connected"
       THEN up' = Append(up, [what |-> "send", text |-> text]) /\ UNCHANGED calls
       ELSE Ask(Request("send", text)) /\ UNCHANGED up
    /\ UNCHANGED <<status, msgs, work, room, conn, down>>

(* The answer to sendViaRest.                                              *)
RestReply(i) ==
    /\ i \in DOMAIN calls /\ calls[i].for = "send" /\ calls[i].at \in {"ok", "error"}
    /\ calls' = RemoveAt(calls, i)
    /\ IF calls[i].mine
       THEN chat' = [chat EXCEPT !.sending = FALSE,
                        !.shown = IF InFlight(@) = {} THEN @
                                  ELSE LET k == CHOOSE k \in InFlight(@) : TRUE
                                       IN  IF calls[i].at = "error" THEN RemovePending(@, k)
                                           ELSE ReplacePending(@, k, Head(calls[i].history))]
       ELSE UNCHANGED chat
    /\ UNCHANGED <<status, msgs, work, room, conn, up, down>>

(* executeDelete: the conversation's row goes from the list, and with it   *)
(* the page.                                                               *)
HideAsk ==
    /\ chat.open /\ ~chat.loading
    /\ \A i \in DOMAIN calls : calls[i].for # "hide"
    /\ Ask(Request("hide", AnyText))
    /\ UNCHANGED <<status, msgs, work, room, chat, conn, up, down>>

HideReply(i) ==
    /\ i \in DOMAIN calls /\ calls[i].for = "hide" /\ calls[i].at \in {"ok", "error"}
    /\ IF calls[i].at = "ok" /\ calls[i].mine
       THEN /\ GoAway
            /\ calls' = LET rest == RemoveAt(calls, i)
                        IN  [j \in DOMAIN rest |-> [rest[j] EXCEPT !.mine = FALSE]]
       ELSE /\ calls' = RemoveAt(calls, i)
            /\ UNCHANGED <<work, room, chat, conn, up, down>>
    /\ UNCHANGED <<status, msgs>>

-----------------------------------------------------------------------------
(* What comes down the socket                                              *)

Receive(what) == down # <<>> /\ Head(down).what = what /\ down' = Tail(down)

ReceiveMessage ==
    /\ Receive("message")
    /\ chat' = [chat EXCEPT !.shown = AddMessage(@, Head(down).entry)]
    /\ UNCHANGED <<status, msgs, work, room, conn, up, calls>>

ReceiveClosed ==
    /\ Receive("closed")
    /\ chat' = [chat EXCEPT !.closed = TRUE]
    /\ UNCHANGED <<status, msgs, work, room, conn, up, calls>>

(* Mutant: the acknowledgement of a refusal is not handled.                *)
NackIgnored ==
    /\ Receive("nack")
    /\ UNCHANGED <<status, msgs, work, room, chat, conn, up, calls>>

(* The acknowledgement of chat:send.                                       *)
ReceiveAck ==
    /\ Receive("ack")
    /\ chat' = [chat EXCEPT !.sending = FALSE]
    /\ UNCHANGED <<status, msgs, work, room, conn, up, calls>>

ReceiveNack ==
    /\ Receive("nack")
    /\ chat' = [chat EXCEPT !.sending = FALSE,
                   !.shown = IF InFlight(@) = {} THEN @
                             ELSE RemovePending(@, CHOOSE k \in InFlight(@) : TRUE)]
    /\ UNCHANGED <<status, msgs, work, room, conn, up, calls>>

SocketConnects ==
    /\ conn.st = "connecting"
    /\ conn' = [st |-> "connected", join |-> FALSE]
    /\ up' = IF conn.join THEN Append(up, Joining) ELSE up
    /\ UNCHANGED <<status, msgs, work, room, chat, down, calls>>

(* The socket reconnects by itself, but the room is not joined again.      *)
SocketDrops ==
    /\ SocketLoss
    /\ conn.st = "connected"
    /\ conn' = [conn EXCEPT !.st = "connecting"]
    /\ room' = FALSE
    /\ up' = <<>> /\ down' = <<>>
    /\ work' = [p \in ChatHandlers |-> IF work[p].by = "me" /\ work[p].via = "socket"
                                       THEN [work[p] EXCEPT !.via = "gone"] ELSE work[p]]
    /\ chat' = [chat EXCEPT !.lost = TRUE]
    /\ UNCHANGED <<status, msgs, calls>>

-----------------------------------------------------------------------------
(* The server                                                              *)

ToRoom(e) == IF room THEN Append(down, e) ELSE down

Arrives(what) ==
    /\ ServerFree
    /\ conn.st = "connected"
    /\ up # <<>> /\ Head(up).what = what
    /\ up' = Tail(up)

(* handleJoin.                                                             *)
HandleJoin ==
    /\ Arrives("join")
    /\ room' = TRUE
    /\ UNCHANGED <<status, msgs, work, chat, conn, down, calls>>

(* sendMessage on the server: find the conversation, create the message,   *)
(* mark the other's messages as read, and then, in the gateway alone,      *)
(* broadcast it and acknowledge.                                           *)
HandleSend(p) ==
    /\ Arrives("send")
    /\ IF status = "CLOSED"
       THEN down' = Append(down, Event("nack")) /\ UNCHANGED work
       ELSE Start(p, "me", "socket", Head(up).text) /\ UNCHANGED down
    /\ UNCHANGED <<status, msgs, room, chat, conn, calls>>

RestSend(p, i) ==
    /\ ServerFree
    /\ i \in DOMAIN calls /\ calls[i].for = "send" /\ calls[i].at = "sent"
    /\ \A j \in DOMAIN calls : calls[j].at # "serving"
    /\ IF status = "CLOSED"
       THEN calls' = [calls EXCEPT ![i].at = "error"] /\ UNCHANGED work
       ELSE /\ Start(p, "me", "rest", calls[i].text)
            /\ calls' = [calls EXCEPT ![i].at = "serving"]
    /\ UNCHANGED <<status, msgs, room, chat, conn, up, down>>

PeerSends(p, text, via) ==
    /\ ServerFree
    /\ status = "ACTIVE" /\ Len(msgs) < MaxMessages
    /\ Start(p, "peer", via, text)
    /\ UNCHANGED <<status, msgs, room, chat, conn, up, down, calls>>

CreateMessage(p) ==
    /\ work[p].pc = "create"
    /\ Len(msgs) < MaxMessages
    /\ msgs' = Append(msgs, [by |-> work[p].by, text |-> work[p].text,
                             deleted |-> FALSE])
    /\ work' = [work EXCEPT ![p].pc = "mark", ![p].id = Len(msgs) + 1]
    /\ UNCHANGED <<status, room, chat, conn, up, down, calls>>

(* Whoever waits for the answer gets it: e over the socket, or st by HTTP. *)
Answer(p, before, e, st, history) ==
    /\ down' = IF work[p].by = "me" /\ work[p].via = "socket"
               THEN Append(before, e) ELSE before
    /\ calls' = IF work[p].by = "me" /\ work[p].via = "rest"
                THEN [i \in DOMAIN calls |->
                         IF calls[i].at = "serving"
                         THEN [calls[i] EXCEPT !.at = st, !.history = history]
                         ELSE calls[i]]
                ELSE calls
    /\ Return(p)

FinishSend(p) ==
    /\ work[p].pc = "mark"
    /\ LET e == Entry(work[p].id)
       IN  Answer(p, IF work[p].via = "rest" THEN down
                     ELSE ToRoom([what |-> "message", entry |-> e]),
                  Event("ack"), "ok", <<e>>)
    /\ UNCHANGED <<status, msgs, room, chat, conn, up>>

(* A database call fails, perhaps with the message already created.        *)
FailSend(p) ==
    /\ work[p].pc \in {"create", "mark"}
    /\ Answer(p, down, Event("nack"), "error", <<>>)
    /\ UNCHANGED <<status, msgs, room, chat, conn, up>>

(* closeConversation, called when the trip ends.                           *)
CloseConversation ==
    /\ ServerFree
    /\ status = "ACTIVE"
    /\ status' = "CLOSED"
    /\ down' = ToRoom(Event("closed"))
    /\ UNCHANGED <<msgs, work, room, chat, conn, up, calls>>

(* deleteMessage, within its five minutes; on the page of its author the   *)
(* text alone changes.                                                     *)
DeleteMessage(by, i) ==
    /\ ServerFree
    /\ i \in DOMAIN msgs /\ msgs[i].by = by /\ ~msgs[i].deleted
    /\ msgs' = [msgs EXCEPT ![i].deleted = TRUE]
    /\ UNCHANGED <<status, work, room, chat, conn, up, down, calls>>

(* hideConversationForUser deletes all that the member has written.        *)
HideConversation(by) ==
    msgs' = [i \in DOMAIN msgs |-> IF msgs[i].by = by THEN [msgs[i] EXCEPT !.deleted = TRUE]
                                                      ELSE msgs[i]]

PeerHides ==
    /\ ServerFree
    /\ HideConversation("peer")
    /\ UNCHANGED <<status, work, room, chat, conn, up, down, calls>>

ServeHide(i) ==
    /\ ServerFree
    /\ i \in DOMAIN calls /\ calls[i].for = "hide" /\ calls[i].at = "sent"
    /\ HideConversation("me")
    /\ calls' = [calls EXCEPT ![i].at = "ok"]
    /\ UNCHANGED <<status, work, room, chat, conn, up, down>>

(* The messages not deleted, in the order of creation.                     *)
Kept ==
    LET kept[n \in 0 .. Len(msgs)] ==
            IF n = 0 THEN <<>>
            ELSE IF msgs[n].deleted THEN kept[n - 1] ELSE Append(kept[n - 1], n)
    IN  kept[Len(msgs)]
EntriesOf(ids) == [k \in DOMAIN ids |-> Entry(ids[k])]

(* getConversationByRideOrParcel returns the oldest messages.              *)
FirstMessages ==
    LET most == IF Len(Kept) < HistorySize THEN Len(Kept) ELSE HistorySize
    IN  EntriesOf(SubSeq(Kept, 1, most))

ServeConversation(i) ==
    /\ ServerFree
    /\ i \in DOMAIN calls /\ calls[i].for = "conversation" /\ calls[i].at = "sent"
    /\ calls' = [calls EXCEPT ![i] = [@ EXCEPT !.at = "ok", !.history = FirstMessages,
                                               !.closed = status = "CLOSED"]]
    /\ UNCHANGED <<status, msgs, work, room, chat, conn, up, down>>

(* getMessages, whose limit of 30 newest is not reached here: it is asked  *)
(* for the messages of a conversation that had none.                       *)
ServeMessages(i) ==
    /\ ServerFree
    /\ i \in DOMAIN calls /\ calls[i].for = "messages" /\ calls[i].at = "sent"
    /\ calls' = [calls EXCEPT ![i] = [@ EXCEPT !.at = "ok", !.history = EntriesOf(Kept)]]
    /\ UNCHANGED <<status, msgs, work, room, chat, conn, up, down>>

RequestFails(i) ==
    /\ i \in DOMAIN calls /\ calls[i].at = "sent"
    /\ calls' = [calls EXCEPT ![i].at = "error"]
    /\ UNCHANGED <<status, msgs, work, room, chat, conn, up, down>>

-----------------------------------------------------------------------------
ServeRequest(i) ==
    \/ ServeConversation(i) \/ ServeMessages(i) \/ ServeHide(i) \/ RequestFails(i)
    \/ \E p \in ChatHandlers : RestSend(p, i)

Reply(i) ==
    \/ ConversationLoads(i) \/ MessagesLoad(i) \/ LoadFails(i)
    \/ RestReply(i) \/ HideReply(i)

HandleEmit ==
    \/ HandleJoin \/ \E p \in ChatHandlers : HandleSend(p)

HandlerStep(p) == CreateMessage(p) \/ FinishSend(p) \/ FailSend(p)

ReceiveEvent ==
    \/ ReceiveMessage \/ ReceiveClosed \/ ReceiveAck \/ ReceiveNack

Peer ==
    \/ \E p \in ChatHandlers, t \in Texts, via \in {"socket", "rest"} : PeerSends(p, t, via)
    \/ \E i \in DOMAIN msgs : DeleteMessage("peer", i)
    \/ PeerHides

User ==
    \/ Open \/ Leave \/ HideAsk
    \/ \E t \in Texts : SendMessage(t)
    \/ \E i \in DOMAIN msgs : DeleteMessage("me", i)

ChatNext ==
    \/ User \/ Peer
    \/ \E i \in DOMAIN calls : ServeRequest(i) \/ Reply(i)
    \/ HandleEmit \/ ReceiveEvent
    \/ \E p \in ChatHandlers : HandlerStep(p)
    \/ CloseConversation
    \/ SocketConnects \/ SocketDrops

ChatSpec == ChatInit /\ [][ChatNext]_chatVars

(* The server answers, the browser handles what has come; people and the   *)
(* network need not do anything.  Fairness towards what arrives is strong  *)
(* because it may find the server busy, again and again.                   *)
ChatFairness ==
    /\ SF_chatVars(HandleEmit) /\ WF_chatVars(ReceiveEvent)
    /\ \A p \in ChatHandlers : WF_chatVars(HandlerStep(p))
    /\ \A i \in 1 .. MaxChatRequests : SF_chatVars(i \in DOMAIN calls /\ ServeRequest(i))
    /\ \A i \in 1 .. MaxChatRequests : WF_chatVars(i \in DOMAIN calls /\ Reply(i))
=============================================================================
