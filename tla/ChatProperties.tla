--------------------------- MODULE ChatProperties ---------------------------
(***************************************************************************)
(* What the chat page shows of a conversation.                             *)
(***************************************************************************)
EXTENDS Chat

(* Every variable has its type, and the socket is there with the page only *)
(* (connect in ngOnInit, disconnect in ngOnDestroy).                       *)
ChatTypeOK ==
    /\ status \in {"ACTIVE", "CLOSED"}
    /\ msgs \in Seq(Messages) /\ Len(msgs) <= MaxMessages
    /\ work \in [ChatHandlers -> HandlerRecords]
    /\ room \in BOOLEAN
    /\ chat \in Pages
    /\ conn \in Sockets /\ (conn.st = "none") = ~chat.open
    /\ up \in Seq(Emits) /\ down \in Seq(Events) /\ calls \in Seq(ChatRequests)

(* No message stands twice in the list, although it may come with the      *)
(* history, by the broadcast and as the answer to its own sending: the     *)
(* pending entry is replaced and not joined by the confirmed one, and the  *)
(* room is entered only when the history is there (ChatService, chat page).*)
(* With ChatOverlap it may: a history read between the creation of a       *)
(* message and its broadcast has it, and the broadcast is appended.        *)
NothingTwice ==
    \A i, j \in DOMAIN chat.shown :
        i # j /\ chat.shown[i].id = chat.shown[j].id => IsPending(chat.shown[i])

(* Once the server has answered, no message is left pending: accepted, the *)
(* broadcast that precedes the acknowledgement has replaced it, refused, it *)
(* has been removed.  `lost` is where this stops being true: a socket that *)
(* has reconnected is not in the room, and its broadcasts do not come.     *)
PendingSettles ==
    chat.on /\ ~chat.lost /\ ~chat.loading /\ ~chat.sending
        => PendingPlaces(chat.shown) = {}

(* The same of every page, as the comment in sendMessage has it ("Server   *)
(* will broadcast chat:message -> deduplication replaces the pending       *)
(* entry").                                                                *)
PendingAlwaysSettles ==
    chat.on /\ ~chat.loading /\ ~chat.sending => PendingPlaces(chat.shown) = {}

(* The button comes back: sending ends unless the socket is lost.          *)
SendingEnds == chat.sending ~> (~chat.sending \/ chat.lost)

(* Hiding the conversation takes nothing from the other member ("all       *)
(* messages are preserved so the other party is unaffected").              *)
HidingSparesOthers == [][PeerHides => Kept' = Kept]_chatVars

(* A conversation is loaded with its newest message ("with last 30         *)
(* messages").                                                             *)
HistoryIsNewest ==
    Kept # <<>> => \E k \in DOMAIN FirstMessages : FirstMessages[k].id = Last(Kept)
=============================================================================
