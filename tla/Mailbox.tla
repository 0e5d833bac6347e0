------------------------------ MODULE Mailbox ------------------------------
(* What the notification store of watchd promises the bot that delivers its *)
(* events: the abstract specification NotificationStore implements and       *)
(* Delivery relies on.                                                       *)
(*                                                                           *)
(* An event is numbered once, with a number no event had before it, and only *)
(* then offered to chats.  What is offered to a chat may change for reasons  *)
(* of the store's own: events age, a queue is bounded, a chat leaves the     *)
(* list and comes back, a crash loses what no save kept and brings back what *)
(* an unsaved acknowledgement had removed.  But a confirmed acknowledgement  *)
(* is for good.                                                              *)
EXTENDS Integers, FiniteSets

CONSTANTS
    Chat,        \* the chats events go to
    MaxPerChat   \* how many events wait for a chat (maxPerChat)

VARIABLES
    numbered,    \* every event numbered so far
    offered,     \* [Chat -> SUBSET numbered]: what Pending answers for a chat
    confirmed    \* [Chat -> set of ids]: the acknowledgements answered OK

mailboxVars == <<numbered, offered, confirmed>>

Init ==
    /\ numbered = {}
    /\ offered = [c \in Chat |-> {}]
    /\ confirmed = [c \in Chat |-> {}]

\* A number given out is one no event had: an old receipt never names a new event.
FreshNumbers ==
    \A e \in numbered' \ numbered : \A f \in numbered' \ {e} : f.id # e.id

\* Only numbered events are offered, none of them to a chat that closed it.
OffersAreOpen ==
    \A c \in Chat :
        /\ offered'[c] \subseteq {e \in numbered' : e.id \notin confirmed'[c]}
        /\ Cardinality(offered'[c]) <= MaxPerChat

\* What the watch publishes is numbered in the order it was published, what
\* waited for a save included.
InOrder ==
    \A e, f \in {g \in numbered' : g.from = "watch"} :
        e.id[1] = f.id[1] /\ e.id[2] < f.id[2] => e.n < f.n

Step ==
    /\ numbered \subseteq numbered'
    /\ \A c \in Chat : confirmed[c] \subseteq confirmed'[c]
    /\ FreshNumbers
    /\ InOrder
    /\ OffersAreOpen

Spec == Init /\ [][Step]_mailboxVars
=============================================================================
