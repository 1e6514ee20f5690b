----------------------------- MODULE EventQueue -----------------------------
(***************************************************************************)
(* The events LDK hands to handle_ldk_events.  process_events_async calls  *)
(* the handler with one event at a time, oldest first; an event is gone    *)
(* for good only when the ChannelManager has been persisted without it, so *)
(* a crash replays what was handled since then.                            *)
(*                                                                         *)
(* LDK is a library: this is the contract the handler in src/ relies on.   *)
(***************************************************************************)
EXTENDS Naturals, Sequences

VARIABLES
  events,   \* events to be replayed after a crash, oldest first
  handled   \* how many of them the handler has handled since the node was started

queueVars == <<events, handled>>

Event(t, p) == [type |-> t, id |-> p]

Queued(t, p)    == \E i \in DOMAIN events : events[i] = Event(t, p)
Unhandled(t, p) == \E i \in DOMAIN events : i > handled /\ events[i] = Event(t, p)

Emit(t, p) == events' = Append(events, Event(t, p))

(* The handler may be called with an event of type t, which is NextId's.   *)
IsNext(t) == handled < Len(events) /\ events[handled + 1].type = t
NextId   == events[handled + 1].id

(* The ChannelManager is persisted without the events that were handled.   *)
DropHandled ==
  /\ handled > 0
  /\ events' = SubSeq(events, handled + 1, Len(events))
  /\ handled' = 0
=============================================================================
