----------------------------- MODULE SessionLog -----------------------------
(***************************************************************************)
(* One sessionLog: the ring of recent events, its subscribers, and the      *)
(* goroutines of handleTimeline that stream it to the clients.  The tailer  *)
(* (module GamelogTailer) appends, a stopper closes sl.done.                *)
(*                                                                         *)
(* Events are numbered as they are appended.  sl.mu is held over several    *)
(* steps only by subscribe, whose sends on the new channel could block; the *)
(* other critical sections are one step each.                               *)
(***************************************************************************)
EXTENDS Integers, FiniteSets, SequencesExt

CONSTANTS
  Clients,     \* the SSE clients
  None,        \* no client
  Ring,        \* maxEvents, 500 in the code
  Replay,      \* replayCount, 50
  Cap,         \* the capacity of a subscriber's channel, 64
  MaxAppends,  \* bound on the events of the session
  MaxConnects  \* bound on the connections of one client

ASSUME ClientsAssumption == None \notin Clients
ASSUME SizesAssumption == Ring \in Nat /\ Replay \in Nat /\ Cap \in Nat \ {0}
ASSUME ReplayFits == Replay <= Cap
ASSUME BoundsAssumption == MaxAppends \in Nat /\ MaxConnects \in Nat

VARIABLES
  appended,  \* the number of events so far
  events,    \* sl.events
  mu,        \* the client whose subscribe holds sl.mu, or None
  closed,    \* sl.done is closed
  subs,      \* the clients with a subscriber in sl.subs
  ch,        \* the channel of each client's subscriber
  drops,     \* its drops
  todo,      \* the events subscribe has still to replay
  pc,        \* where each handler is
  connects,  \* how often each client connected
  before,    \* history: the events a subscriber need not get
  got,       \* history: the events its client was sent
  told       \* history: the sum of the dropped events it was told of

history == <<before, got, told>>
vars == <<appended, events, mu, closed, subs, ch, drops, todo, pc, connects,
          before, got, told>>

Init ==
  /\ appended = 0 /\ events = <<>> /\ mu = None /\ closed = FALSE
  /\ subs = {}
  /\ ch = [c \in Clients |-> <<>>]
  /\ drops = [c \in Clients |-> 0]
  /\ todo = [c \in Clients |-> <<>>]
  /\ pc = [c \in Clients |-> "off"]
  /\ connects = [c \in Clients |-> 0]
  /\ before = [c \in Clients |-> 0]
  /\ got = [c \in Clients |-> <<>>]
  /\ told = [c \in Clients |-> 0]

Unlocked == mu = None

Newest(n, s) == SubSeq(s, IF Len(s) > n THEN Len(s) - n + 1 ELSE 1, Len(s))

(* sl.events[len(sl.events)-maxEvents:]                                      *)
Trimmed(s) == Newest(Ring, s)

-----------------------------------------------------------------------------
(* The tailer: append, which sends without blocking.                         *)

Full(c) == Len(ch[c]) >= Cap

(* Mistake: only the first drop is counted.                                  *)
CountsOneDrop(c) == IF c \in subs /\ Full(c) THEN 1 ELSE drops[c]
CountDrop(c) == IF c \in subs /\ Full(c) THEN drops[c] + 1 ELSE drops[c]

AppendEvent ==
  /\ Unlocked
  /\ appended < MaxAppends
  /\ appended' = appended + 1
  /\ events' = Trimmed(Append(events, appended'))
  /\ ch' = [c \in Clients |-> IF c \in subs /\ ~Full(c)
                              THEN Append(ch[c], appended') ELSE ch[c]]
  /\ drops' = [c \in Clients |-> CountDrop(c)]
  /\ UNCHANGED <<mu, closed, subs, todo, pc, connects, history>>

(* stopSessionLog took the log out of m.sessionLogs, so it is closed once.   *)
Close ==
  /\ ~closed /\ closed' = TRUE
  /\ UNCHANGED <<appended, events, mu, subs, ch, drops, todo, pc, connects, history>>

-----------------------------------------------------------------------------
(* subscribe.                                                                *)

(* Mistake: the whole ring replayed.                                         *)
ReplayRing == events
(* Mistake: the ring read from its newest event.                             *)
ReplayBackwards == Reverse(Newest(Replay, events))
Replayed == Newest(Replay, events)

Subscribe(c) ==
  /\ pc[c] = "off" /\ connects[c] < MaxConnects
  /\ Unlocked
  /\ mu' = c
  /\ pc' = [pc EXCEPT ![c] = "replay"]
  /\ connects' = [connects EXCEPT ![c] = @ + 1]
  /\ todo' = [todo EXCEPT ![c] = Replayed]
  /\ ch' = [ch EXCEPT ![c] = <<>>]
  /\ drops' = [drops EXCEPT ![c] = 0]
  /\ before' = [before EXCEPT ![c] = appended - Len(Replayed)]
  /\ got' = [got EXCEPT ![c] = <<>>]
  /\ told' = [told EXCEPT ![c] = 0]
  /\ UNCHANGED <<appended, events, closed, subs>>

ReplayOne(c) ==
  /\ pc[c] = "replay" /\ todo[c] # <<>> /\ ~Full(c)
  /\ ch' = [ch EXCEPT ![c] = Append(@, Head(todo[c]))]
  /\ todo' = [todo EXCEPT ![c] = Tail(@)]
  /\ UNCHANGED <<appended, events, mu, closed, subs, drops, pc, connects, history>>

Join(c) ==
  /\ pc[c] = "replay" /\ todo[c] = <<>>
  /\ subs' = subs \cup {c}
  /\ mu' = None
  /\ pc' = [pc EXCEPT ![c] = "stream"]
  /\ UNCHANGED <<appended, events, closed, ch, drops, todo, connects, history>>

-----------------------------------------------------------------------------
(* The loop of handleTimeline: select takes any case that is ready.          *)

Goto(c, l) == pc' = [pc EXCEPT ![c] = l]

Deliver(c) ==
  /\ pc[c] = "stream" /\ ch[c] # <<>>
  /\ got' = [got EXCEPT ![c] = Append(@, Head(ch[c]))]
  /\ ch' = [ch EXCEPT ![c] = Tail(@)]
  /\ Goto(c, "drops")
  /\ UNCHANGED <<appended, events, mu, closed, subs, drops, todo, connects, before, told>>

KeepAlive(c) ==
  /\ pc[c] = "stream"
  /\ Goto(c, "drops")
  /\ UNCHANGED <<appended, events, mu, closed, subs, ch, drops, todo, connects, history>>

(* Mistake: the drops are left for when the channel is full again.           *)
TakeWhenFull(c) == IF Full(c) THEN drops[c] ELSE 0
TakeDrops(c) == drops[c]

EmitDrops(c) ==
  /\ pc[c] = "drops" /\ Unlocked
  /\ told' = [told EXCEPT ![c] = @ + TakeDrops(c)]
  /\ drops' = [drops EXCEPT ![c] = @ - TakeDrops(c)]
  /\ Goto(c, "stream")
  /\ UNCHANGED <<appended, events, mu, closed, subs, ch, todo, connects, before, got>>

(* Mistake: one value sent on sl.done, which the first reader consumes.      *)
ConsumeDone == closed' = FALSE
ObserveDone == UNCHANGED closed

(* event: session-ended                                                      *)
SessionEnded(c) ==
  /\ pc[c] = "stream" /\ closed
  /\ ObserveDone
  /\ Goto(c, "leave")
  /\ UNCHANGED <<appended, events, mu, subs, ch, drops, todo, connects, history>>

Disconnect(c) ==
  /\ pc[c] = "stream"
  /\ Goto(c, "leave")
  /\ UNCHANGED <<appended, events, mu, closed, subs, ch, drops, todo, connects, history>>

Unsubscribe(c) ==
  /\ pc[c] = "leave" /\ Unlocked
  /\ subs' = subs \ {c}
  /\ Goto(c, "off")
  /\ UNCHANGED <<appended, events, mu, closed, ch, drops, todo, connects, history>>

-----------------------------------------------------------------------------
Handler(c) == \/ Subscribe(c) \/ ReplayOne(c) \/ Join(c) \/ Deliver(c)
              \/ KeepAlive(c) \/ EmitDrops(c) \/ SessionEnded(c)
              \/ Disconnect(c) \/ Unsubscribe(c)

Next == AppendEvent \/ Close \/ \E c \in Clients : Handler(c)

Spec == Init /\ [][Next]_vars

(* A goroutine that can go on does, one waiting for sl.mu gets it, and select *)
(* does not pass over a ready case for ever: it picks at random and the       *)
(* keepalive's ticker fires every 15 s.  Nobody must append, close, connect   *)
(* or disconnect.                                                            *)
Fair(c) ==
  /\ WF_vars(ReplayOne(c) \/ Join(c) \/ KeepAlive(c))
  /\ SF_vars(EmitDrops(c) \/ Unsubscribe(c))
  /\ SF_vars(SessionEnded(c))

FairSpec == Spec /\ \A c \in Clients : Fair(c)

-----------------------------------------------------------------------------
Events == 1..MaxAppends

(* Every variable has its type; the ring and the channels keep their sizes.  *)
TypeOK ==
  /\ appended \in 0..MaxAppends
  /\ events \in Seq(Events) /\ Len(events) <= Ring
  /\ mu \in Clients \cup {None} /\ closed \in BOOLEAN /\ subs \subseteq Clients
  /\ ch \in [Clients -> Seq(Events)] /\ \A c \in Clients : Len(ch[c]) <= Cap
  /\ todo \in [Clients -> Seq(Events)] /\ got \in [Clients -> Seq(Events)]
  /\ drops \in [Clients -> Nat] /\ told \in [Clients -> Nat]
  /\ before \in [Clients -> 0..MaxAppends]
  /\ pc \in [Clients -> {"off", "replay", "stream", "drops", "leave"}]
  /\ connects \in [Clients -> 0..MaxConnects]

Increasing(s) == \A i, j \in DOMAIN s : i < j => s[i] < s[j]

(* A connected client has been sent, will be sent or is counted as having    *)
(* missed every event since its replay began: a slow link loses events but   *)
(* never silently (gamelog.go:56-60 and 80-110).                             *)
EventsCounted ==
  \A c \in subs :
    appended - before[c] = Len(got[c]) + Len(ch[c]) + drops[c] + told[c]

(* It gets them in order and none twice, the replay of old events followed   *)
(* by the live ones (gamelog.go:96-110).                                     *)
EventsInOrder == \A c \in subs : Increasing(<<before[c]>> \o got[c] \o ch[c])

(* Whoever holds sl.mu lets go of it: the replay of a new client never       *)
(* blocks on its own channel and so stalls the tailer (gamelog.go:96-110).   *)
LockIsReleased == (mu # None) ~> (mu = None)

(* A client that stays connected is told of the events it missed             *)
(* (gamelog.go:244-249).                                                     *)
DropsAreTold ==
  \A c \in Clients : (c \in subs /\ drops[c] > 0) ~> (drops[c] = 0 \/ pc[c] \in {"leave", "off"})

(* Every stream ends after the session has, not only the first one to look   *)
(* (gamelog.go:72-78 and 256-259).                                           *)
StreamsEnd == \A c \in Clients : (closed /\ pc[c] = "stream") ~> (pc[c] = "off")
=============================================================================
