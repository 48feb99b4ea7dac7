----------------------------- MODULE IocpPoller -----------------------------
(***************************************************************************)
(* IocpPoller (src/muduox/net/poller/IocpPoller.cpp), the poller of the    *)
(* Windows build: zero-byte WSARecv and WSASend are posted for a channel's *)
(* interest and their completions are handed to the loop as read and write *)
(* events.  A listening socket is looked at with select instead.           *)
(*                                                                         *)
(* A channel has one context with an OVERLAPPED for each direction, so a   *)
(* context is named by its channel.  Everything but the kernel runs on the *)
(* loop's thread; a completion may be queued between any two dequeuings.   *)
(***************************************************************************)
EXTENDS Integers, Sequences, FiniteSets

CONSTANTS
    Channels,   \* the channels, each registered at most once
    Listening,  \* those of listening sockets
    MaxReap     \* completions one poll dequeues: 128 in the code

ASSUME ChannelsAssumption == Listening \subseteq Channels
ASSUME MaxReapAssumption == MaxReap \in Nat \ {0}

VARIABLES
    events,         \* events_ of each channel
    registered,     \* channels with index_ >= 0
    context,        \* context(): "none", "live", or "dead" once in deadContexts_
    posted,         \* readPending and writePending of each context
    pendingPosts,   \* pendingPosts_
    selectChannels, \* selectChannels_
    pc,             \* "poll" inside poll, "loop" in handlers and functors, "terminated"
    reaped,         \* completions this poll has dequeued
    revents,        \* channelRevents, then revents_ of the active channels
    active,         \* activeChannels not yet handled
    socket,         \* "connecting", "up", "reset" or "closed"
    unread,         \* there is something to read, or to accept
    inflight,       \* operations the kernel holds
    port,           \* the completion port: its queue of completions
    heard           \* history: directions completed since the channel's last update

tables == <<registered, context, pendingPosts, selectChannels>>
pollVars == <<pc, reaped, revents, active>>
kernel == <<socket, unread>>
vars == <<events, tables, posted, pollVars, kernel, inflight, port, heard>>

Directions == {"R", "W"}
Completions == [channel : Channels, op : Directions, ok : BOOLEAN]

TypeOK ==
    /\ {events, posted, inflight, heard} \subseteq [Channels -> SUBSET Directions]
    /\ registered \subseteq Channels /\ pendingPosts \subseteq Channels
    /\ selectChannels \subseteq Channels /\ active \subseteq Channels
    /\ context \in [Channels -> {"none", "live", "dead"}]
    /\ pc \in {"poll", "loop", "terminated"}
    /\ reaped \in 0..MaxReap
    /\ revents \in [Channels -> SUBSET {"R", "W", "E"}]
    /\ socket \in [Channels -> {"connecting", "up", "reset", "closed"}]
    /\ unread \in [Channels -> BOOLEAN]
    /\ port \in Seq(Completions)

Init ==
    /\ events = [c \in Channels |-> {}] /\ posted = events
    /\ inflight = events /\ heard = events /\ revents = events
    /\ registered = {} /\ pendingPosts = {} /\ selectChannels = {} /\ active = {}
    /\ context = [c \in Channels |-> "none"]
    /\ pc = "loop" /\ reaped = 0 /\ port = <<>>
    /\ socket \in [Channels -> {"connecting", "up"}]
    /\ \A c \in Listening : socket[c] = "up"
    /\ unread = [c \in Channels |-> FALSE]

-----------------------------------------------------------------------------
(* Registration, by handlers and functors of the loop.                     *)

\* The answers of WSARecv and WSASend, as the set of the directions that are
\* accepted.  Neither is while the socket connects; when it is up a send fails
\* alone once its sending side was shut down; after a reset anything may.
Accepted(c) ==
    CASE socket[c] = "connecting" -> {{}}
      [] socket[c] = "up" -> {{"R"}, Directions}
      [] OTHER -> SUBSET Directions

\* A listening socket goes to select, another to the posts poll will try.
Enlist(c, interest) ==
    /\ selectChannels' = IF c \in Listening THEN selectChannels \cup {c} ELSE selectChannels
    /\ pendingPosts' = IF c \notin Listening /\ interest # {}
                       THEN pendingPosts \cup {c} ELSE pendingPosts

\* updateChannel, called by Channel::enable* and disable*.
UpdateChannel(c, interest) ==
    /\ pc = "loop" /\ socket[c] # "closed"
    /\ events' = [events EXCEPT ![c] = interest]
    /\ heard' = [heard EXCEPT ![c] = {}]
    /\ registered' = registered \cup {c}
    /\ context' = [context EXCEPT ![c] = "live"]
    /\ Enlist(c, interest)
    /\ UNCHANGED <<posted, pollVars, kernel, inflight, port>>

\* CreateIoCompletionPort fails for a new channel: updateChannel returns.
UpdateChannelUnbound(c, interest) ==
    /\ pc = "loop" /\ socket[c] # "closed"
    /\ c \notin registered
    /\ events' = [events EXCEPT ![c] = interest]
    /\ UNCHANGED <<tables, posted, pollVars, kernel, inflight, port, heard>>

\* Mutant of RemoveChannel: the context keeps its pointer to the channel.
RemoveChannelKeepingContext(c) ==
    /\ pc = "loop" /\ active = {}
    /\ events[c] = {} /\ socket[c] # "closed" /\ context[c] = "live"
    /\ registered' = registered \ {c}
    /\ pendingPosts' = pendingPosts \ {c} /\ selectChannels' = selectChannels \ {c}
    /\ socket' = [socket EXCEPT ![c] = "closed"]
    /\ UNCHANGED <<context, events, posted, pollVars, unread, inflight, port, heard>>

\* removeChannel, after disableAll and before the descriptor is closed, in a
\* functor: TcpConnection::connectDestroyed.
RemoveChannel(c) ==
    /\ pc = "loop" /\ active = {}
    /\ events[c] = {} /\ socket[c] # "closed" /\ context[c] = "live"
    /\ registered' = registered \ {c}
    /\ pendingPosts' = pendingPosts \ {c} /\ selectChannels' = selectChannels \ {c}
    /\ context' = [context EXCEPT ![c] = "dead"]
    /\ socket' = [socket EXCEPT ![c] = "closed"]
    /\ UNCHANGED <<events, posted, pollVars, unread, inflight, port, heard>>

\* Without a context any_cast throws, and nobody catches it.
RemoveChannelUnbound(c) ==
    /\ pc = "loop" /\ active = {}
    /\ events[c] = {} /\ socket[c] # "closed" /\ context[c] = "none"
    /\ pc' = "terminated"
    /\ UNCHANGED <<events, tables, posted, reaped, revents, active, kernel, inflight, port, heard>>

-----------------------------------------------------------------------------
(* poll.                                                                   *)

\* The directions poll still has to post for c.
Missing(c) == events[c] \ posted[c]

\* Mutant of Remaining: `done' is what the last post tried has made of it.
RemainingByLastPost(ok) ==
    {c \in pendingPosts : IF "W" \in Missing(c) THEN "W" \notin ok[c]
                                               ELSE ~(Missing(c) \subseteq ok[c])}

\* A channel stays in pendingPosts_ while a direction it wants is not accepted.
Remaining(ok) == {c \in pendingPosts : ~(Missing(c) \subseteq ok[c])}

\* The posts that are missing are tried, each direction by itself.
StartPoll ==
    /\ pc = "loop" /\ active = {}
    /\ \E ok \in [Channels -> SUBSET Directions] :
          /\ \A c \in Channels : ok[c] \in Accepted(c)
          /\ LET new == [c \in Channels |->
                            IF c \in pendingPosts THEN Missing(c) \cap ok[c] ELSE {}]
             IN  /\ posted' = [c \in Channels |-> posted[c] \cup new[c]]
                 /\ inflight' = [c \in Channels |-> inflight[c] \cup new[c]]
          /\ pendingPosts' = Remaining(ok)
    /\ pc' = "poll"
    /\ UNCHANGED <<events, registered, context, selectChannels, reaped, revents, active, kernel,
                   port, heard>>

\* Mutant of Dequeue: one completion more than the limit.
DequeueOneMore ==
    /\ pc = "poll"
    /\ port # <<>> /\ reaped <= MaxReap
    /\ port' = Tail(port)
    /\ reaped' = reaped + 1

Dequeue ==
    /\ pc = "poll"
    /\ port # <<>> /\ reaped < MaxReap
    /\ port' = Tail(port)
    /\ reaped' = reaped + 1

\* A completion of a channel that was removed.
ReapDead ==
    /\ Dequeue
    /\ context[Head(port).channel] = "dead"
    /\ posted' = [posted EXCEPT ![Head(port).channel] = {}]
    /\ UNCHANGED <<events, tables, pc, revents, active, kernel, inflight, heard>>

\* A read is posted again at once, if wanted and not already reported in this
\* poll (alreadyHasRead): the first read completion of a poll is, a second is not.
Reposts(c, d) == d.op = "R" /\ d.ok /\ "R" \in events[c] \ revents[c]

Reap ==
    /\ Dequeue
    /\ LET d == Head(port)
           c == d.channel
       IN  /\ context[c] = "live"
           /\ revents' = [revents EXCEPT ![c] =
                             @ \cup (IF d.ok THEN {d.op} \cap events[c] ELSE {"E"})]
           /\ heard' = [heard EXCEPT ![c] = @ \cup {d.op}]
           /\ \E ok \in Accepted(c) :
                 LET again == IF Reposts(c, d) THEN {"R"} \cap ok ELSE {}
                 IN  /\ posted' = [posted EXCEPT ![c] = (@ \ {d.op}) \cup again]
                     /\ inflight' = [inflight EXCEPT ![c] = @ \cup again]
    /\ UNCHANGED <<events, tables, pc, active, kernel>>

\* The queue is empty, when the time is up, or enough was dequeued: the active
\* channels are those with events and the listening ones select finds readable.
FinishPoll ==
    /\ pc = "poll"
    /\ port = <<>> \/ reaped = MaxReap
    /\ LET readable == {c \in selectChannels : unread[c] /\ "R" \in events[c]}
       IN  /\ active' = {c \in Channels : revents[c] # {}} \cup readable
           /\ revents' = [c \in Channels |-> IF c \in readable THEN {"R"} ELSE revents[c]]
    /\ pc' = "loop" /\ reaped' = 0
    /\ UNCHANGED <<events, tables, posted, kernel, inflight, port, heard>>

\* Channel::handleEvent: a read handler calls recv or accept once, which may
\* leave something behind.
HandleEvent(c) ==
    /\ pc = "loop" /\ c \in active
    /\ active' = active \ {c} /\ revents' = [revents EXCEPT ![c] = {}]
    /\ unread' \in {unread} \cup
          (IF "R" \in revents[c] THEN {[unread EXCEPT ![c] = FALSE]} ELSE {})
    /\ UNCHANGED <<events, tables, posted, pc, reaped, socket, inflight, port, heard>>

-----------------------------------------------------------------------------
(* The kernel and the peers.                                               *)

\* A connection is established, data arrives or is waiting to be accepted, the
\* peer resets.
SocketMoves(c, from, to) ==
    /\ socket[c] = from
    /\ socket' = [socket EXCEPT ![c] = to]
    /\ UNCHANGED <<events, tables, posted, pollVars, unread, inflight, port, heard>>

Arrives(c) ==
    /\ socket[c] = "up" /\ ~unread[c]
    /\ unread' = [unread EXCEPT ![c] = TRUE]
    /\ UNCHANGED <<events, tables, posted, pollVars, socket, inflight, port, heard>>

\* A posted operation ends: with success when there is something to read, or
\* at any time for a write of no bytes; with an error when the connection was
\* reset or the socket closed.
Complete(c, op) ==
    /\ op \in inflight[c]
    /\ \E ok \in BOOLEAN :
          /\ IF ok THEN socket[c] = "up" /\ (op = "R" => unread[c])
                   ELSE socket[c] \in {"reset", "closed"}
          /\ port' = Append(port, [channel |-> c, op |-> op, ok |-> ok])
    /\ inflight' = [inflight EXCEPT ![c] = @ \ {op}]
    /\ UNCHANGED <<events, tables, posted, pollVars, kernel, heard>>

-----------------------------------------------------------------------------

PollStep == StartPoll \/ ReapDead \/ Reap \/ FinishPoll

KernelStep ==
    \E c \in Channels :
        \/ c \notin Listening /\ (SocketMoves(c, "connecting", "up") \/ SocketMoves(c, "up", "reset"))
        \/ Arrives(c)
        \/ \E op \in Directions : Complete(c, op)

Next ==
    \/ PollStep
    \/ \E c \in Channels : HandleEvent(c)
    \/ \E c \in Channels, interest \in SUBSET Directions :
          UpdateChannel(c, interest) \/ UpdateChannelUnbound(c, interest)
    \/ \E c \in Channels : RemoveChannel(c) \/ RemoveChannelUnbound(c)
    \/ KernelStep

Spec == Init /\ [][Next]_vars

(***************************************************************************)
(* Fairness: the loop polls, polls end, events are handled and read what   *)
(* there is in the end, and the kernel completes what it can.              *)
(***************************************************************************)
FairSpec ==
    /\ Spec
    /\ WF_vars(PollStep)
    /\ \A c \in Channels :
          /\ WF_vars(HandleEvent(c))
          /\ SF_vars(HandleEvent(c) /\ ~unread'[c])
          /\ \A op \in Directions : WF_vars(Complete(c, op))

-----------------------------------------------------------------------------
(* Properties.                                                             *)

\* The completions of one OVERLAPPED that are queued.
Queued(c, op) == {i \in DOMAIN port : port[i].channel = c /\ port[i].op = op}

\* The kernel never holds an OVERLAPPED twice, in whatever order retries, re-posts,
\* updates and removals come, and never one whose context does not exist; only
\* registered channels are reported: completions that come after removeChannel
\* find the context in deadContexts_ and are dropped.
CompletionsAreSafe ==
    \A c \in Channels :
        /\ \A op \in Directions :
              /\ Cardinality(Queued(c, op)) <= 1
              /\ op \in inflight[c] => Queued(c, op) = {} /\ context[c] # "none"
              /\ Queued(c, op) # {} => context[c] # "none"
        /\ (revents[c] # {} /\ pc = "poll") \/ c \in active => c \in registered

\* A direction a channel wants is posted or will be tried at the next poll, until
\* it was heard of once: interest that changes between polls, posts that fail
\* while the socket connects or after a reset, and a post that fails in one
\* direction beside one that succeeds in the other lose nothing.  After its first
\* completion a direction may be lost: DataIsRead.
InterestIsPosted ==
    \A c \in registered \ Listening :
        events[c] \subseteq posted[c] \cup heard[c] \/ c \in pendingPosts

\* Data that arrives for a channel that goes on reading is read: every readiness
\* is reported.  It is not: the read that completes twice in one poll, because its
\* data is still unread when it is posted again, is not posted a third time.
DataIsRead ==
    \A c \in Channels \ Listening :
        (unread[c] /\ c \in registered) ~>
            (~unread[c] \/ "R" \notin events[c] \/ socket[c] # "up" \/ pc = "terminated")
=============================================================================
