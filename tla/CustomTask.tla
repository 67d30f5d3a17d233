----------------------------- MODULE CustomTask -----------------------------
(***************************************************************************)
(* examples/custom.rs: connections whose handlers are tasks for two        *)
(* strategies.  While the server runs, a poll reads from the connection;   *)
(* when its time is up, the strategy is replaced by the goodbye message    *)
(* and a poll writes and shuts down.  The selector is TaskPool.            *)
(*                                                                         *)
(* TCP and the runtime are external code.  A socket keeps one waker for    *)
(* reading and one for writing, from the last poll of each kind that       *)
(* returned Pending.                                                       *)
(***************************************************************************)
EXTENDS TaskPool

CONSTANT MsgLen  \* the length of the goodbye message

ASSUME CustomAssumption == MsgLen \in Nat

VARIABLES
  phase,    \* of main: accepting, stopped, in for_each, over
  peer,     \* where each send_data is
  accepted, \* the connections that main took from the listener
  unread,   \* the connections on which its greeting waits to be read
  interest, \* the wakers that each socket keeps
  blocked,  \* the sockets whose send buffer is full
  offset,   \* TcpStreamHandler::write_offset
  got,      \* the bytes each peer was sent, by their place in the message
  shut,     \* the sockets of which the writing half was shut down
  failed    \* the handlers that returned an error

connVars == <<phase, peer, accepted, unread, interest, blocked, offset, got,
              shut, failed>>
allConnVars == <<poolVars, connVars>>

CustomInit ==
  /\ PoolInit
  /\ phase = "serve"
  /\ peer = [t \in Nodes |-> "away"]
  /\ accepted = {} /\ unread = {} /\ blocked = {} /\ shut = {} /\ failed = {}
  /\ interest = [t \in Nodes |-> {}]
  /\ offset = [t \in Nodes |-> 0]
  /\ got = [t \in Nodes |-> <<>>]

\* The socket became ready for something.
WakeFor(t, kinds) ==
  /\ WakeTasks({u \in {t} \cap stored : interest[u] \cap kinds # {}})
  /\ interest' = [interest EXCEPT ![t] = @ \ kinds]

----------------------------------------------------------------------------
(* send_data *)

\* The listener's backlog takes the connection, whether main accepts it later,
\* or never because its time is up.
Connect(t) ==
  /\ phase # "over"
  /\ peer[t] = "away"
  /\ peer' = [peer EXCEPT ![t] = "connected"]
  /\ UNCHANGED <<poolVars, phase, accepted, unread, interest, blocked, offset, got,
                 shut, failed>>

\* write_all of the greeting; then read_to_string.
Greet(t) ==
  /\ peer[t] = "connected"
  /\ peer' = [peer EXCEPT ![t] = "listening"]
  /\ unread' = unread \cup {t}
  /\ WakeFor(t, {"read"})
  /\ UNCHANGED <<phase, accepted, blocked, offset, got, shut, failed>>

\* The greeting fails and the connection is closed: nothing blocks any more.
Disconnect(t) ==
  /\ peer[t] = "connected"
  /\ peer' = [peer EXCEPT ![t] = "gone"]
  /\ WakeFor(t, {"read", "write"})
  /\ blocked' = blocked \ {t}
  /\ UNCHANGED <<phase, accepted, unread, offset, got, shut, failed>>

\* The peer takes what is in its buffer, which makes room in ours.
Drain(t) ==
  /\ t \in blocked /\ peer[t] = "listening"
  /\ blocked' = blocked \ {t}
  /\ WakeFor(t, {"write"})
  /\ UNCHANGED <<phase, peer, accepted, unread, offset, got, shut, failed>>

\* The end of the stream: shut down, or closed with the handler.
HearEnd(t) ==
  /\ peer[t] = "listening"
  /\ t \in shut \cup (accepted \ stored)
  /\ peer' = [peer EXCEPT ![t] = "done"]
  /\ UNCHANGED <<poolVars, phase, accepted, unread, interest, blocked, offset, got,
                 shut, failed>>

\* main has returned: its listener is closed and the runtime drops the peer.
Cancel(t) ==
  /\ phase = "over"
  /\ peer[t] \in {"connected", "listening"}
  /\ peer' = [peer EXCEPT ![t] = "gone"]
  /\ UNCHANGED <<poolVars, phase, accepted, unread, interest, blocked, offset, got,
                 shut, failed>>

----------------------------------------------------------------------------
(* main *)

\* The peer may have sent its greeting by now, or have gone.
Accept(t) ==
  /\ phase = "serve"
  /\ peer[t] # "away" /\ t \notin accepted
  /\ accepted' = accepted \cup {t}
  /\ Extend({t})
  /\ UNCHANGED <<phase, peer, unread, interest, blocked, offset, got, shut, failed>>

\* Mutant: relies on the wakeups of the sockets.
StopQuietly ==
  /\ phase = "serve" /\ Unborrowed
  /\ phase' = "stopped"
  /\ UNCHANGED <<poolVars, peer, accepted, unread, interest, blocked, offset, got,
                 shut, failed>>

\* The timeout, with_strategy and wake_all.
Stop ==
  /\ phase = "serve" /\ Unborrowed
  /\ phase' = "stopped"
  /\ WakeTasks(stored)
  /\ UNCHANGED <<peer, accepted, unread, interest, blocked, offset, got, shut, failed>>

\* The select loop, and then for_each, polls the selector.
CustomPollAgain ==
  /\ phase # "over" /\ ~(phase = "goodbye" /\ status = "none")
  /\ CallPollNext
  /\ phase' = IF phase = "stopped" THEN "goodbye" ELSE phase
  /\ UNCHANGED <<peer, accepted, unread, interest, blocked, offset, got, shut, failed>>

\* for_each has seen None.
Return ==
  /\ phase = "goodbye" /\ status = "none"
  /\ phase' = "over"
  /\ UNCHANGED <<poolVars, peer, accepted, unread, interest, blocked, offset, got,
                 shut, failed>>

----------------------------------------------------------------------------
(* poll_progress of TcpStreamHandler, as a Task<Vec<u8>> *)

ReadPending ==
  /\ phase = "serve"
  /\ current \notin unread /\ peer[current] # "gone"
  /\ EndPoll("pending", FALSE, {})
  /\ interest' = [interest EXCEPT ![current] = @ \cup {"read"}]
  /\ UNCHANGED <<phase, peer, accepted, unread, blocked, offset, got, shut, failed>>

ReadData ==
  /\ phase = "serve"
  /\ current \in unread
  /\ EndPoll("continue", TRUE, {})
  /\ unread' = unread \ {current}
  /\ UNCHANGED <<phase, peer, accepted, interest, blocked, offset, got, shut, failed>>

ReadEnd ==
  /\ phase = "serve"
  /\ current \notin unread /\ peer[current] = "gone"
  /\ EndPoll("break", TRUE, {})
  /\ UNCHANGED connVars

(* ... and as a Task<&[u8]> *)

\* Mutant: forgets how far the last poll got.
WritesToStale(o) ==
  /\ o \in offset[current]..MsgLen
  /\ current \in blocked => o = offset[current]
  /\ got' = [got EXCEPT ![current] =
               @ \o [i \in 1..(o - offset[current]) |-> offset[current] + i]]
  /\ UNCHANGED offset

\* The loop of poll_shutdown writes the rest of the message up to o.
WritesTo(o) ==
  /\ o \in offset[current]..MsgLen
  /\ current \in blocked => o = offset[current]
  /\ got' = [got EXCEPT ![current] =
               @ \o [i \in 1..(o - offset[current]) |-> offset[current] + i]]
  /\ offset' = [offset EXCEPT ![current] = o]

\* The send buffer is full before the message is complete; one that is not
\* takes something first.
WritePending ==
  /\ phase = "goodbye" /\ current \in stored
  /\ peer[current] # "gone"
  /\ \E o \in 0..MsgLen :
       /\ current \notin blocked => o > offset[current]
       /\ o < MsgLen
       /\ WritesTo(o)
  /\ EndPoll("pending", FALSE, {})
  /\ blocked' = blocked \cup {current}
  /\ interest' = [interest EXCEPT ![current] = @ \cup {"write"}]
  /\ UNCHANGED <<phase, peer, accepted, unread, shut, failed>>

\* Nothing is left to write: poll_shutdown of the socket.
ShutDown ==
  /\ phase = "goodbye" /\ current \in stored
  /\ WritesTo(MsgLen)
  /\ EndPoll("break", TRUE, {})
  /\ shut' = shut \cup {current}
  /\ UNCHANGED <<phase, peer, accepted, unread, interest, blocked, failed>>

\* An error of the socket, or a write of nothing.
Fail ==
  /\ phase \in {"serve", "goodbye"} /\ current \in stored
  /\ IF phase = "serve"
     THEN UNCHANGED <<offset, got>>
     ELSE \E o \in 0..MsgLen : WritesTo(o)
  /\ EndPoll("break", TRUE, {})
  /\ failed' = failed \cup {current}
  /\ UNCHANGED <<phase, peer, accepted, unread, interest, blocked, shut>>

PollHandler ==
  /\ current \in stored
  /\ ReadPending \/ ReadData \/ ReadEnd \/ WritePending \/ ShutDown \/ Fail

CustomPollStep ==
  \/ (TakeStock \/ TakeTask \/ GiveUp \/ SkipRemoved) /\ UNCHANGED connVars
  \/ PollHandler

----------------------------------------------------------------------------

Terminated ==
  /\ phase = "over"
  /\ \A t \in Nodes : peer[t] \in {"away", "gone", "done"}
  /\ UNCHANGED allConnVars

CustomNext ==
  \/ \E t \in Nodes :
       \/ Connect(t) \/ Greet(t) \/ Disconnect(t) \/ Drain(t) \/ HearEnd(t) \/ Cancel(t)
       \/ Accept(t)
       \/ (Enter(t) /\ UNCHANGED connVars)
  \/ Stop \/ CustomPollAgain \/ Return \/ CustomPollStep
  \/ Terminated

CustomSpec == CustomInit /\ [][CustomNext]_allConnVars

(***************************************************************************)
(* A connected peer sends its greeting and takes what it is sent, the      *)
(* timeout elapses, and the selector is polled when it has to be (as in    *)
(* Strategies).  No peer has to connect, to be accepted or to hear the     *)
(* end; the runtime drops them when main returns.                          *)
(***************************************************************************)
CustomFairness ==
  /\ \A t \in Nodes :
       /\ WF_allConnVars(Greet(t)) /\ WF_allConnVars(Drain(t)) /\ WF_allConnVars(Cancel(t))
       /\ WF_allConnVars(Enter(t) /\ UNCHANGED connVars)
  /\ SF_allConnVars(Stop)
  /\ WF_allConnVars(CustomPollAgain /\ (phase = "stopped" \/ roused \/ ~Asleep(status)))
  /\ WF_allConnVars(CustomPollStep)
  /\ SF_allConnVars(TakeTask /\ UNCHANGED connVars)
  /\ WF_allConnVars(Return)

CustomFairSpec == CustomSpec /\ CustomFairness

----------------------------------------------------------------------------
(* Properties *)

CustomTypeOK ==
  /\ PoolTypeOK
  /\ phase \in {"serve", "stopped", "goodbye", "over"}
  /\ peer \in [Nodes -> {"away", "connected", "listening", "gone", "done"}]
  /\ accepted \cup unread \cup blocked \cup shut \cup failed \subseteq Nodes
  /\ interest \in [Nodes -> SUBSET {"read", "write"}]
  /\ offset \in [Nodes -> 0..MsgLen] /\ got \in [Nodes -> Seq(1..MsgLen)]

\* However the goodbye message is cut up by a socket that takes it bit by bit,
\* and whatever wakes the handler in between, its peer gets it from the start,
\* in order and without repetition, and all of it before the end of the stream
\* unless the handler reported an error.
GoodbyeInOrder ==
  \A t \in Nodes :
    /\ \A i \in 1..Len(got[t]) : got[t][i] = i
    /\ peer[t] = "done" /\ t \notin failed => Len(got[t]) = MsgLen

\* The first o bytes of the message.
IsPrefix(s, o) == Len(s) = o /\ \A i \in 1..o : s[i] = i

\* What a peer was sent is the message up to the offset.
GotPrefix == \A t \in Nodes : IsPrefix(got[t], offset[t])

\* An accepted handler whose peer still waits for the end of the stream was
\* either shut down, or it failed, or it is still there; and nobody is shut down, or
\* has heard the end without a failure, before the message is complete.
EndInTime ==
  \A t \in Nodes :
    /\ t \in shut => offset[t] = MsgLen
    /\ peer[t] \in {"connected", "listening"} /\ t \in accepted \ stored =>
         t \in shut \cup failed
    /\ peer[t] = "done" /\ t \notin failed => offset[t] = MsgLen

\* A connection was accepted once, and is shut down once.
PeersPlaced ==
  \A t \in Nodes :
    /\ peer[t] = "away" => t \notin accepted
    /\ t \notin accepted => t \notin stored \cup shut /\ peer[t] # "done"
    /\ t \in stored => t \notin shut /\ peer[t] # "done"

\* The socket has nothing for the handler, and its waker for what the phase is
\* about.
Idle(t) ==
  /\ peer[t] # "gone"
  /\ \/ phase = "serve" /\ "read" \in interest[t] /\ t \notin unread
     \/ phase = "goodbye" /\ "write" \in interest[t] /\ t \in blocked

\* No handler is stuck: it is going to be polled, or its socket will wake it;
\* nothing is waited for in vain after the strategy was replaced.
HandlersComing ==
  /\ \A t \in stored : Coming(t) \/ Idle(t)
  /\ phase = "over" => status = "none"
  /\ phase \in {"goodbye", "over"} /\ status = "none" => stored = {}

\* All of this is invariant together.
CustomInv ==
  /\ CustomTypeOK /\ PoolInv
  /\ GotPrefix /\ EndInTime
  /\ PeersPlaced /\ HandlersComing

\* "We need to manually wake all tasks ... because previous poll left them
\* waiting for incoming data": main returns, although handlers sleep when the
\* strategy is replaced and peers connect until the end, and every connection is
\* closed, the ones that were never accepted included.
EverybodyLeaves ==
  <>(phase = "over" /\ stored = {}
     /\ \A t \in Nodes : peer[t] \notin {"connected", "listening"})
=============================================================================
