------------------------------ MODULE EventLoop ------------------------------
(***************************************************************************)
(* How kseqi waits: Xdll::recv_timeout of src/xdl/mod.rs over the queue of *)
(* Xlib, a socket, a poll that reports each readiness once, and the pipe   *)
(* that the signal handler of src/signal.rs closes.                        *)
(*                                                                         *)
(* Two hazards meet here.  Xlib reads events from the socket while it      *)
(* waits for the reply to some request, and keeps requests back until it   *)
(* has a reason to write; the poll knows nothing of either.  And mio asks  *)
(* epoll for edges: what has been reported once is not reported again.     *)
(*                                                                         *)
(* Key events of the core protocol, and the pairing of their repetitions   *)
(* (pop_event_repress), are left out: kseqi never selects them.            *)
(***************************************************************************)
EXTENDS Integers, Sequences

CONSTANTS
  Kinds,       \* events, as far as they need to be told apart
  Nothing,     \* None: no event, no deadline
  Quit,        \* Event::Quit
  MaxWait,     \* the longest time recv_timeout is given
  MaxBacklog,  \* how many events are waiting at most
  MaxSignals   \* how often the process is sent a signal

ASSUME EventLoopAssumption ==
  /\ {MaxWait, MaxBacklog, MaxSignals} \subseteq Nat
  /\ {Nothing, Quit} \cap Kinds = {}
  /\ Nothing \notin Nat

VARIABLES
  socket,   \* events sent by the server, unread
  queue,    \* events read by Xlib
  kept,     \* whether Xlib keeps a request back
  edges,    \* what the poll has not reported: "X", "SIG"
  open,     \* whether PIPE_SENDER holds the sender
  signals,  \* how many signals have come
  pc,       \* "handle" while Main is at work; "pop", "check" and "poll" in
            \* recv_timeout; "exit" after Quit
  left,     \* the time until the deadline, or Nothing
  got,      \* the last answer of recv_timeout
  clear     \* history: whether no event was there when recv_timeout was called

vars == <<socket, queue, kept, edges, open, signals, pc, left, got, clear>>

TypeOK ==
  /\ {socket, queue} \subseteq Seq(Kinds)
  /\ kept \in BOOLEAN
  /\ edges \in SUBSET {"X", "SIG"}
  /\ open \in BOOLEAN
  /\ signals \in 0 .. MaxSignals
  /\ pc \in {"handle", "pop", "check", "poll", "exit"}
  /\ left \in 0 .. MaxWait \cup {Nothing}
  /\ got \in Kinds \cup {Nothing, Quit}
  /\ clear \in BOOLEAN

\* quit_recver
PipeInit == open = TRUE /\ signals = 0

\* Xdll::newx
Init == /\ socket = <<>> /\ queue = <<>> /\ kept = FALSE /\ edges = {}
        /\ PipeInit
        /\ pc = "handle" /\ left = Nothing /\ got = Nothing /\ clear = TRUE

Waiting == {"pop", "check", "poll"}

-----------------------------------------------------------------------------
(* The surroundings. *)

Come ==
  /\ pc # "exit" /\ Len(queue) + Len(socket) < MaxBacklog
  /\ \E e \in Kinds : socket' = Append(socket, e)
  /\ edges' = edges \cup {"X"}
  /\ UNCHANGED <<queue, kept, open, signals, pc, left, got, clear>>

\* Mutant: the sender is dropped only if the loop is not asleep.
SignalAwake ==
  /\ pc # "exit" /\ signals < MaxSignals /\ signals' = signals + 1
  /\ open' = (open /\ pc = "poll")
  /\ edges' = IF open /\ pc # "poll" THEN edges \cup {"SIG"} ELSE edges
  /\ pc' \in {pc} \cup (IF pc = "poll" THEN {"pop"} ELSE {})
  /\ UNCHANGED <<socket, queue, kept, left, got, clear>>

\* os_handler drops the sender the first time and finds None after that.  (A
\* signal that comes between its take and its drop finds either; closing the
\* descriptor once more does nothing.)  poll may return at once, with EINTR
\* and nothing to report.
Signal ==
  /\ pc # "exit" /\ signals < MaxSignals /\ signals' = signals + 1
  /\ open' = FALSE
  /\ edges' = IF open THEN edges \cup {"SIG"} ELSE edges
  /\ pc' \in {pc} \cup (IF pc = "poll" THEN {"pop"} ELSE {})
  /\ UNCHANGED <<socket, queue, kept, left, got, clear>>

\* Mutant: time left, without saturation.
ElapsedBelow(t) == t - 1

\* saturating_duration_since
Elapsed(t) == IF t = 0 THEN 0 ELSE t - 1

Tick ==
  /\ pc \in Waiting /\ left # Nothing
  /\ left' = Elapsed(left)
  /\ UNCHANGED <<socket, queue, kept, edges, open, signals, pc, got, clear>>

-----------------------------------------------------------------------------
(* A handler of Main, as far as it uses this connection. *)

\* Mutant: events read on the way to the reply are dropped.
RoundTripDiscards ==
  /\ pc = "handle"
  /\ socket' = <<>> /\ kept' = FALSE
  /\ UNCHANGED <<queue, edges, open, signals, pc, left, got, clear>>

\* A request with a reply (dev_floating, grab_device): Xlib writes what it
\* kept and, until it finds the reply, queues the events it reads.
RoundTrip ==
  /\ pc = "handle"
  /\ queue' = queue \o socket /\ socket' = <<>> /\ kept' = FALSE
  /\ UNCHANGED <<edges, open, signals, pc, left, got, clear>>

\* A request without a reply (ungrab_device, select_dev_events).
Request ==
  /\ pc = "handle"
  /\ kept' = TRUE
  /\ UNCHANGED <<socket, queue, edges, open, signals, pc, left, got, clear>>

-----------------------------------------------------------------------------
(* recv_timeout *)

Call ==
  /\ pc = "handle" /\ pc' = "pop"
  /\ left' \in 1 .. MaxWait \cup {Nothing}
  /\ clear' = (queue \o socket = <<>>)
  /\ UNCHANGED <<socket, queue, kept, edges, open, signals, got>>

\* Mutant: XCheckIfEvent's predicate is false for what is read just now.
PopLater ==
  /\ pc = "pop"
  /\ IF queue # <<>>
       THEN /\ got' = Head(queue) /\ queue' = Tail(queue) /\ pc' = "handle"
            /\ UNCHANGED <<socket, kept>>
       ELSE /\ queue' = socket /\ socket' = <<>> /\ kept' = FALSE /\ pc' = "check"
            /\ UNCHANGED got
  /\ UNCHANGED <<edges, open, signals, left, clear>>

\* Where XCheckIfEvent finds an event: in the queue or, if that is empty, in
\* what it reads from the socket.
Found == IF queue # <<>> THEN queue ELSE socket

\* pop_event, which makes an Event of the first event there is, of whatever
\* type; if there is none XCheckIfEvent writes what was kept.
Pop ==
  /\ pc = "pop"
  /\ socket' = IF queue # <<>> THEN socket ELSE <<>>
  /\ IF Found # <<>>
       THEN got' = Head(Found) /\ queue' = Tail(Found) /\ pc' = "handle" /\ UNCHANGED kept
       ELSE kept' = FALSE /\ pc' = "check" /\ UNCHANGED <<got, queue>>
  /\ UNCHANGED <<edges, open, signals, left, clear>>

Check ==
  /\ pc = "check"
  /\ IF left = 0 THEN got' = Nothing /\ pc' = "handle"
                 ELSE pc' = "poll" /\ UNCHANGED got
  /\ UNCHANGED <<socket, queue, kept, edges, open, signals, left, clear>>

\* What epoll reports: "X" only while the socket still has something.
Ready == edges \ (IF socket = <<>> THEN {"X"} ELSE {})

\* Mutant: the first report is looked at and the others are dropped.
WakeFirst ==
  /\ pc = "poll" /\ (Ready # {} \/ left = 0)
  /\ edges' = edges \ Ready
  /\ IF Ready = {"SIG"} THEN got' = Quit /\ pc' = "exit"
                        ELSE pc' = "pop" /\ UNCHANGED got
  /\ UNCHANGED <<socket, queue, kept, open, signals, left, clear>>

\* poll returns, with everything that is ready or because time is up.
Wake ==
  /\ pc = "poll" /\ (Ready # {} \/ left = 0)
  /\ edges' = edges \ Ready
  /\ IF "SIG" \in Ready THEN got' = Quit /\ pc' = "exit"
                        ELSE pc' = "pop" /\ UNCHANGED got
  /\ UNCHANGED <<socket, queue, kept, open, signals, left, clear>>

Handler == RoundTrip \/ Request

Recv == Call \/ Pop \/ Check \/ Wake

Next == Come \/ Signal \/ Tick \/ Handler \/ Recv

Spec == Init /\ [][Next]_vars

\* Main calls recv_timeout again and again, which goes on where it can, and
\* time passes.  Nothing is assumed of the server and of signals.
Fairness == WF_vars(Recv) /\ WF_vars(Tick)

FairSpec == Spec /\ Fairness

-----------------------------------------------------------------------------
(* Properties. *)

\* While the loop sleeps nothing is overlooked: every event is one that the
\* poll will report, no request is kept from the server (else a keyboard
\* given back by unfloat would stay grabbed until the next key, lib.rs:161),
\* and a signal that has come is one that it will report, too.
Wakeful ==
  pc = "poll" => /\ queue = <<>>
                 /\ socket # <<>> => "X" \in edges
                 /\ ~kept
                 /\ ~open => "SIG" \in edges

\* recv_timeout does what its callers rely on: see Await.
Mode == CASE pc = "handle" -> "busy" [] pc = "exit" -> "gone" [] OTHER -> "waiting"

A == INSTANCE Await WITH
       inbox <- queue \o socket, mode <- Mode, impatient <- left # Nothing,
       signalled <- ~open, answer <- got

Awaits == A!Spec

\* A signal ends kseqi once no more events come, provided that the loop gets
\* to sleep again and again: recv_timeout looks for the signal only when there
\* are no events (mod.rs:205) and time is left for the poll (mod.rs:201).
QuitSeen ==
  (<>[](queue \o socket = <<>>) /\ []<>(pc \in {"poll", "exit"}))
     => (~open ~> pc = "exit")
=============================================================================
