--------------------------- MODULE EventLoopProofs ---------------------------
(***************************************************************************)
(* What holds of EventLoop for all events, waits and backlogs: it has no   *)
(* lost wakeup, and it implements the safety part of Await.                *)
(***************************************************************************)
EXTENDS EventLoop, SequenceTheorems, TLAPS

(* recv_timeout leaves every variable in its type: time left is never     *)
(* negative, and Xlib's queue holds nothing but events (mod.rs:183-221).   *)
THEOREM LoopTypeCorrect == Spec => []TypeOK
  <1>1. Init => TypeOK
    <2>1. <<>> \in Seq(Kinds)
      BY EmptySeq
    <2>2. 0 \in 0 .. MaxSignals
      BY EventLoopAssumption
    <2> QED
      BY <2>1, <2>2 DEF Init, PipeInit, TypeOK
  <1>2. TypeOK /\ [Next]_vars => TypeOK'
    <2> SUFFICES ASSUME TypeOK, [Next]_vars PROVE TypeOK'
      OBVIOUS
    <2>1. CASE Come
      <3>1. socket' \in Seq(Kinds)
        BY <2>1 DEF Come, TypeOK
      <3> QED
        BY <2>1, <3>1 DEF Come, TypeOK
    <2>2. CASE Signal
      <3>1. signals' \in 0 .. MaxSignals
        BY <2>2, EventLoopAssumption DEF Signal, TypeOK
      <3> QED
        BY <2>2, <3>1 DEF Signal, TypeOK
    <2>3. CASE Tick
      <3>1. left' \in 0 .. MaxWait
        BY <2>3, EventLoopAssumption DEF Tick, Elapsed, TypeOK
      <3> QED
        BY <2>3, <3>1 DEF Tick, TypeOK
    <2>4. CASE RoundTrip
      <3>1. queue' \in Seq(Kinds) /\ socket' \in Seq(Kinds)
        BY <2>4, ConcatProperties, EmptySeq DEF RoundTrip, TypeOK
      <3> QED
        BY <2>4, <3>1 DEF RoundTrip, TypeOK
    <2>5. CASE Request
      BY <2>5 DEF Request, TypeOK
    <2>6. CASE Call
      BY <2>6, EventLoopAssumption DEF Call, TypeOK
    <2>7. CASE Pop
      <3>1. Found \in Seq(Kinds)
        BY DEF Found, TypeOK
      <3>2. socket' \in Seq(Kinds)
        BY <2>7, EmptySeq DEF Pop, TypeOK
      <3>3. CASE Found # <<>>
        <4>1. Head(Found) \in Kinds /\ Tail(Found) \in Seq(Kinds)
          BY <3>1, <3>3, HeadTailProperties
        <4> QED
          BY <2>7, <3>2, <3>3, <4>1 DEF Pop, TypeOK
      <3>4. CASE Found = <<>>
        BY <2>7, <3>2, <3>4 DEF Pop, TypeOK
      <3> QED
        BY <3>3, <3>4
    <2>8. CASE Check
      BY <2>8 DEF Check, TypeOK
    <2>9. CASE Wake
      BY <2>9 DEF Wake, Ready, TypeOK
    <2>10. CASE UNCHANGED vars
      BY <2>10 DEF vars, TypeOK
    <2> QED
      BY <2>1, <2>2, <2>3, <2>4, <2>5, <2>6, <2>7, <2>8, <2>9, <2>10
      DEF Next, Handler, Recv
  <1> QED
    BY <1>1, <1>2, PTL DEF Spec

-----------------------------------------------------------------------------
(* Why nothing is overlooked.  The poll has reported an arrival only if    *)
(* XCheckIfEvent is about to read the socket, with its queue empty; the    *)
(* loop comes past that point only if there was nothing to read.           *)
Watched ==
  /\ socket # <<>> => \/ "X" \in edges
                      \/ pc = "pop" /\ queue = <<>>
                      \/ pc = "exit"
  /\ pc \in {"check", "poll"} => queue = <<>> /\ ~kept
  /\ ~open <=> ("SIG" \in edges \/ pc = "exit")
  /\ pc \in {"check", "poll"} => clear
  /\ pc = "pop" /\ ~clear => queue \o socket # <<>>

LEMMA WatchedInvariant == Spec => []Watched
  <1>1. Init => Watched
    BY DEF Init, PipeInit, Watched
  <1>2. TypeOK /\ Watched /\ [Next]_vars => Watched'
    <2> SUFFICES ASSUME TypeOK, Watched, [Next]_vars PROVE Watched'
      OBVIOUS
    <2> USE DEF Watched
    <2>1. CASE Come
      <3>1. \A e : Append(socket, e) # <<>>
        BY DEF TypeOK
      <3>2. pc = "pop" /\ ~clear => (queue \o socket)' # <<>>
        <4> SUFFICES ASSUME pc = "pop", ~clear PROVE (queue \o socket)' # <<>>
          OBVIOUS
        <4>1. PICK e \in Kinds : socket' = Append(socket, e)
          BY <2>1 DEF Come
        <4>2. socket' \in Seq(Kinds) /\ queue' = queue
          BY <2>1, <4>1 DEF Come, TypeOK
        <4> QED
          BY <4>1, <4>2, <3>1, ConcatEqualIffEmpty DEF TypeOK
      <3> QED
        BY <2>1, <3>1, <3>2 DEF Come
    <2>2. CASE Signal
      BY <2>2 DEF Signal, TypeOK
    <2>3. CASE Tick
      BY <2>3 DEF Tick
    <2>4. CASE RoundTrip
      BY <2>4 DEF RoundTrip
    <2>5. CASE Request
      BY <2>5 DEF Request
    <2>6. CASE Call
      BY <2>6 DEF Call
    <2>7. CASE Pop
      <3>1. CASE queue # <<>>
        BY <2>7, <3>1 DEF Pop, Found
      <3>2. CASE queue = <<>> /\ socket # <<>>
        BY <2>7, <3>2 DEF Pop, Found
      <3>3. CASE queue = <<>> /\ socket = <<>>
        <4>1. queue \o socket = <<>>
          BY <3>3, ConcatEmptySeq DEF TypeOK
        <4> QED
          BY <2>7, <3>3, <4>1 DEF Pop, Found
      <3> QED
        BY <3>1, <3>2, <3>3
    <2>8. CASE Check
      BY <2>8 DEF Check
    <2>9. CASE Wake
      BY <2>9 DEF Wake, Ready
    <2>10. CASE UNCHANGED vars
      BY <2>10 DEF vars
    <2> QED
      BY <2>1, <2>2, <2>3, <2>4, <2>5, <2>6, <2>7, <2>8, <2>9, <2>10
      DEF Next, Handler, Recv
  <1> QED
    BY <1>1, <1>2, LoopTypeCorrect, PTL DEF Spec

(* The loop never sleeps over an event, a request kept back or a signal,   *)
(* although Xlib reads the socket behind the poll's back and the poll      *)
(* reports each readiness once (mod.rs:183-221).                           *)
THEOREM NoLostWakeup == Spec => []Wakeful
  <1>1. Watched => Wakeful
    BY DEF Watched, Wakeful
  <1> QED
    BY <1>1, WatchedInvariant, PTL

-----------------------------------------------------------------------------
(* What the steps do to the events not answered yet, queue \o socket. *)
LEMMA InboxGrows ==
  ASSUME TypeOK, Come
  PROVE  \E e \in Kinds : (queue \o socket)' = Append(queue \o socket, e)
  <1>1. PICK e \in Kinds : socket' = Append(socket, e) /\ queue' = queue
    BY DEF Come
  <1>2. Append(socket, e) = socket \o <<e>> /\ <<e>> \in Seq(Kinds)
    BY DEF TypeOK
  <1>3. queue \o socket \in Seq(Kinds)
    BY ConcatProperties DEF TypeOK
  <1>4. Append(queue \o socket, e) = (queue \o socket) \o <<e>>
    BY <1>3
  <1>5. (queue \o socket) \o <<e>> = queue \o (socket \o <<e>>)
    BY <1>2, ConcatAssociative DEF TypeOK
  <1> QED
    BY <1>1, <1>2, <1>4, <1>5

LEMMA InboxShrinks ==
  ASSUME TypeOK, Pop, queue \o socket # <<>>
  PROVE  /\ got' = Head(queue \o socket)
         /\ (queue \o socket)' = Tail(queue \o socket)
         /\ pc' = "handle"
  <1>1. CASE queue # <<>>
    <2>1. /\ got' = Head(queue) /\ queue' = Tail(queue)
          /\ socket' = socket /\ pc' = "handle"
      BY <1>1 DEF Pop, Found
    <2>2. Head(queue \o socket) = Head(queue)
      BY <1>1 DEF TypeOK
    <2>3. Tail(queue \o socket) = Tail(queue) \o socket
      BY <1>1 DEF TypeOK
    <2> QED
      BY <2>1, <2>2, <2>3
  <1>2. CASE queue = <<>>
    <2>1. queue \o socket = socket
      BY <1>2, ConcatEmptySeq DEF TypeOK
    <2>2. /\ got' = Head(socket) /\ queue' = Tail(socket)
          /\ socket' = <<>> /\ pc' = "handle"
      BY <1>2, <2>1 DEF Pop, Found
    <2>3. Tail(socket) \in Seq(Kinds)
      BY <2>1, HeadTailProperties DEF TypeOK
    <2>4. Tail(socket) \o <<>> = Tail(socket)
      BY <2>3, ConcatEmptySeq
    <2> QED
      BY <2>1, <2>2, <2>4
  <1> QED
    BY <1>1, <1>2

(* recv_timeout answers with every event once and in order, with those     *)
(* that were there before anything else, with None only if it was given a  *)
(* time, and with Quit only after a signal (mod.rs:183-221, lib.rs:172-203). *)
THEOREM Implements == Spec => A!Safe
  <1>1. Init => A!Init
    BY DEF Init, PipeInit, A!Init, Mode
  <1>2. TypeOK /\ Watched /\ [Next]_vars => [A!Next]_(A!vars)
    <2> SUFFICES ASSUME TypeOK, Watched, [Next]_vars
                 PROVE  A!Next \/ UNCHANGED A!vars
      BY DEF A!vars
    <2>0. Nothing \notin 0 .. MaxWait
      BY EventLoopAssumption
    <2>1. CASE Come
      BY <2>1, InboxGrows DEF Come, A!Next, A!Come, Mode
    <2>2. CASE Signal
      BY <2>2 DEF Signal, A!Next, A!Signal, Mode
    <2>3. CASE Tick
      <3>1. left' # Nothing
        BY <2>3, <2>0, EventLoopAssumption DEF Tick, Elapsed, TypeOK
      <3> QED
        BY <2>3, <3>1 DEF Tick, A!vars, Mode
    <2>4. CASE RoundTrip
      <3>1. (queue \o socket)' = queue \o socket
        BY <2>4, ConcatProperties, ConcatEmptySeq DEF RoundTrip, TypeOK
      <3> QED
        BY <2>4, <3>1 DEF RoundTrip, A!vars, Mode
    <2>5. CASE Request
      BY <2>5 DEF Request, A!vars, Mode
    <2>6. CASE Call
      BY <2>6 DEF Call, A!Next, A!Call, Mode
    <2>7. CASE Pop
      <3>1. CASE queue \o socket # <<>>
        BY <2>7, <3>1, InboxShrinks DEF Pop, Found, A!Next, A!Answer, A!AnswerEvent, Mode
      <3>2. CASE queue \o socket = <<>>
        <4>1. queue = <<>> /\ socket = <<>>
          BY <3>2, ConcatEqualIffEmpty DEF TypeOK
        <4> QED
          BY <2>7, <4>1 DEF Pop, Found, A!vars, Mode
      <3> QED
        BY <3>1, <3>2
    <2>8. CASE Check
      <3>1. CASE left = 0
        BY <2>8, <3>1, <2>0, EventLoopAssumption
        DEF Check, Watched, A!Next, A!Answer, A!AnswerNothing, Mode
      <3>2. CASE left # 0
        BY <2>8, <3>2 DEF Check, A!vars, Mode
      <3> QED
        BY <3>1, <3>2
    <2>9. CASE Wake
      <3>1. CASE "SIG" \in Ready
        BY <2>9, <3>1 DEF Wake, Ready, Watched, A!Next, A!Answer, A!AnswerQuit, Mode
      <3>2. CASE "SIG" \notin Ready
        BY <2>9, <3>2 DEF Wake, A!vars, Mode
      <3> QED
        BY <3>1, <3>2
    <2>10. CASE UNCHANGED vars
      BY <2>10 DEF vars, A!vars, Mode
    <2> QED
      BY <2>1, <2>2, <2>3, <2>4, <2>5, <2>6, <2>7, <2>8, <2>9, <2>10
      DEF Next, Handler, Recv
  <1> QED
    BY <1>1, <1>2, LoopTypeCorrect, WatchedInvariant, PTL DEF Spec, A!Safe
=============================================================================
