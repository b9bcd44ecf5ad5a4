----------------------------- MODULE MainProofs -----------------------------
(***************************************************************************)
(* What holds of Main for every keyboard, key, configuration and bound.    *)
(***************************************************************************)
EXTENDS Main, FiniteSetTheorems, TLAPS

(* In the middle of a handler the key to take in is still at the head of   *)
(* the queue, and its keyboard is the one that floats, which the loop knows. *)
GrabPending ==
  pc = "grab" => /\ events # <<>> /\ Head(events).kind = "key"
                 /\ floating = Head(events).dev /\ floating \in devs

TypeInv == TypeOK /\ GrabPending

LEMMA Tuples ==
  ASSUME NEW S, NEW a \in S, NEW b \in S
  PROVE  <<a>> \in Seq(S) /\ <<a, b>> \in Seq(S)
  OBVIOUS

LEMMA Joined ==
  ASSUME NEW S, NEW s \in Seq(S), NEW t \in Seq(S)
  PROVE  s \o t \in Seq(S)
  OBVIOUS

(* A report is that of a key or of the hierarchy, and says which. *)
LEMMA Kinds ==
  ASSUME TypeOK, events # <<>>
  PROVE  /\ Head(events) \in KeyEvent \cup HierEvent
         /\ Tail(events) \in Seq(KeyEvent \cup HierEvent)
         /\ Head(events).kind = "key" => Head(events) \in KeyEvent
         /\ Head(events).kind = "hier" => Head(events) \in HierEvent
  BY DEF TypeOK, XTypeOK, KeyEvent, HierEvent

(* What spends a sequence leaves the history an integer for each stroke. *)
LEMMA SpendType ==
  ASSUME NEW s \in Seq(KeyChange), due \in [Stroke -> Int], Spend(s)
  PROVE  due' \in [Stroke -> Int]
  <1> DEFINE D(u) == {i \in DOMAIN s : s[i].press /\ <<s[i].code, ModsAt(s, i)>> = u}
  <1>1. ASSUME NEW u \in Stroke PROVE Cardinality(D(u)) \in Nat
    <2>1. IsFiniteSet(1 .. Len(s))
      BY FS_Interval
    <2>2. D(u) \subseteq 1 .. Len(s)
      OBVIOUS
    <2> QED
      BY <2>1, <2>2, FS_Subset, FS_CardinalityType
  <1>2. due' = [u \in Stroke |-> due[u] - Cardinality(D(u))]
    BY DEF Spend
  <1> HIDE DEF D
  <1> QED
    BY <1>1, <1>2

LEMMA OwedType ==
  ASSUME due \in [Stroke -> Int], NEW more, NEW had
  PROVE  Owed(more, had) \in [Stroke -> Int]
  BY DEF Owed, One

LEMMA InitType == Init => TypeInv
  <1> SUFFICES ASSUME Init PROVE TypeInv
    OBVIOUS
  <1> USE XServerAssumption, MainAssumption DEF Init, XInit, MainInit
  <1>1. XTypeOK
    BY DEF XTypeOK
  <1>2. hasty \in BOOLEAN
    OBVIOUS
  <1>3. TypeOK
    BY <1>1, <1>2 DEF TypeOK
  <1> QED
    BY <1>3 DEF TypeInv, GrabPending

(* The key at the head of the queue is taken in. *)
LEMMA HandleType ==
  ASSUME TypeOK, events # <<>>, NEW e \in KeyEvent, HandleKey(e),
         e = Head(events), pc' # "grab"
  PROVE  /\ events' \in Seq(KeyEvent \cup HierEvent)
         /\ fakes' \in Seq(FakeEvent)
         /\ {seqbuf', burst'} \subseteq Seq(KeyChange)
         /\ down' \in SUBSET Keys /\ maybe' \in BOOLEAN
         /\ pc' \in {"recv", "settle"} /\ stale' \in SUBSET Keys
  <1>1. e.code \in Keys /\ e.press \in BOOLEAN
    BY DEF KeyEvent
  <1>2. [code |-> e.code, press |-> e.press] \in KeyChange
    BY <1>1 DEF KeyChange
  <1>3. fakes' \in Seq(FakeEvent) /\ seqbuf' \in Seq(KeyChange) /\ maybe' \in BOOLEAN
    <2>1. [codes |-> {e.code}, press |-> e.press] \in FakeEvent
      BY <1>1 DEF FakeEvent
    <2>2. fakes \in Seq(FakeEvent) /\ seqbuf \in Seq(KeyChange) /\ maybe \in BOOLEAN
      BY DEF TypeOK, XTypeOK
    <2>3. TakeIn(e)
      BY DEF HandleKey
    <2>4. CASE maybe
      <3>1. fakes' = fakes
        BY <2>3, <2>4 DEF TakeIn
      <3>2. \/ seqbuf' = seqbuf
            \/ seqbuf' = Append(seqbuf, [code |-> e.code, press |-> e.press])
        BY <2>3, <2>4 DEF TakeIn
      <3>3. maybe' \in BOOLEAN
        BY <2>2, <2>3, <2>4 DEF TakeIn
      <3> QED
        BY <1>2, <2>2, <3>1, <3>2, <3>3
    <2>5. CASE ~maybe
      <3>1. seqbuf' = seqbuf /\ maybe' = maybe
        BY <2>3, <2>5 DEF TakeIn
      <3>2. \/ fakes' = fakes
            \/ fakes' = Append(fakes, [codes |-> {e.code}, press |-> e.press])
        BY <2>2, <2>3, <2>5 DEF TakeIn, Fake
      <3> QED
        BY <2>1, <2>2, <3>1, <3>2
    <2> QED
      BY <2>4, <2>5
  <1>4. burst' \in Seq(KeyChange)
    BY <1>2 DEF HandleKey, TypeOK
  <1>5. down' \in SUBSET Keys
    BY <1>1 DEF HandleKey, DownAfter, TypeOK
  <1>6. pc' \in {"recv", "settle"} /\ stale' \in SUBSET Keys
    BY DEF HandleKey, TypeOK, XTypeOK
  <1>7. events' \in Seq(KeyEvent \cup HierEvent)
    BY Kinds DEF HandleKey
  <1> QED
    BY <1>3, <1>4, <1>5, <1>6, <1>7

LEMMA UserType == TypeInv /\ User => TypeInv'
  <1> SUFFICES ASSUME TypeInv, User PROVE TypeInv'
    OBVIOUS
  <1>1. PICK d \in Keyboards :
          \/ \E k \in Keys : KeyDown(d, k) \/ KeyUp(d, k)
          \/ Plug(d) \/ Unplug(d) \/ Detach(d) \/ Reattach(d)
    BY DEF User
  <1>2. UNCHANGED mainVars /\ hasty' \in BOOLEAN
    BY DEF User, TypeInv, TypeOK
  <1> USE XServerAssumption, MainAssumption
  <1>3. ASSUME XTypeOK', \E t \in Seq(KeyEvent \cup HierEvent) : events' = events \o t
        PROVE  TypeInv'
    <2>1. TypeOK'
      BY <1>2, <1>3 DEF TypeInv, TypeOK, mainVars
    <2>2. GrabPending'
      BY <1>2, <1>3 DEF TypeInv, TypeOK, XTypeOK, GrabPending, mainVars
    <2> QED
      BY <2>1, <2>2 DEF TypeInv
  <1>4. ASSUME NEW k \in Keys, NEW p \in BOOLEAN, Report(d, k, p)
        PROVE  \E t \in Seq(KeyEvent \cup HierEvent) : events' = events \o t
    <2>1. KeyReport(d, k, p) \in KeyEvent
      BY DEF KeyReport, KeyEvent
    <2>2. CASE d \in selected
      <3> DEFINE t == <<KeyReport(d, k, p)>>
      <3>1. t \in Seq(KeyEvent \cup HierEvent) /\ events' = events \o t
        BY <1>4, <2>1, <2>2 DEF Report, TypeInv, TypeOK, XTypeOK
      <3> QED
        BY <3>1
    <2>3. CASE d \notin selected
      <3>1. events' = events \o <<>> /\ <<>> \in Seq(KeyEvent \cup HierEvent)
        BY <1>4, <2>3 DEF Report, TypeInv, TypeOK, XTypeOK
      <3> QED
        BY <3>1
    <2> QED
      BY <2>2, <2>3
  <1>5. ASSUME NEW t \in Seq(KeyEvent \cup HierEvent), events' = events \o t
        PROVE  events' \in Seq(KeyEvent \cup HierEvent)
    BY <1>5 DEF TypeInv, TypeOK, XTypeOK
  <1>6. ASSUME NEW k \in Keys, KeyDown(d, k) PROVE TypeInv'
    <2>1. Report(d, k, TRUE)
      BY <1>6 DEF KeyDown
    <2>2. due' \in [Stroke -> Int]
      BY <1>6, OwedType DEF KeyDown, TypeInv, TypeOK, XTypeOK
    <2>3. events' \in Seq(KeyEvent \cup HierEvent)
      BY <1>4, <1>5, <2>1
    <2>4. XTypeOK
      BY DEF TypeInv, TypeOK
    <2>5. held' \in [Keyboards -> SUBSET Keys] /\ core' \in SUBSET Keys
      BY <1>6, <2>4 DEF KeyDown, XTypeOK
    <2>6. passive' \in [Keyboards -> Keys \cup {NoKey}] /\ presses' \in 0 .. MaxPresses
      BY <1>6, <2>4 DEF KeyDown, XTypeOK
    <2>7. UNCHANGED <<plugged, detached, selected, armed, plugs, active, fakes>>
      BY <1>6 DEF KeyDown, setup
    <2>8. XTypeOK'
      BY <2>2, <2>3, <2>4, <2>5, <2>6, <2>7 DEF XTypeOK
    <2> QED
      BY <1>3, <1>4, <2>1, <2>8
  <1>7. ASSUME NEW k \in Keys, KeyUp(d, k) PROVE TypeInv'
    <2>1. Report(d, k, FALSE)
      BY <1>7 DEF KeyUp
    <2>2. events' \in Seq(KeyEvent \cup HierEvent)
      BY <1>4, <1>5, <2>1
    <2>3. XTypeOK
      BY DEF TypeInv, TypeOK
    <2>4. held' \in [Keyboards -> SUBSET Keys] /\ core' \in SUBSET Keys
      BY <1>7, <2>3 DEF KeyUp, XTypeOK
    <2>5. passive' \in [Keyboards -> Keys \cup {NoKey}]
      BY <1>7, <2>3 DEF KeyUp, XTypeOK
    <2>6. UNCHANGED <<plugged, detached, selected, armed, plugs, active, fakes, due, presses>>
      BY <1>7 DEF KeyUp, setup
    <2>7. XTypeOK'
      BY <2>2, <2>3, <2>4, <2>5, <2>6 DEF XTypeOK
    <2> QED
      BY <1>3, <1>4, <2>1, <2>7
  <1>8. ASSUME Plug(d) \/ Unplug(d) \/ Detach(d) \/ Reattach(d) PROVE TypeInv'
    <2>1. PICK t \in Seq(HierEvent) :
            /\ plugs < MaxPlugs /\ plugs' = plugs + 1 /\ events' = events \o t
            /\ UNCHANGED <<held, core, fakes, due, presses>>
      <3>1. CASE Plug(d)
        <4>1. /\ HierReport(d, "SlaveAdded", FALSE) \in HierEvent
              /\ HierReport(d, "DeviceEnabled", TRUE) \in HierEvent
          BY DEF HierReport, HierEvent
        <4>2. <<HierReport(d, "SlaveAdded", FALSE), HierReport(d, "DeviceEnabled", TRUE)>> \in Seq(HierEvent)
          BY <4>1, Tuples
        <4> QED
          BY <3>1, <4>2 DEF Plug, Hotplug
      <3>2. CASE Unplug(d)
        <4>1. /\ HierReport(d, "DeviceDisabled", FALSE) \in HierEvent
              /\ HierReport(d, "SlaveRemoved", FALSE) \in HierEvent
          BY DEF HierReport, HierEvent
        <4>2. <<HierReport(d, "DeviceDisabled", FALSE), HierReport(d, "SlaveRemoved", FALSE)>> \in Seq(HierEvent)
          BY <4>1, Tuples
        <4> QED
          BY <3>2, <4>2 DEF Unplug, Hotplug
      <3>3. CASE Detach(d)
        <4>1. /\ HierReport(d, "SlaveDetached", TRUE) \in HierEvent
          BY DEF HierReport, HierEvent
        <4>2. <<HierReport(d, "SlaveDetached", TRUE)>> \in Seq(HierEvent)
          BY <4>1, Tuples
        <4> QED
          BY <3>3, <4>2 DEF Detach, Hotplug
      <3>4. CASE Reattach(d)
        <4>1. /\ HierReport(d, "SlaveAttached", TRUE) \in HierEvent
          BY DEF HierReport, HierEvent
        <4>2. <<HierReport(d, "SlaveAttached", TRUE)>> \in Seq(HierEvent)
          BY <4>1, Tuples
        <4> QED
          BY <3>4, <4>2 DEF Reattach, Hotplug
      <3> QED
        BY <1>8, <3>1, <3>2, <3>3, <3>4
    <2>2. t \in Seq(KeyEvent \cup HierEvent)
      OBVIOUS
    <2>3. events' = events \o t /\ events' \in Seq(KeyEvent \cup HierEvent)
      BY <1>5, <2>1, <2>2
    <2>4. XTypeOK'
      <3>1. XTypeOK /\ plugs' \in 0 .. MaxPlugs
        BY <2>1 DEF TypeInv, TypeOK, XTypeOK
      <3>2. CASE Plug(d)
        BY <2>1, <2>3, <3>1, <3>2 DEF Plug, XTypeOK
      <3>3. CASE Unplug(d)
        BY <2>1, <2>3, <3>1, <3>3 DEF Unplug, XTypeOK
      <3>4. CASE Detach(d)
        BY <2>1, <2>3, <3>1, <3>4 DEF Detach, XTypeOK
      <3>5. CASE Reattach(d)
        BY <2>1, <2>3, <3>1, <3>5 DEF Reattach, XTypeOK
      <3> QED
        BY <1>8, <3>2, <3>3, <3>4, <3>5
    <2> QED
      BY <1>3, <2>2, <2>3, <2>4
  <1> QED
    BY <1>1, <1>6, <1>7, <1>8

LEMMA RecvKeyType == TypeInv /\ RecvKey => TypeInv'
  <1> SUFFICES ASSUME TypeInv, RecvKey PROVE TypeInv'
    OBVIOUS
  <1> USE DEF TypeInv
  <1> DEFINE e == Head(events)
  <1>1. e \in KeyEvent /\ events # <<>>
    BY Kinds DEF RecvKey
  <1>2. UNCHANGED <<setup, held, passive, active, core, due, presses, devs, replay, fired, hasty>>
    BY DEF RecvKey
  <1>3. CASE e.dev \notin devs /\ events' = Tail(events)
             /\ UNCHANGED <<seqbuf, down, maybe, floating, pc, stale, burst, fakes>>
    <2>1. events' \in Seq(KeyEvent \cup HierEvent)
      BY <1>1, <1>3, Kinds
    <2>2. XTypeOK'
      BY <1>2, <1>3, <2>1 DEF TypeOK, XTypeOK, setup
    <2>3. TypeOK'
      BY <1>2, <1>3, <2>2 DEF TypeOK
    <2> QED
      BY <1>3, <2>3 DEF RecvKey, GrabPending
  <1>4. CASE floating' = e.dev /\ pc' = "grab"
             /\ UNCHANGED <<seqbuf, down, maybe, stale, burst, events, fakes>>
    <2>1. e.dev \in Keyboards
      BY <1>1 DEF KeyEvent
    <2>2. XTypeOK'
      BY <1>2, <1>4 DEF TypeOK, XTypeOK, setup
    <2>3. TypeOK'
      BY <1>2, <1>4, <2>1, <2>2 DEF TypeOK
    <2> QED
      BY <1>4, <2>3 DEF RecvKey, GrabPending
  <1>5. CASE HandleKey(e) /\ UNCHANGED floating
    <2>1. pc' # "grab"
      BY <1>5 DEF HandleKey
    <2>2. /\ events' \in Seq(KeyEvent \cup HierEvent)
          /\ fakes' \in Seq(FakeEvent)
          /\ {seqbuf', burst'} \subseteq Seq(KeyChange)
          /\ down' \in SUBSET Keys /\ maybe' \in BOOLEAN
          /\ pc' \in {"recv", "settle"} /\ stale' \in SUBSET Keys
      BY <1>1, <1>5, <2>1, HandleType
    <2>3. XTypeOK'
      BY <1>2, <1>5, <2>2 DEF TypeOK, XTypeOK, setup
    <2>4. TypeOK'
      BY <1>2, <1>5, <2>2, <2>3 DEF TypeOK
    <2> QED
      BY <2>1, <2>4 DEF GrabPending
  <1> QED
    BY <1>3, <1>4, <1>5 DEF RecvKey

LEMMA GrabFloatingType == TypeInv /\ GrabFloating => TypeInv'
  <1> SUFFICES ASSUME TypeInv, GrabFloating PROVE TypeInv'
    OBVIOUS
  <1> USE DEF TypeInv
  <1> DEFINE e == Head(events)
  <1>1. e \in KeyEvent /\ events # <<>>
    BY Kinds DEF GrabFloating, GrabPending
  <1>2. HandleKey(e)
    BY DEF GrabFloating
  <1>3. pc' # "grab"
    BY <1>2 DEF HandleKey
  <1>4. /\ events' \in Seq(KeyEvent \cup HierEvent)
        /\ fakes' \in Seq(FakeEvent)
        /\ {seqbuf', burst'} \subseteq Seq(KeyChange)
        /\ down' \in SUBSET Keys /\ maybe' \in BOOLEAN
        /\ pc' \in {"recv", "settle"} /\ stale' \in SUBSET Keys
    BY <1>1, <1>2, <1>3, HandleType
  <1>5. floating \in Keyboards
    BY <1>1 DEF GrabFloating, GrabPending, KeyEvent
  <1>6. active' \in SUBSET Keyboards /\ passive' \in [Keyboards -> Keys \cup {NoKey}]
    BY <1>5 DEF GrabFloating, GrabDevice, TypeOK, XTypeOK
  <1>7. XTypeOK'
    BY <1>4, <1>6 DEF GrabFloating, TypeOK, XTypeOK, setup
  <1>8. TypeOK'
    BY <1>4, <1>7 DEF GrabFloating, TypeOK
  <1> QED
    BY <1>3, <1>8 DEF GrabPending

LEMMA SettleType == TypeInv /\ Settle => TypeInv'
  <1> SUFFICES ASSUME TypeInv, Settle PROVE TypeInv'
    OBVIOUS
  <1> USE DEF TypeInv
  <1>1. fakes' \in Seq(FakeEvent) /\ stale' = {}
    <2>1. [codes |-> stale, press |-> FALSE] \in FakeEvent
      BY DEF TypeOK, FakeEvent
    <2>2. /\ stale' = {}
          /\ fakes' = fakes \/ fakes' = Append(fakes, [codes |-> stale, press |-> FALSE])
      BY DEF Settle, Unpress, Fake
    <2>3. fakes \in Seq(FakeEvent)
      BY DEF TypeOK, XTypeOK
    <2> QED
      BY <2>1, <2>2, <2>3
  <1>2. due' \in [Stroke -> Int]
    <2>1. due \in [Stroke -> Int] /\ seqbuf \in Seq(KeyChange)
      BY DEF TypeOK, XTypeOK
    <2>2. UNCHANGED due \/ Spend(seqbuf)
      BY DEF Settle
    <2> QED
      BY <2>1, <2>2, SpendType
  <1>3. replay' \in Seq(KeyChange)
    <2>1. replay' = replay \/ replay' = replay \o seqbuf
      BY DEF Settle
    <2>2. replay \in Seq(KeyChange) /\ seqbuf \in Seq(KeyChange)
      BY DEF TypeOK
    <2>3. replay \o seqbuf \in Seq(KeyChange)
      BY <2>2, Joined
    <2> QED
      BY <2>1, <2>2, <2>3
  <1>4. fired' \in Seq(Sequences)
    <2>1. fired' = fired \/ \E q \in Sequences : fired' = Append(fired, q)
      BY DEF Settle, Matches
    <2>2. fired \in Seq(Sequences)
      BY DEF TypeOK
    <2>3. ASSUME NEW q \in Sequences PROVE Append(fired, q) \in Seq(Sequences)
      BY <2>2
    <2> QED
      BY <2>1, <2>2, <2>3
  <1>5. floating' = NoDev /\ active' \in SUBSET Keyboards
        /\ passive' \in [Keyboards -> Keys \cup {NoKey}]
    BY DEF Settle, Unfloat, UngrabDevice, TypeOK, XTypeOK
  <1>6. seqbuf' = <<>> /\ burst' = <<>> /\ maybe' = TRUE /\ pc' = "recv"
        /\ UNCHANGED <<setup, held, core, events, presses, devs, down, hasty>>
    BY DEF Settle
  <1>7. XTypeOK'
    BY <1>1, <1>2, <1>5, <1>6 DEF TypeOK, XTypeOK, setup
  <1>8. TypeOK'
    BY <1>1, <1>3, <1>4, <1>5, <1>6, <1>7 DEF TypeOK
  <1> QED
    BY <1>6, <1>8 DEF GrabPending

LEMMA RecvHierType == TypeInv /\ RecvHier => TypeInv'
  <1> SUFFICES ASSUME TypeInv, RecvHier PROVE TypeInv'
    OBVIOUS
  <1> USE DEF TypeInv
  <1> DEFINE h == Head(events)
  <1>1. h \in HierEvent /\ events # <<>> /\ Tail(events) \in Seq(KeyEvent \cup HierEvent)
    BY Kinds DEF RecvHier
  <1>2. h.dev \in Keyboards
    BY <1>1 DEF HierEvent
  <1>3. /\ devs' \in SUBSET Keyboards /\ selected' \in SUBSET Keyboards
        /\ armed' \in [Keyboards -> SUBSET Grabs]
        /\ active' \in SUBSET Keyboards /\ passive' \in [Keyboards -> Keys \cup {NoKey}]
    <2>1. CASE AddDev(h.dev) /\ UNCHANGED <<active, passive>>
      <3>1. /\ devs \in SUBSET Keyboards /\ selected \in SUBSET Keyboards
            /\ armed \in [Keyboards -> SUBSET Grabs]
            /\ active \in SUBSET Keyboards /\ passive \in [Keyboards -> Keys \cup {NoKey}]
        BY DEF TypeOK, XTypeOK
      <3>2. \/ UNCHANGED <<devs, selected, armed>>
            \/ /\ devs' = devs \cup {h.dev} /\ selected' = selected \cup {h.dev}
               /\ \E G \in SUBSET Grabs : armed' = [armed EXCEPT ![h.dev] = G]
        BY <2>1 DEF AddDev
      <3> QED
        BY <1>2, <2>1, <3>1, <3>2
    <2>2. CASE UNCHANGED <<devs, selected, armed, active, passive>>
      BY <2>2 DEF TypeOK, XTypeOK
    <2>3. CASE RemoveDev(h) /\ UNCHANGED selected
      <3>1. CASE CloseDevice(h.dev)
        BY <1>2, <2>3, <3>1 DEF RemoveDev, CloseDevice, TypeOK, XTypeOK
      <3>2. CASE UNCHANGED <<armed, active, passive>>
        BY <2>3, <3>2 DEF RemoveDev, TypeOK, XTypeOK
      <3> QED
        BY <2>3, <3>1, <3>2 DEF RemoveDev
    <2> QED
      BY <2>1, <2>2, <2>3 DEF RecvHier
  <1>4. /\ events' = Tail(events) /\ pc = "recv"
        /\ UNCHANGED <<plugged, detached, held, core, fakes, due, presses, plugs,
                       seqbuf, down, maybe, floating, replay, pc, stale, fired,
                       burst, hasty>>
    BY DEF RecvHier
  <1>5. XTypeOK'
    BY <1>1, <1>3, <1>4 DEF TypeOK, XTypeOK
  <1>6. TypeOK'
    BY <1>3, <1>4, <1>5 DEF TypeOK
  <1> QED
    BY <1>4, <1>6 DEF GrabPending

LEMMA RestType == TypeInv /\ (ProcReplay \/ Server \/ Quit \/ UNCHANGED vars) => TypeInv'
  <1> SUFFICES ASSUME TypeInv, ProcReplay \/ Server \/ Quit \/ UNCHANGED vars
               PROVE  TypeInv'
    OBVIOUS
  <1> USE XServerAssumption DEF TypeInv
  <1>1. CASE ProcReplay
    <2>1. Head(replay) \in KeyChange /\ Tail(replay) \in Seq(KeyChange)
      BY <1>1 DEF ProcReplay, TypeOK
    <2>2. [codes |-> {Head(replay).code}, press |-> Head(replay).press] \in FakeEvent
      BY <2>1 DEF KeyChange, FakeEvent
    <2>3. fakes' \in Seq(FakeEvent)
      BY <1>1, <2>2 DEF ProcReplay, Fake, TypeOK, XTypeOK
    <2>4. XTypeOK'
      BY <1>1, <2>3 DEF ProcReplay, TypeOK, XTypeOK, setup
    <2>5. TypeOK'
      BY <1>1, <2>1, <2>4 DEF ProcReplay, TypeOK
    <2> QED
      BY <1>1, <2>5 DEF ProcReplay, GrabPending
  <1>2. CASE Server
    <2>1. Head(fakes) \in FakeEvent /\ Tail(fakes) \in Seq(FakeEvent)
      BY <1>2 DEF Server, ServeFakes, TypeOK, XTypeOK
    <2>2. core' \in SUBSET Keys
      BY <1>2, <2>1 DEF Server, ServeFakes, FakeEvent, TypeOK, XTypeOK
    <2>3. due' \in [Stroke -> Int]
      <3>1. due \in [Stroke -> Int]
        BY DEF TypeOK, XTypeOK
      <3> QED
        BY <1>2, <3>1, OwedType DEF Server, ServeFakes
    <2>4. XTypeOK'
      BY <1>2, <2>1, <2>2, <2>3 DEF Server, ServeFakes, TypeOK, XTypeOK, setup
    <2>5. TypeOK'
      BY <1>2, <2>4 DEF Server, TypeOK, mainVars
    <2> QED
      BY <1>2, <2>5 DEF Server, ServeFakes, GrabPending, mainVars
  <1>3. CASE Quit
    <2>1. XTypeOK'
      BY <1>3 DEF Quit, TypeOK, XTypeOK
    <2>2. TypeOK'
      BY <1>3, <2>1 DEF Quit, TypeOK
    <2> QED
      BY <1>3, <2>2 DEF Quit, GrabPending
  <1>4. CASE UNCHANGED vars
    <2>1. XTypeOK'
      BY <1>4 DEF vars, srvVars, TypeOK, XTypeOK
    <2>2. TypeOK'
      BY <1>4, <2>1 DEF vars, mainVars, TypeOK
    <2> QED
      BY <1>4, <2>2 DEF vars, srvVars, mainVars, GrabPending
  <1> QED
    BY <1>1, <1>2, <1>3, <1>4

LEMMA StepType == TypeInv /\ [Next]_vars => TypeInv'
  BY UserType, RecvKeyType, GrabFloatingType, SettleType, RecvHierType, RestType
  DEF Next, Daemon

LEMMA TypeInvariant == Spec => []TypeInv
  BY InitType, StepType, PTL DEF Spec

(* Main and the server it relies on keep to their types, whatever keyboards, *)
(* keys, sequences and grabs there are and however far the loop lags.        *)
THEOREM TypeCorrect == Spec => []TypeOK
  <1>1. TypeInv => TypeOK
    BY DEF TypeInv
  <1> QED
    BY <1>1, TypeInvariant, PTL

-----------------------------------------------------------------------------
(* Why no grab leaks.  A keyboard is held only while floating names it.      *)
(* floating is set in the middle of a handler that then finds a key down, or *)
(* goes on to Settle, and Settle ungrabs what floating names.                *)
Lease ==
  /\ active \subseteq {floating}
  /\ pc = "recv" /\ floating # NoDev => down # {}
  /\ pc = "recv" /\ down = {} => seqbuf = <<>> /\ maybe
  /\ pc = "settle" => down = {}
  /\ pc = "exit" => active = {} /\ floating = NoDev

LeaseInv == TypeInv /\ Lease

LEMMA NoneHeld == TypeOK /\ Lease /\ floating = NoDev => active = {}
  BY MainAssumption DEF TypeOK, XTypeOK, Lease

(* Taking a key in ends with a key down, or on the way to Settle. *)
LEMMA HandleLease ==
  ASSUME NEW e, HandleKey(e)
  PROVE  \/ pc' = "recv" /\ down' # {}
         \/ pc' = "settle" /\ down' = {}
  BY DEF HandleKey

LEMMA LeaseInit == Init => LeaseInv
  BY InitType DEF Init, XInit, MainInit, LeaseInv, Lease

LEMMA LeaseStep == LeaseInv /\ [Next]_vars => Lease'
  <1> SUFFICES ASSUME LeaseInv, [Next]_vars PROVE Lease'
    OBVIOUS
  <1> USE DEF LeaseInv
  <1>1. CASE User
    <2>1. active' \subseteq active
      BY <1>1 DEF User, KeyDown, KeyUp, Plug, Unplug, Detach, Reattach, Hotplug
    <2> QED
      BY <1>1, <2>1 DEF User, mainVars, Lease
  <1>2. CASE Server
    BY <1>2 DEF Server, ServeFakes, mainVars, Lease
  <1>3. CASE RecvKey
    <2>1. CASE UNCHANGED <<down, floating, seqbuf, maybe, pc, active>>
      BY <2>1 DEF Lease
    <2>2. CASE floating = NoDev /\ pc' = "grab" /\ UNCHANGED active
      BY <2>2, NoneHeld DEF Lease, TypeInv
    <2>3. CASE HandleKey(Head(events)) /\ UNCHANGED <<floating, active>>
      BY <2>3, HandleLease DEF Lease
    <2> QED
      BY <1>3, <2>1, <2>2, <2>3 DEF RecvKey
  <1>4. CASE GrabFloating
    <2>1. active' \subseteq {floating'}
      BY <1>4 DEF GrabFloating, GrabDevice, Lease
    <2>2. \/ pc' = "recv" /\ down' # {}
          \/ pc' = "settle" /\ down' = {}
      BY <1>4, HandleLease DEF GrabFloating
    <2> QED
      BY <2>1, <2>2 DEF Lease
  <1>5. CASE Settle
    <2>1. active' = {}
      <3>1. CASE floating = NoDev
        BY <1>5, <3>1, NoneHeld DEF Settle, Unfloat, TypeInv
      <3>2. CASE floating # NoDev
        BY <1>5, <3>2 DEF Settle, Unfloat, UngrabDevice, Lease
      <3> QED
        BY <3>1, <3>2
    <2>2. floating' = NoDev /\ pc' = "recv" /\ seqbuf' = <<>> /\ maybe' = TRUE
      BY <1>5 DEF Settle, Unfloat
    <2> QED
      BY <2>1, <2>2 DEF Lease
  <1>6. CASE RecvHier
    <2>1. active' \subseteq active
      BY <1>6 DEF RecvHier, RemoveDev, CloseDevice
    <2> QED
      BY <1>6, <2>1 DEF RecvHier, Lease
  <1>7. CASE ProcReplay
    BY <1>7 DEF ProcReplay, Lease
  <1>8. CASE Quit
    BY <1>8 DEF Quit, Lease
  <1>9. CASE UNCHANGED vars
    BY <1>9 DEF vars, srvVars, mainVars, Lease
  <1> QED
    BY <1>1, <1>2, <1>3, <1>4, <1>5, <1>6, <1>7, <1>8, <1>9 DEF Next, Daemon

LEMMA LeaseInvariant == Spec => []LeaseInv
  <1>1. LeaseInv /\ [Next]_vars => LeaseInv'
    BY StepType, LeaseStep DEF LeaseInv
  <1> QED
    BY <1>1, LeaseInit, PTL DEF Spec

(* No grab leaks, whatever the keyboards, the hotplugging, the failures and   *)
(* the lag: with no key believed down kseqi holds no keyboard, nor does it    *)
(* once it has exited (unfloat, lib.rs:153-155 and Drop for Main).            *)
THEOREM Freed == Spec => []KeyboardFreed
  <1>1. LeaseInv => KeyboardFreed
    BY DEF LeaseInv, Lease, KeyboardFreed
  <1> QED
    BY <1>1, LeaseInvariant, PTL

-----------------------------------------------------------------------------
(* Why the loop believes no key down at rest, whatever keyboards come and go *)
(* and whatever fails, as long as no keyboard is typed on while a report     *)
(* that it came or went is on its way: what is typed on a keyboard the loop  *)
(* does not know yet, or not any more, it drops.                             *)

Noticed ==
  \A d \in Keyboards : held[d] # {} =>
    ~ \E i \in DOMAIN events : events[i].kind = "hier" /\ events[i].dev = d

(* A key the loop believes down is held on some keyboard it knows, or its    *)
(* release is in the queue; a press in the queue of a key that is not held   *)
(* any more is followed by its release; and the loop hears a keyboard it     *)
(* knows, or will read that it has gone.                                     *)

Leaves(r, d) ==
  r.kind = "hier" /\ r.dev = d /\ r.flag \in {"SlaveRemoved", "SlaveDetached", "DeviceDisabled"}

Released(d, k, i) ==
  \E j \in DOMAIN events : j > i /\ events[j] = KeyReport(d, k, FALSE)

PressesEnd ==
  \A d \in devs, k \in Keys : \A i \in DOMAIN events :
    k \notin held[d] /\ events[i] = KeyReport(d, k, TRUE) => Released(d, k, i)

DownEnds ==
  \A k \in down : \E d \in devs : k \in held[d] \/ Released(d, k, 0)

KeysFirst ==
  \A i, j \in DOMAIN events :
    i < j /\ events[i].kind = "hier" /\ events[j].kind = "key" => events[i].dev # events[j].dev

Heeded ==
  \A d \in devs : d \in selected \/ \E i \in DOMAIN events : Leaves(events[i], d)

Noted == pc # "exit" => KeysFirst /\ PressesEnd /\ DownEnds /\ Heeded

LEMMA Appended ==
  ASSUME NEW S, NEW q \in Seq(S), NEW r
  PROVE  /\ DOMAIN Append(q, r) = 1 .. Len(q) + 1 /\ DOMAIN q = 1 .. Len(q)
         /\ Len(q) \in Nat
         /\ \A i \in DOMAIN q : i \in DOMAIN Append(q, r) /\ Append(q, r)[i] = q[i]
         /\ Append(q, r)[Len(q) + 1] = r
  OBVIOUS

LEMMA Popped ==
  ASSUME NEW S, NEW q \in Seq(S), q # <<>>
  PROVE  /\ Len(q) \in Nat /\ Len(q) >= 1 /\ DOMAIN q = 1 .. Len(q)
         /\ Head(q) = q[1] /\ DOMAIN Tail(q) = 1 .. Len(q) - 1
         /\ \A i \in 1 .. Len(q) - 1 : Tail(q)[i] = q[i + 1]
  OBVIOUS

LEMMA Reports ==
  /\ \A e \in KeyEvent : e = KeyReport(e.dev, e.code, e.press)
  /\ \A d, k, p : /\ KeyReport(d, k, p).dev = d
                 /\ KeyReport(d, k, p).code = k
                 /\ KeyReport(d, k, p).press = p
                 /\ KeyReport(d, k, p).kind = "key"
  /\ \A d \in Keyboards, k \in Keys, p \in BOOLEAN : KeyReport(d, k, p) \in KeyEvent
  BY DEF KeyReport, KeyEvent

LEMMA NotedInit == Init => Noted
  BY DEF Init, XInit, MainInit, Noted, KeysFirst, PressesEnd, DownEnds, Heeded

(* The user presses or releases a key.  No report of the hierarchy tells of  *)
(* its keyboard, so the loop hears it if it knows it; the report joins the   *)
(* queue.                                                                    *)
LEMMA NotedKey ==
  ASSUME TypeOK, Noted, Noticed, Noticed', pc # "exit", NEW d \in Keyboards, NEW k \in Keys,
         KeyDown(d, k) \/ KeyUp(d, k), UNCHANGED mainVars
  PROVE  Noted'
  <1>1. PICK p \in BOOLEAN : /\ p <=> k \notin held[d]
                             /\ Report(d, k, p)
    BY DEF KeyDown, KeyUp
  <1>2. /\ \A c \in Keyboards : c # d => held'[c] = held[c]
        /\ held'[d] = IF p THEN held[d] \cup {k} ELSE held[d] \ {k}
        /\ devs' = devs /\ down' = down /\ pc' = pc /\ selected' = selected
        /\ devs \subseteq Keyboards
    BY <1>1 DEF KeyDown, KeyUp, TypeOK, XTypeOK, mainVars, setup
  <1>3. /\ \A i \in DOMAIN events : i \in DOMAIN events' /\ events'[i] = events[i]
        /\ \A i \in DOMAIN events' : i \in DOMAIN events \/ events'[i] = KeyReport(d, k, p)
    <2>1. CASE events' = Append(events, KeyReport(d, k, p))
      <3>1. /\ DOMAIN events' = 1 .. Len(events) + 1 /\ DOMAIN events = 1 .. Len(events)
            /\ Len(events) \in Nat /\ events'[Len(events) + 1] = KeyReport(d, k, p)
            /\ \A i \in DOMAIN events : i \in DOMAIN events' /\ events'[i] = events[i]
        BY <2>1, Appended DEF TypeOK, XTypeOK
      <3>2. \A i \in DOMAIN events' : i \in DOMAIN events \/ i = Len(events) + 1
        BY <3>1
      <3> QED
        BY <3>1, <3>2
    <2>2. CASE events' = events
      BY <2>2
    <2> QED
      BY <1>1, <2>1, <2>2 DEF Report
  <1>4. \A i \in DOMAIN events : ~(events[i].kind = "hier" /\ events[i].dev = d)
    <2>1. CASE held[d] # {}
      BY <2>1 DEF Noticed
    <2>2. CASE held'[d] # {}
      BY <1>3, <2>2 DEF Noticed
    <2> QED
      BY <1>1, <1>2, <2>1, <2>2
  <1>5. d \in devs => d \in selected /\ Report(d, k, p)
    BY <1>1, <1>4 DEF Noted, Heeded, Leaves
  <1>6. ASSUME NEW c, NEW m, NEW i, Released(c, m, i)
        PROVE  Released(c, m, i)'
    BY <1>3, <1>6 DEF Released
  <1>7. ASSUME ~p, d \in devs, NEW i, i = 0 \/ i \in DOMAIN events PROVE Released(d, k, i)'
    <2>1. p = FALSE /\ events' = Append(events, KeyReport(d, k, p))
      BY <1>5, <1>7 DEF Report
    <2>2. /\ DOMAIN events' = 1 .. Len(events) + 1 /\ DOMAIN events = 1 .. Len(events)
          /\ Len(events) \in Nat /\ events'[Len(events) + 1] = KeyReport(d, k, FALSE)
      BY <2>1, Appended DEF TypeOK, XTypeOK
    <2>3. Len(events) + 1 \in DOMAIN events' /\ Len(events) + 1 > i
      BY <1>7, <2>2
    <2> QED
      BY <2>2, <2>3 DEF Released
  <1>8. PressesEnd'
    <2> SUFFICES ASSUME NEW c \in devs, NEW m \in Keys, NEW i \in DOMAIN events',
                        m \notin held'[c], events'[i] = KeyReport(c, m, TRUE)
                 PROVE  Released(c, m, i)'
      BY <1>2 DEF PressesEnd
    <2>1. CASE i \in DOMAIN events
      <3>1. CASE m \notin held[c]
        BY <1>3, <1>6, <2>1, <3>1 DEF Noted, PressesEnd
      <3>2. CASE m \in held[c]
        <4>1. c = d /\ m = k /\ ~p
          BY <1>2, <3>2
        <4> QED
          BY <1>7, <2>1, <4>1
      <3> QED
        BY <3>1, <3>2
    <2>2. CASE i \notin DOMAIN events
      <3>1. events'[i] = KeyReport(d, k, p)
        BY <1>3, <2>2
      <3>2. c = d /\ m = k /\ p
        BY <3>1 DEF KeyReport
      <3> QED
        BY <1>2, <3>2
    <2> QED
      BY <2>1, <2>2
  <1>9. DownEnds'
    <2> SUFFICES ASSUME NEW m \in down
                 PROVE  \E c \in devs : m \in held'[c] \/ Released(c, m, 0)'
      BY <1>2 DEF DownEnds
    <2>1. PICK c \in devs : m \in held[c] \/ Released(c, m, 0)
      BY DEF Noted, DownEnds
    <2>2. CASE Released(c, m, 0)
      BY <1>6, <2>2
    <2>3. CASE m \in held[c] /\ m \notin held'[c]
      <3>1. c = d /\ m = k /\ ~p
        BY <1>2, <2>3
      <3> QED
        BY <1>7, <3>1
    <2> QED
      BY <2>1, <2>2, <2>3
  <1>10. KeysFirst'
    <2> SUFFICES ASSUME NEW i \in DOMAIN events', NEW j \in DOMAIN events', i < j,
                        events'[i].kind = "hier", events'[j].kind = "key"
                 PROVE  events'[i].dev # events'[j].dev
      BY DEF KeysFirst
    <2>2. i \in DOMAIN events
      BY <1>3 DEF KeyReport
    <2>3. CASE j \in DOMAIN events
      BY <1>3, <2>2, <2>3 DEF Noted, KeysFirst
    <2>4. CASE j \notin DOMAIN events
      <3>1. events'[j].dev = d
        BY <1>3, <2>4 DEF KeyReport
      <3> QED
        BY <1>3, <1>4, <2>2, <3>1
    <2> QED
      BY <2>3, <2>4
  <1>11. Heeded'
    BY <1>2, <1>3 DEF Noted, Heeded
  <1> QED
    BY <1>8, <1>9, <1>10, <1>11 DEF Noted

(* A report is taken from the queue: what remains of the invariant needs no  *)
(* more than that the rest of the queue moves up.                            *)
LEMMA NotedTail ==
  ASSUME TypeOK, Noted, pc # "exit", events # <<>>, events' = Tail(events)
  PROVE  /\ KeysFirst'
         /\ \A c, m : \A i \in Nat : Released(c, m, i + 1) => Released(c, m, i)'
         /\ \A c, m : Released(c, m, 0) /\ Head(events) # KeyReport(c, m, FALSE) => Released(c, m, 0)'
         /\ \A i \in DOMAIN events' : i \in Nat /\ i + 1 \in DOMAIN events /\ events'[i] = events[i + 1]
         /\ \A i \in DOMAIN events : i # 1 => i - 1 \in DOMAIN events' /\ events'[i - 1] = events[i]
         /\ 1 \in DOMAIN events /\ events[1] = Head(events)
  <1>1. PICK n \in Nat \ {0} :
          /\ DOMAIN events = 1 .. n /\ Head(events) = events[1] /\ DOMAIN events' = 1 .. n - 1
          /\ \A i \in 1 .. n - 1 : events'[i] = events[i + 1]
    <2>1. Len(events) \in Nat \ {0}
      BY DEF TypeOK, XTypeOK
    <2> QED
      BY <2>1, Popped DEF TypeOK, XTypeOK
  <1>2. DOMAIN events = 1 .. n /\ DOMAIN events' = 1 .. n - 1
    BY <1>1
  <1>3. \A i \in DOMAIN events' : i \in Nat /\ i + 1 \in DOMAIN events /\ events'[i] = events[i + 1]
    BY <1>1, <1>2
  <1>4. \A i \in DOMAIN events : i # 1 => i - 1 \in DOMAIN events' /\ events'[i - 1] = events[i]
    <2> SUFFICES ASSUME NEW i \in DOMAIN events, i # 1
                 PROVE  i - 1 \in DOMAIN events' /\ events'[i - 1] = events[i]
      OBVIOUS
    <2>1. i - 1 \in 1 .. n - 1 /\ (i - 1) + 1 = i
      BY <1>2
    <2> QED
      BY <1>1, <1>2, <2>1
  <1>5. KeysFirst'
    <2> SUFFICES ASSUME NEW i \in DOMAIN events', NEW j \in DOMAIN events', i < j,
                        events'[i].kind = "hier", events'[j].kind = "key"
                 PROVE  events'[i].dev # events'[j].dev
      BY DEF KeysFirst
    <2>1. i + 1 < j + 1
      BY <1>3
    <2> QED
      BY <1>3, <2>1 DEF Noted, KeysFirst
  <1>6. ASSUME NEW c, NEW m, NEW i \in Nat, Released(c, m, i + 1)
        PROVE  Released(c, m, i)'
    <2>1. PICK j \in DOMAIN events : j > i + 1 /\ events[j] = KeyReport(c, m, FALSE)
      BY <1>6 DEF Released
    <2>2. j # 1 /\ j - 1 > i
      BY <1>2, <2>1
    <2> QED
      BY <1>4, <2>1, <2>2 DEF Released
  <1>7. ASSUME NEW c, NEW m, Released(c, m, 0), Head(events) # KeyReport(c, m, FALSE)
        PROVE  Released(c, m, 0)'
    <2>1. PICK j \in DOMAIN events : j > 0 /\ events[j] = KeyReport(c, m, FALSE)
      BY <1>7 DEF Released
    <2>3. j # 1
      BY <1>1, <1>7, <2>1
    <2>2. j # 1 /\ j - 1 > 0
      BY <1>2, <2>1, <2>3
    <2> QED
      BY <1>4, <2>1, <2>2 DEF Released
  <1>8. 1 \in DOMAIN events
    BY <1>2
  <1> QED
    BY <1>1, <1>3, <1>4, <1>5, <1>6, <1>7, <1>8

(* The key at the head of the queue is taken in, or dropped if its keyboard  *)
(* is not one the loop knows.                                                *)
LEMMA NotedTaken ==
  ASSUME TypeOK, Noted, pc # "exit", events # <<>>, Head(events).kind = "key",
         events' = Tail(events),
         \/ Head(events).dev \in devs /\ down' = DownAfter(Head(events))
         \/ Head(events).dev \notin devs /\ down' = down,
         UNCHANGED <<held, selected, devs>>
  PROVE  Noted'
  <1> DEFINE e == Head(events)
  <1>1. /\ KeysFirst'
        /\ \A c, m : \A i \in Nat : Released(c, m, i + 1) => Released(c, m, i)'
        /\ \A c, m : Released(c, m, 0) /\ e # KeyReport(c, m, FALSE) => Released(c, m, 0)'
        /\ \A i \in DOMAIN events' : i \in Nat /\ i + 1 \in DOMAIN events /\ events'[i] = events[i + 1]
        /\ \A i \in DOMAIN events : i # 1 => i - 1 \in DOMAIN events' /\ events'[i - 1] = events[i]
        /\ 1 \in DOMAIN events /\ events[1] = e
    BY NotedTail
  <1>2. e = KeyReport(e.dev, e.code, e.press) /\ e.code \in Keys /\ e.press \in BOOLEAN
    <2>1. e \in KeyEvent
      BY Kinds
    <2> QED
      BY <2>1, Reports DEF KeyEvent
  <1>3. PressesEnd'
    <2> SUFFICES ASSUME NEW c \in devs, NEW m \in Keys, NEW i \in DOMAIN events',
                        m \notin held[c], events'[i] = KeyReport(c, m, TRUE)
                 PROVE  Released(c, m, i)'
      BY DEF PressesEnd
    <2>1. Released(c, m, i + 1)
      BY <1>1 DEF Noted, PressesEnd
    <2> QED
      BY <1>1, <2>1
  <1>4. DownEnds'
    <2> SUFFICES ASSUME NEW m \in down'
                 PROVE  \E c \in devs : m \in held[c] \/ Released(c, m, 0)'
      BY DEF DownEnds
    <2>1. CASE e.dev \in devs /\ e.press /\ m = e.code
      <3>1. CASE m \in held[e.dev]
        BY <2>1, <3>1
      <3>2. CASE m \notin held[e.dev]
        <4>1. events[1] = KeyReport(e.dev, m, TRUE)
          BY <1>1, <1>2, <2>1
        <4>2. Released(e.dev, m, 1)
          BY <1>1, <1>2, <2>1, <3>2, <4>1 DEF Noted, PressesEnd
        <4>3. 0 \in Nat /\ 0 + 1 = 1
          OBVIOUS
        <4> QED
          BY <1>1, <2>1, <4>2, <4>3
      <3> QED
        BY <3>1, <3>2
    <2>2. CASE m \in down /\ (e.dev \notin devs \/ e.press \/ m # e.code)
      <3>1. PICK c \in devs : m \in held[c] \/ Released(c, m, 0)
        BY <2>2 DEF Noted, DownEnds
      <3>2. e # KeyReport(c, m, FALSE)
        BY <2>2 DEF KeyReport
      <3> QED
        BY <1>1, <3>1, <3>2
    <2> QED
      BY <2>1, <2>2 DEF DownAfter
  <1>5. Heeded'
    <2> SUFFICES ASSUME NEW d \in devs, d \notin selected
                 PROVE  \E i \in DOMAIN events' : Leaves(events'[i], d)
      BY DEF Heeded
    <2>1. PICK i \in DOMAIN events : Leaves(events[i], d)
      BY DEF Noted, Heeded
    <2>2. i # 1
      BY <1>1, <2>1 DEF Leaves
    <2> QED
      BY <1>1, <2>1, <2>2
  <1> QED
    BY <1>1, <1>3, <1>4, <1>5 DEF Noted

(* A report of the hierarchy is read.  There is no report left of a key of   *)
(* its keyboard, and none is held there.                                     *)
LEMMA NotedHier ==
  ASSUME TypeOK, Noted, Noticed, RecvHier
  PROVE  Noted'
  <1> DEFINE h == Head(events)
  <1>1. pc # "exit" /\ events # <<>> /\ events' = Tail(events) /\ h.kind = "hier"
        /\ UNCHANGED <<held, down, pc>>
    BY DEF RecvHier
  <1>2. /\ KeysFirst'
        /\ \A c, m : \A i \in Nat : Released(c, m, i + 1) => Released(c, m, i)'
        /\ \A c, m : Released(c, m, 0) /\ h # KeyReport(c, m, FALSE) => Released(c, m, 0)'
        /\ \A i \in DOMAIN events' : i \in Nat /\ i + 1 \in DOMAIN events /\ events'[i] = events[i + 1]
        /\ \A i \in DOMAIN events : i # 1 => i - 1 \in DOMAIN events' /\ events'[i - 1] = events[i]
        /\ 1 \in DOMAIN events /\ events[1] = h
    BY <1>1, NotedTail
  <1>3. h.dev \in Keyboards /\ held[h.dev] = {}
    <2>1. h \in HierEvent
      BY <1>1, Kinds
    <2> QED
      BY <1>1, <1>2, <2>1 DEF HierEvent, Noticed
  <1>4. \A i \in DOMAIN events : events[i].kind = "key" => events[i].dev # h.dev
    <2> SUFFICES ASSUME NEW i \in DOMAIN events, events[i].kind = "key"
                 PROVE  events[i].dev # h.dev
      OBVIOUS
    <2>1. i # 1
      BY <1>1, <1>2
    <2>2. 1 < i
      BY <2>1 DEF TypeOK, XTypeOK
    <2> QED
      BY <1>1, <1>2, <2>2 DEF Noted, KeysFirst
  <1>5. \A m, p : \A i \in DOMAIN events : events[i] # KeyReport(h.dev, m, p)
    BY <1>4 DEF KeyReport
  <1>6. /\ \A d : d # h.dev => (d \in devs' <=> d \in devs) /\ (d \in selected <=> d \in selected')
        /\ h.dev \in devs' => h.dev \in selected' \/ (h.dev \in devs /\ ~Leaves(h, h.dev) /\ selected' = selected)
    BY DEF RecvHier, AddDev, RemoveDev, Leaves
  <1>7. PressesEnd'
    <2> SUFFICES ASSUME NEW c \in devs', NEW m \in Keys, NEW i \in DOMAIN events',
                        m \notin held[c], events'[i] = KeyReport(c, m, TRUE)
                 PROVE  Released(c, m, i)'
      BY <1>1 DEF PressesEnd
    <2>1. i + 1 \in DOMAIN events /\ i \in Nat /\ events[i + 1] = KeyReport(c, m, TRUE)
      BY <1>2
    <2>2. c # h.dev
      BY <1>5, <2>1
    <2>3. Released(c, m, i + 1)
      BY <1>1, <1>6, <2>1, <2>2 DEF Noted, PressesEnd
    <2> QED
      BY <1>2, <2>1, <2>3
  <1>8. DownEnds'
    <2> SUFFICES ASSUME NEW m \in down
                 PROVE  \E c \in devs' : m \in held[c] \/ Released(c, m, 0)'
      BY <1>1 DEF DownEnds
    <2>1. PICK c \in devs : m \in held[c] \/ Released(c, m, 0)
      BY <1>1 DEF Noted, DownEnds
    <2>2. c # h.dev
      BY <1>3, <1>5, <2>1 DEF Released
    <2>3. h # KeyReport(c, m, FALSE)
      BY <1>1 DEF KeyReport
    <2> QED
      BY <1>2, <1>6, <2>1, <2>2, <2>3
  <1>9. Heeded'
    <2> SUFFICES ASSUME NEW d \in devs', d \notin selected'
                 PROVE  \E i \in DOMAIN events' : Leaves(events'[i], d)
      BY DEF Heeded
    <2>1. d \in devs /\ d \notin selected /\ ~Leaves(h, d)
      BY <1>6 DEF Leaves
    <2>2. PICK i \in DOMAIN events : Leaves(events[i], d)
      BY <1>1, <2>1 DEF Noted, Heeded
    <2>3. i # 1
      BY <1>2, <2>1, <2>2
    <2> QED
      BY <1>2, <2>2, <2>3
  <1> QED
    BY <1>2, <1>7, <1>8, <1>9 DEF Noted

(* A keyboard comes or goes: what is reported of it. *)
LEMMA HotplugReports ==
  ASSUME NEW d, d \in Keyboards, Plug(d) \/ Unplug(d) \/ Detach(d) \/ Reattach(d)
  PROVE  \E r \in Seq(HierEvent) :
           /\ events' = events \o r
           /\ \A c : c \in selected /\ c \notin selected' =>
                Len(r) > 0 /\ Leaves(r[1], c)
  <1>1. CASE Unplug(d)
    <2> DEFINE a == HierReport(d, "DeviceDisabled", FALSE)
               b == HierReport(d, "SlaveRemoved", FALSE)
    <2>1. a \in HierEvent /\ b \in HierEvent /\ Leaves(a, d)
      BY DEF HierReport, HierEvent, Leaves
    <2>2. events' = events \o <<a, b>> /\ selected' = selected \ {d}
      BY <1>1 DEF Unplug, Hotplug
    <2> HIDE DEF a, b
    <2>3. <<a, b>> \in Seq(HierEvent) /\ Len(<<a, b>>) > 0 /\ <<a, b>>[1] = a
      BY <2>1, Tuples
    <2>4. \A c : c \in selected /\ c \notin selected' => Leaves(a, c)
      BY <2>1, <2>2
    <2> QED
      BY <2>2, <2>3, <2>4
  <1>2. CASE Plug(d)
    <2> DEFINE a == HierReport(d, "SlaveAdded", FALSE)
               b == HierReport(d, "DeviceEnabled", TRUE)
    <2>1. a \in HierEvent /\ b \in HierEvent
      BY DEF HierReport, HierEvent
    <2>2. events' = events \o <<a, b>> /\ selected' = selected
      BY <1>2 DEF Plug, Hotplug
    <2> HIDE DEF a, b
    <2> QED
      BY <2>1, <2>2, Tuples
  <1>3. CASE Detach(d)
    <2> DEFINE a == HierReport(d, "SlaveDetached", TRUE)
    <2>1. a \in HierEvent
      BY DEF HierReport, HierEvent
    <2>2. events' = events \o <<a>> /\ selected' = selected
      BY <1>3 DEF Detach, Hotplug
    <2> HIDE DEF a
    <2> QED
      BY <2>1, <2>2, Tuples
  <1>4. CASE Reattach(d)
    <2> DEFINE a == HierReport(d, "SlaveAttached", TRUE)
    <2>1. a \in HierEvent
      BY DEF HierReport, HierEvent
    <2>2. events' = events \o <<a>> /\ selected' = selected
      BY <1>4 DEF Reattach, Hotplug
    <2> HIDE DEF a
    <2> QED
      BY <2>1, <2>2, Tuples
  <1> QED
    BY <1>1, <1>2, <1>3, <1>4

(* Reports of the hierarchy join the queue: those before them stay. *)
LEMMA HierAppended ==
  ASSUME TypeOK, NEW r \in Seq(HierEvent), events' = events \o r
  PROVE  /\ \A i \in DOMAIN events : i \in DOMAIN events' /\ events'[i] = events[i]
         /\ \A i \in DOMAIN events' : i \in DOMAIN events \/ events'[i].kind = "hier"
  <1>1. /\ Len(events) \in Nat /\ Len(r) \in Nat
        /\ DOMAIN events = 1 .. Len(events) /\ DOMAIN events' = 1 .. Len(events) + Len(r)
        /\ \A i \in 1 .. Len(events) : events'[i] = events[i]
        /\ \A i \in 1 .. Len(r) : events'[Len(events) + i] = r[i]
    BY DEF TypeOK, XTypeOK
  <1>2. ASSUME NEW i \in DOMAIN events', i \notin DOMAIN events PROVE events'[i].kind = "hier"
    <2>1. i - Len(events) \in 1 .. Len(r) /\ Len(events) + (i - Len(events)) = i
      BY <1>1, <1>2
    <2>2. events'[i] = r[i - Len(events)] /\ r[i - Len(events)] \in HierEvent
      BY <1>1, <2>1
    <2> QED
      BY <2>2 DEF HierEvent
  <1> QED
    BY <1>1, <1>2

(* A keyboard comes or goes; no key is held there. *)
LEMMA NotedHotplug ==
  ASSUME TypeOK, Noted, pc # "exit", NEW d \in Keyboards,
         Plug(d) \/ Unplug(d) \/ Detach(d) \/ Reattach(d), UNCHANGED mainVars
  PROVE  Noted'
  <1>1. PICK r \in Seq(HierEvent) :
          /\ events' = events \o r
          /\ \A c : c \in selected /\ c \notin selected' =>
               Len(r) > 0 /\ Leaves(r[1], c)
    BY HotplugReports
  <1>2. held' = held /\ devs' = devs /\ down' = down /\ pc' = pc
    BY DEF Plug, Unplug, Detach, Reattach, Hotplug, mainVars
  <1>3. /\ Len(events) \in Nat /\ Len(r) \in Nat
        /\ DOMAIN events = 1 .. Len(events) /\ DOMAIN events' = 1 .. Len(events) + Len(r)
        /\ \A i \in 1 .. Len(events) : events'[i] = events[i]
        /\ \A i \in 1 .. Len(r) : events'[Len(events) + i] = r[i]
    BY <1>1 DEF TypeOK, XTypeOK
  <1>4. /\ \A i \in DOMAIN events : i \in DOMAIN events' /\ events'[i] = events[i]
        /\ \A i \in DOMAIN events' : i \in Nat
        /\ \A i, j \in DOMAIN events' : i < j /\ j \in DOMAIN events => i \in DOMAIN events
    BY <1>3
  <1>5. \A i \in DOMAIN events' : i \notin DOMAIN events => events'[i].kind = "hier"
    BY <1>1, HierAppended
  <1>6. \A c, m, i : Released(c, m, i) => Released(c, m, i)'
    BY <1>4 DEF Released
  <1>7. KeysFirst'
    BY <1>4, <1>5 DEF Noted, KeysFirst
  <1>8. PressesEnd'
    <2> SUFFICES ASSUME NEW c \in devs, NEW m \in Keys, NEW i \in DOMAIN events',
                        m \notin held[c], events'[i] = KeyReport(c, m, TRUE)
                 PROVE  Released(c, m, i)'
      BY <1>2 DEF PressesEnd
    <2>1. i \in DOMAIN events
      BY <1>5 DEF KeyReport
    <2> QED
      BY <1>4, <1>6, <2>1 DEF Noted, PressesEnd
  <1>9. DownEnds'
    BY <1>2, <1>6 DEF Noted, DownEnds
  <1>10. Heeded'
    <2> SUFFICES ASSUME NEW c \in devs, c \notin selected'
                 PROVE  \E i \in DOMAIN events' : Leaves(events'[i], c)
      BY <1>2 DEF Heeded
    <2>1. CASE c \in selected
      <3>1. 1 \in 1 .. Len(r) /\ Leaves(r[1], c)
        BY <1>1, <1>3, <2>1
      <3>2. Len(events) + 1 \in DOMAIN events' /\ events'[Len(events) + 1] = r[1]
        BY <1>3, <3>1
      <3> QED
        BY <3>1, <3>2
    <2>2. CASE c \notin selected
      BY <1>4, <2>2 DEF Noted, Heeded
    <2> QED
      BY <2>1, <2>2
  <1> QED
    BY <1>7, <1>8, <1>9, <1>10 DEF Noted

LEMMA NotedStep ==
  ASSUME TypeInv, Noted, Noticed, Noticed', [Next]_vars
  PROVE  Noted'
  <1> USE DEF TypeInv
  <1>1. ASSUME UNCHANGED <<events, devs, held, down>>, pc' = pc \/ pc' = "exit" \/ pc # "exit",
               selected' = selected \/ pc' = "exit"
        PROVE  Noted'
    <2>1. \A c, m, i : Released(c, m, i)' <=> Released(c, m, i)
      BY <1>1 DEF Released
    <2>2. pc' # "exit" => pc # "exit" /\ selected' = selected
      BY <1>1
    <2>3. Noted /\ pc # "exit" => KeysFirst' /\ PressesEnd' /\ DownEnds'
      BY <1>1, <2>1 DEF Noted, KeysFirst, PressesEnd, DownEnds
    <2>4. Noted /\ pc # "exit" /\ selected' = selected => Heeded'
      BY <1>1 DEF Noted, Heeded
    <2> QED
      BY <2>2, <2>3, <2>4 DEF Noted
  <1>2. CASE User
    <2>1. pc' = pc /\ UNCHANGED mainVars
      BY <1>2 DEF User, mainVars
    <2>2. CASE pc = "exit"
      BY <2>1, <2>2 DEF Noted
    <2> QED
      BY <1>2, <2>1, <2>2, NotedKey, NotedHotplug DEF User
  <1>3. CASE Server
    BY <1>1, <1>3 DEF Server, ServeFakes, mainVars, setup
  <1>4. CASE RecvKey
    <2>1. UNCHANGED <<held, selected, devs>> /\ pc # "exit" /\ events # <<>>
          /\ Head(events).kind = "key"
      BY <1>4 DEF RecvKey, setup
    <2>2. CASE HandleKey(Head(events)) /\ Head(events).dev \in devs
      BY <2>1, <2>2, NotedTaken DEF HandleKey
    <2>3. CASE Head(events).dev \notin devs /\ events' = Tail(events) /\ down' = down
      BY <2>1, <2>3, NotedTaken
    <2>4. CASE UNCHANGED <<events, down>>
      BY <1>1, <2>1, <2>4
    <2> QED
      BY <1>4, <2>2, <2>3, <2>4 DEF RecvKey
  <1>5. CASE GrabFloating
    <2>1. UNCHANGED <<held, selected, devs>> /\ pc # "exit" /\ events # <<>>
          /\ Head(events).kind = "key" /\ HandleKey(Head(events)) /\ Head(events).dev \in devs
      BY <1>5 DEF GrabFloating, GrabPending, setup
    <2> QED
      BY <2>1, NotedTaken DEF HandleKey
  <1>6. CASE Settle
    BY <1>1, <1>6 DEF Settle, setup
  <1>7. CASE RecvHier
    BY <1>7, NotedHier
  <1>8. CASE ProcReplay
    BY <1>1, <1>8 DEF ProcReplay, setup
  <1>9. CASE Quit
    BY <1>1, <1>9 DEF Quit
  <1>10. CASE UNCHANGED vars
    BY <1>1, <1>10 DEF vars, srvVars, mainVars
  <1> QED
    BY <1>2, <1>3, <1>4, <1>5, <1>6, <1>7, <1>8, <1>9, <1>10 DEF Next, Daemon

(* Whatever keyboards come and go, however far the loop lags and whatever    *)
(* requests fail: once it has caught up with a user who holds no key it      *)
(* believes no key down, holds no keyboard and is ready for the next         *)
(* sequence, unless a keyboard was typed on before the loop had read that it *)
(* came or went (proc_xin_devent drops such reports, lib.rs:78-82).          *)
THEOREM Rests == Spec /\ []Noticed => []AtRest
  <1>1. LeaseInv /\ Noted => AtRest
    <2> SUFFICES ASSUME LeaseInv, Noted, Quiet PROVE down = {} /\ floating = NoDev /\ seqbuf = <<>> /\ maybe
      BY DEF AtRest
    <2>1. DOMAIN events = {} /\ devs \subseteq Keyboards
      BY DEF Quiet, LeaseInv, TypeInv, TypeOK
    <2>2. down = {}
      BY <2>1 DEF Quiet, Noted, DownEnds, Released
    <2> QED
      BY <2>2 DEF Quiet, LeaseInv, Lease
  <1>2. LeaseInv /\ Noted /\ Noticed /\ Noticed' /\ [Next]_vars => (LeaseInv /\ Noted)'
    BY StepType, LeaseStep, NotedStep DEF LeaseInv
  <1> QED
    BY <1>1, <1>2, LeaseInit, NotedInit, PTL DEF Spec

-----------------------------------------------------------------------------
(* With the keyboards that were there from the start (MaxPlugs = 0) nothing  *)
(* else is reported than their keys.                                         *)

Tracked ==
  /\ \A i \in DOMAIN events : events[i] \in KeyEvent
  /\ devs = Keyboards
  /\ pc # "exit" => selected = Keyboards /\ PressesEnd /\ DownEnds

LEMMA TrackedInit == Init => Tracked
  BY DEF Init, XInit, MainInit, Tracked, PressesEnd, DownEnds

LEMMA KeysOnly ==
  ASSUME TypeOK, \A i \in DOMAIN events : events[i] \in KeyEvent
  PROVE  Noticed /\ KeysFirst /\ (events # <<>> => Head(events).kind = "key")
  <1>1. \A i \in DOMAIN events : events[i].kind # "hier"
    BY DEF KeyEvent
  <1>2. events # <<>> => Head(events).kind = "key"
    BY Popped DEF TypeOK, XTypeOK, KeyEvent
  <1> QED
    BY <1>1, <1>2 DEF Noticed, KeysFirst

LEMMA TrackedStep ==
  ASSUME MaxPlugs = 0, TypeInv, Tracked, [Next]_vars
  PROVE  Tracked'
  <1> USE DEF TypeInv
  <1>1. plugs = 0
    BY DEF TypeOK, XTypeOK
  <1>2. Noticed /\ Noted /\ TypeInv'
    BY StepType, KeysOnly DEF Tracked, Noted, Heeded
  <1>3. \A i \in DOMAIN Tail(events) : events # <<>> => Tail(events)[i] \in KeyEvent
    <2> SUFFICES ASSUME NEW i \in DOMAIN Tail(events), events # <<>>
                 PROVE  Tail(events)[i] \in KeyEvent
      OBVIOUS
    <2>1. i + 1 \in DOMAIN events /\ Tail(events)[i] = events[i + 1]
      BY Popped DEF TypeOK, XTypeOK
    <2> QED
      BY <2>1 DEF Tracked
  <1>4. (\A i \in DOMAIN events' : events'[i] \in KeyEvent) /\ devs' = devs
        /\ (pc' # "exit" => pc # "exit" /\ selected' = selected)
    <2>1. CASE User
      <3>1. PICK d \in Keyboards, k \in Keys : KeyDown(d, k) \/ KeyUp(d, k)
        BY <1>1, <2>1 DEF User, Plug, Unplug, Detach, Reattach, Hotplug
      <3>2. \A p \in BOOLEAN : Report(d, k, p) => \A i \in DOMAIN events' : events'[i] \in KeyEvent
        BY Appended, Reports DEF Report, Tracked, TypeOK, XTypeOK
      <3>3. Report(d, k, TRUE) \/ Report(d, k, FALSE)
        BY <3>1 DEF KeyDown, KeyUp
      <3>4. UNCHANGED <<devs, pc, selected>>
        BY <2>1, <3>1 DEF User, mainVars, KeyDown, KeyUp, setup
      <3> QED
        BY <3>2, <3>3, <3>4
    <2>2. CASE RecvKey \/ GrabFloating
      <3>1. /\ UNCHANGED <<devs, selected>> /\ pc # "exit"
            /\ events' = events \/ (events # <<>> /\ events' = Tail(events))
        BY <2>2 DEF RecvKey, GrabFloating, HandleKey, setup, GrabPending
      <3> QED
        BY <1>3, <3>1 DEF Tracked
    <2>3. CASE RecvHier
      BY <2>3, KeysOnly DEF RecvHier, Tracked
    <2>4. CASE Quit
      BY <2>4 DEF Quit, Tracked
    <2>5. CASE Settle \/ ProcReplay \/ Server \/ UNCHANGED vars
      <3>1. UNCHANGED <<devs, selected, events>> /\ (pc' # "exit" => pc # "exit")
        BY <2>5 DEF Settle, ProcReplay, Server, ServeFakes, vars, srvVars, mainVars, setup
      <3> QED
        BY <3>1 DEF Tracked
    <2> QED
      BY <2>1, <2>2, <2>3, <2>4, <2>5 DEF Next, Daemon
  <1>5. Noticed'
    BY <1>4 DEF Noticed, KeyEvent
  <1>6. Noted'
    BY <1>2, <1>5, NotedStep
  <1> QED
    BY <1>4, <1>6 DEF Tracked, Noted

LEMMA TrackedInvariant == ASSUME MaxPlugs = 0 PROVE Spec => [](LeaseInv /\ Tracked)
  <1>1. LeaseInv /\ Tracked /\ [Next]_vars => (LeaseInv /\ Tracked)'
    BY StepType, LeaseStep, TrackedStep DEF LeaseInv
  <1> QED
    BY <1>1, LeaseInit, TrackedInit, PTL DEF Spec

LEMMA InPlace == ASSUME MaxPlugs = 0 PROVE Spec => []Noticed
  <1>1. LeaseInv /\ Tracked => Noticed
    BY KeysOnly DEF LeaseInv, TypeInv, Tracked
  <1> QED
    BY <1>1, TrackedInvariant, PTL

(* With the keyboards that were there from the start the loop is at rest as  *)
(* soon as all is quiet, whatever the user does.                             *)
COROLLARY RestsInPlace == ASSUME MaxPlugs = 0 PROVE Spec => []AtRest
  BY InPlace, Rests, PTL

-----------------------------------------------------------------------------
(* Why debug_assert!(np) holds with one keyboard: between two presses of a   *)
(* key in the queue, and between the loop believing a key down and a press   *)
(* of it, there is its release.                                              *)

Between(d, k, i, j) ==
  \E m \in DOMAIN events : i < m /\ m < j /\ events[m] = KeyReport(d, k, FALSE)

Alternating ==
  \A d \in devs, k \in Keys : \A j \in DOMAIN events :
    events[j] = KeyReport(d, k, TRUE) =>
      /\ k \in down => Between(d, k, 0, j)
      /\ \A i \in DOMAIN events :
           i < j /\ events[i] = KeyReport(d, k, TRUE) => Between(d, k, i, j)

OneKeyboard == \A c, d \in Keyboards : c = d

(* The loop hears the keys of a keyboard it knows. *)
LEMMA Heard ==
  ASSUME TypeOK, Noted, Noticed, Noticed', pc # "exit", NEW d \in devs, NEW k \in Keys,
         KeyDown(d, k) \/ KeyUp(d, k)
  PROVE  \E p \in BOOLEAN : /\ p <=> k \notin held[d]
                           /\ events' = Append(events, KeyReport(d, k, p))
  <1>1. d \in Keyboards
    BY DEF TypeOK
  <1>2. PICK p \in BOOLEAN : (p <=> k \notin held[d]) /\ Report(d, k, p)
    BY DEF KeyDown, KeyUp
  <1>3. CASE d \notin selected
    <2>1. events' = events
      BY <1>2, <1>3 DEF Report
    <2>2. held[d] # {} \/ held'[d] # {}
      BY <1>1 DEF KeyDown, KeyUp, TypeOK, XTypeOK
    <2>3. \A i \in DOMAIN events : ~(events[i].kind = "hier" /\ events[i].dev = d)
      BY <1>1, <2>1, <2>2 DEF Noticed
    <2> QED
      BY <1>3, <2>3 DEF Noted, Heeded, Leaves
  <1> QED
    BY <1>2, <1>3 DEF Report

LEMMA AlternatingKey ==
  ASSUME OneKeyboard, TypeOK, Noted, Noticed, Noticed', Alternating, pc # "exit",
         NEW d \in devs, NEW k \in Keys,
         KeyDown(d, k) \/ KeyUp(d, k), UNCHANGED mainVars
  PROVE  Alternating'
  <1>1. PICK p \in BOOLEAN : /\ p => k \notin held[d]
                             /\ events' = Append(events, KeyReport(d, k, p))
    BY Heard
  <1>0. devs \subseteq Keyboards /\ devs' = devs
    BY DEF TypeOK, mainVars
  <1>2. PICK n \in Nat \ {0} :
          /\ DOMAIN events' = 1 .. n /\ DOMAIN events = 1 .. n - 1
          /\ \A i \in DOMAIN events : i \in DOMAIN events' /\ events'[i] = events[i]
          /\ events'[n] = KeyReport(d, k, p)
    <2>1. events \in Seq(KeyEvent \cup HierEvent)
      BY DEF TypeOK, XTypeOK
    <2>2. /\ DOMAIN events' = 1 .. Len(events) + 1
          /\ DOMAIN events = 1 .. Len(events)
          /\ events'[Len(events) + 1] = KeyReport(d, k, p)
          /\ \A i \in 1 .. Len(events) : events'[i] = events[i]
          /\ Len(events) \in Nat
      BY <1>1, <2>1
    <2>3. /\ Len(events) + 1 \in Nat \ {0} /\ Len(events) = (Len(events) + 1) - 1
          /\ \A i \in 1 .. Len(events) : i \in 1 .. Len(events) + 1
      BY <2>2
    <2> QED
      BY <2>2, <2>3
  <1>3. DOMAIN events' = 1 .. n /\ DOMAIN events = 1 .. n - 1
    BY <1>2
  <1>4. /\ \A i \in DOMAIN events' : (i \in DOMAIN events /\ i < n) \/ i = n
        /\ \A i \in DOMAIN events : i < n
    BY <1>3
  <1>5. ASSUME NEW c, NEW m, NEW i, NEW j, Between(c, m, i, j)
        PROVE  Between(c, m, i, j)'
    BY <1>2, <1>5 DEF Between
  <1>6. ASSUME NEW m, NEW i, Released(d, m, i)
        PROVE  Between(d, m, i, n)'
    BY <1>2, <1>4, <1>6 DEF Between, Released
  <1> SUFFICES ASSUME NEW c \in devs, NEW m \in Keys, NEW j \in DOMAIN events',
                      events'[j] = KeyReport(c, m, TRUE)
               PROVE  /\ m \in down => Between(c, m, 0, j)'
                      /\ \A i \in DOMAIN events' :
                           i < j /\ events'[i] = KeyReport(c, m, TRUE) => Between(c, m, i, j)'
    BY DEF Alternating, mainVars
  <1>7. CASE j \in DOMAIN events
    <2>1. events[j] = KeyReport(c, m, TRUE)
      BY <1>2, <1>7
    <2>2. ASSUME NEW i \in DOMAIN events', i < j PROVE i \in DOMAIN events
      BY <1>3, <1>7, <2>2
    <2> QED
      BY <1>2, <1>5, <1>7, <2>1, <2>2 DEF Alternating
  <1>8. CASE j = n
    <2>1. KeyReport(d, k, p) = KeyReport(c, m, TRUE)
      BY <1>2, <1>8
    <2>2. c = d /\ m = k /\ k \notin held[d]
      BY <1>1, <2>1 DEF KeyReport
    <2>3. ASSUME m \in down PROVE Between(c, m, 0, j)'
      <3>1. PICK b \in devs : k \in held[b] \/ Released(b, k, 0)
        BY <2>2, <2>3 DEF Noted, DownEnds
      <3>2. b = d
        BY <1>0 DEF OneKeyboard
      <3> QED
        BY <1>6, <1>8, <2>2, <3>1, <3>2
    <2>4. ASSUME NEW i \in DOMAIN events', i < j, events'[i] = KeyReport(c, m, TRUE)
          PROVE  Between(c, m, i, j)'
      <3>1. i \in DOMAIN events
        BY <1>3, <1>8, <2>4
      <3>2. events[i] = KeyReport(d, k, TRUE)
        BY <1>2, <2>2, <2>4, <3>1
      <3>3. Released(d, k, i)
        BY <2>2, <3>1, <3>2 DEF Noted, PressesEnd
      <3> QED
        BY <1>6, <1>8, <2>2, <3>3
    <2> QED
      BY <2>3, <2>4
  <1> QED
    BY <1>4, <1>7, <1>8

LEMMA AlternatingHandle ==
  ASSUME OneKeyboard, TypeOK, Alternating, events # <<>>, Head(events).kind = "key",
         Head(events).dev \in devs, HandleKey(Head(events)), UNCHANGED devs
  PROVE  Alternating'
  <1> DEFINE e == Head(events)
  <1>0. devs \subseteq Keyboards
    BY DEF TypeOK
  <1>1. events' = Tail(events) /\ down' = DownAfter(e)
    BY DEF HandleKey
  <1>2. PICK n \in Nat \ {0} :
          /\ DOMAIN events = 1 .. n /\ e = events[1] /\ DOMAIN events' = 1 .. n - 1
          /\ \A i \in 1 .. n - 1 : events'[i] = events[i + 1]
    <2>1. Len(events) \in Nat \ {0}
      BY DEF TypeOK, XTypeOK
    <2> QED
      BY <1>1, <2>1, Popped DEF TypeOK, XTypeOK
  <1>3. DOMAIN events = 1 .. n /\ DOMAIN events' = 1 .. n - 1
    BY <1>2
  <1>4. /\ \A i \in DOMAIN events' : i \in Nat /\ i > 0 /\ i + 1 \in DOMAIN events
        /\ 1 \in DOMAIN events
    BY <1>3
  <1>5. \A i \in DOMAIN events' : events'[i] = events[i + 1]
    BY <1>2, <1>3
  <1>6. e \in KeyEvent /\ e.dev \in Keyboards /\ e.code \in Keys /\ e = events[1]
    BY <1>2, <1>4, Kinds DEF KeyEvent
  <1>7. ASSUME NEW c, NEW m, NEW i \in Nat, NEW j \in DOMAIN events',
               Between(c, m, i + 1, j + 1)
        PROVE  Between(c, m, i, j)'
    <2>1. PICK l \in DOMAIN events : i + 1 < l /\ l < j + 1 /\ events[l] = KeyReport(c, m, FALSE)
      BY <1>7 DEF Between
    <2>2. l - 1 \in DOMAIN events' /\ (l - 1) + 1 = l /\ i < l - 1 /\ l - 1 < j
      BY <1>3, <2>1
    <2>3. events'[l - 1] = KeyReport(c, m, FALSE)
      BY <1>5, <2>1, <2>2
    <2> QED
      BY <2>2, <2>3 DEF Between
  <1> SUFFICES ASSUME NEW c \in devs, NEW m \in Keys, NEW j \in DOMAIN events',
                      events'[j] = KeyReport(c, m, TRUE)
               PROVE  /\ m \in down' => Between(c, m, 0, j)'
                      /\ \A i \in DOMAIN events' :
                           i < j /\ events'[i] = KeyReport(c, m, TRUE) => Between(c, m, i, j)'
    BY DEF Alternating
  <1>8. events[j + 1] = KeyReport(c, m, TRUE) /\ j + 1 \in DOMAIN events /\ j > 0 /\ j \in Nat
    BY <1>4, <1>5
  <1>9. ASSUME m \in down' PROVE Between(c, m, 0, j)'
    <2>1. CASE e.press /\ m = e.code
      <3>1. e.dev = c /\ e.press = TRUE
        BY <1>0, <1>6, <2>1 DEF OneKeyboard, KeyEvent
      <3>2. events[1] = KeyReport(c, m, TRUE)
        BY <1>6, <2>1, <3>1, Reports
      <3>3. 1 < j + 1
        BY <1>8
      <3>4. Between(c, m, 1, j + 1)
        BY <1>4, <1>8, <3>2, <3>3 DEF Alternating
      <3>5. Between(c, m, 0 + 1, j + 1)
        BY <3>4
      <3> QED
        BY <1>7, <3>5
    <2>2. CASE m \in down /\ (e.press \/ m # e.code)
      <3>1. Between(c, m, 0, j + 1)
        BY <1>8, <2>2 DEF Alternating
      <3>2. PICK l \in DOMAIN events : 0 < l /\ l < j + 1 /\ events[l] = KeyReport(c, m, FALSE)
        BY <3>1 DEF Between
      <3>3. events[l].code = m /\ ~events[l].press
        BY <3>2 DEF KeyReport
      <3>4. l # 1
        BY <1>6, <2>2, <3>3
      <3>5. 0 + 1 < l
        BY <1>3, <3>2, <3>4
      <3>6. Between(c, m, 0 + 1, j + 1)
        BY <3>2, <3>5 DEF Between
      <3> QED
        BY <1>7, <3>6
    <2> QED
      BY <1>1, <1>9, <2>1, <2>2 DEF DownAfter
  <1>10. ASSUME NEW i \in DOMAIN events', i < j, events'[i] = KeyReport(c, m, TRUE)
         PROVE  Between(c, m, i, j)'
    <2>1. i \in Nat /\ i + 1 \in DOMAIN events /\ i + 1 < j + 1
      BY <1>4, <1>8, <1>10
    <2>2. events[i + 1] = KeyReport(c, m, TRUE)
      BY <1>5, <1>10
    <2>3. Between(c, m, i + 1, j + 1)
      BY <1>8, <2>1, <2>2 DEF Alternating
    <2> QED
      BY <1>7, <2>1, <2>3
  <1> QED
    BY <1>9, <1>10

(* As a report of the one keyboard's coming or going is read none of its     *)
(* keys is left in the queue, and none is held.                              *)
LEMMA OnlyHier ==
  ASSUME OneKeyboard, TypeOK, Noted, Noticed, RecvHier
  PROVE  /\ \A i \in DOMAIN events' : events'[i].kind = "hier"
         /\ \A d \in Keyboards : held'[d] = {}
  <1> DEFINE h == Head(events)
  <1>1. pc # "exit" /\ events # <<>> /\ events' = Tail(events) /\ h.kind = "hier" /\ held' = held
    BY DEF RecvHier
  <1>2. /\ \A i \in DOMAIN events' : i \in Nat /\ i + 1 \in DOMAIN events /\ events'[i] = events[i + 1]
        /\ 1 \in DOMAIN events /\ events[1] = h
    BY <1>1, NotedTail
  <1>3. h.dev \in Keyboards
    BY <1>1, Kinds DEF HierEvent
  <1>4. \A i \in DOMAIN events : events[i] \in KeyEvent \cup HierEvent
    BY DEF TypeOK, XTypeOK
  <1>5. ASSUME NEW i \in DOMAIN events' PROVE events'[i].kind = "hier"
    <2>1. 1 < i + 1 /\ i + 1 \in DOMAIN events /\ events'[i] = events[i + 1]
          /\ DOMAIN events' \subseteq Nat \ {0}
      <3>1. DOMAIN events' \subseteq Nat \ {0}
        BY <1>1, Popped DEF TypeOK, XTypeOK
      <3> QED
        BY <1>2, <3>1
    <2>2. events[i + 1] \in KeyEvent \cup HierEvent
      BY <1>4, <2>1
    <2>3. events[i + 1].kind = "key" => events[i + 1].dev # h.dev
      BY <1>1, <1>2, <2>1 DEF Noted, KeysFirst
    <2>4. events[i + 1].dev = h.dev
      BY <1>3, <2>2 DEF KeyEvent, HierEvent, OneKeyboard
    <2> QED
      BY <2>1, <2>2, <2>3, <2>4 DEF KeyEvent, HierEvent
  <1>6. ASSUME NEW d \in Keyboards PROVE held'[d] = {}
    <2>1. h.dev = d
      BY <1>3 DEF OneKeyboard
    <2> QED
      BY <1>1, <1>2, <2>1 DEF Noticed
  <1> QED
    BY <1>5, <1>6

LEMMA AlternatingStep ==
  ASSUME OneKeyboard, TypeInv, Noted, Noticed, Noticed', pc = "exit" \/ Alternating, [Next]_vars
  PROVE  pc' = "exit" \/ Alternating'
  <1> USE DEF TypeInv
  <1>1. ASSUME UNCHANGED <<events, down, devs>>, pc' = pc \/ pc # "exit"
        PROVE  pc' = "exit" \/ Alternating'
    <2>1. CASE pc = "exit"
      BY <1>1, <2>1
    <2>2. CASE Alternating
      <3>1. \A d, k, i, j : Between(d, k, i, j)' <=> Between(d, k, i, j)
        BY <1>1 DEF Between
      <3> QED
        BY <1>1, <2>2, <3>1 DEF Alternating
    <2> QED
      BY <2>1, <2>2
  <1>2. devs' = {} => Alternating'
    BY DEF Alternating
  <1>3. CASE User
    <2>1. UNCHANGED mainVars /\ pc' = pc /\ devs' = devs /\ down' = down /\ devs \subseteq Keyboards
      BY <1>3 DEF User, mainVars, TypeOK
    <2> SUFFICES ASSUME pc # "exit", devs # {} PROVE Alternating'
      BY <1>2, <2>1
    <2>2. PICK d \in Keyboards : \/ \E k \in Keys : KeyDown(d, k) \/ KeyUp(d, k)
                                 \/ Plug(d) \/ Unplug(d) \/ Detach(d) \/ Reattach(d)
      BY <1>3 DEF User
    <2>3. d \in devs
      BY <2>1 DEF OneKeyboard
    <2>4. CASE \E k \in Keys : KeyDown(d, k) \/ KeyUp(d, k)
      BY <2>1, <2>3, <2>4, AlternatingKey
    <2>5. CASE Plug(d) \/ Unplug(d) \/ Detach(d) \/ Reattach(d)
      <3>1. /\ \A i \in DOMAIN events : i \in DOMAIN events' /\ events'[i] = events[i]
            /\ \A i \in DOMAIN events' : i \in DOMAIN events \/ events'[i].kind = "hier"
        BY <2>5, HotplugReports, HierAppended
      <3>2. \A c, m, i, j : Between(c, m, i, j) => Between(c, m, i, j)'
        BY <3>1 DEF Between
      <3>3. \A c, m : \A i \in DOMAIN events' :
              events'[i] = KeyReport(c, m, TRUE) => i \in DOMAIN events /\ events[i] = KeyReport(c, m, TRUE)
        <4> SUFFICES ASSUME NEW c, NEW m, NEW i \in DOMAIN events', events'[i] = KeyReport(c, m, TRUE)
                     PROVE  i \in DOMAIN events /\ events[i] = KeyReport(c, m, TRUE)
          OBVIOUS
        <4>1. events'[i].kind # "hier"
          BY DEF KeyReport
        <4> QED
          BY <3>1, <4>1
      <3> QED
        BY <2>1, <3>2, <3>3 DEF Alternating
    <2> QED
      BY <2>2, <2>4, <2>5
  <1>4. CASE Server
    BY <1>1, <1>4 DEF Server, ServeFakes, mainVars
  <1>5. CASE RecvKey
    <2>1. pc # "exit" /\ events # <<>> /\ Head(events).kind = "key" /\ devs' = devs
      BY <1>5 DEF RecvKey
    <2>2. CASE HandleKey(Head(events)) /\ Head(events).dev \in devs
      BY <2>1, <2>2, AlternatingHandle
    <2>3. CASE Head(events).dev \notin devs
      <3>1. devs' = {}
        BY <2>1, <2>3, Kinds DEF OneKeyboard, KeyEvent, TypeOK
      <3> QED
        BY <1>2, <3>1
    <2>4. CASE UNCHANGED <<events, down>>
      BY <1>1, <2>1, <2>4
    <2> QED
      BY <1>5, <2>2, <2>3, <2>4 DEF RecvKey
  <1>6. CASE GrabFloating
    <2>1. /\ pc # "exit" /\ events # <<>> /\ Head(events).kind = "key" /\ devs' = devs
          /\ Head(events).dev \in devs
      BY <1>6 DEF GrabFloating, GrabPending
    <2> QED
      BY <1>6, <2>1, AlternatingHandle DEF GrabFloating
  <1>7. CASE Settle
    BY <1>1, <1>7 DEF Settle
  <1>8. CASE RecvHier
    <2>1. \A c, m : \A i \in DOMAIN events' : events'[i] # KeyReport(c, m, TRUE)
      BY <1>8, OnlyHier DEF KeyReport
    <2> QED
      BY <2>1 DEF Alternating
  <1>9. CASE ProcReplay
    BY <1>1, <1>9 DEF ProcReplay
  <1>10. CASE Quit
    BY <1>10 DEF Quit
  <1>11. CASE UNCHANGED vars
    BY <1>1, <1>11 DEF vars, srvVars, mainVars
  <1> QED
    BY <1>3, <1>4, <1>5, <1>6, <1>7, <1>8, <1>9, <1>10, <1>11 DEF Next, Daemon

(* With one keyboard debug_assert!(np) of lib.rs:116 never fails, however    *)
(* far the loop lags behind the user, however often the keyboard comes and   *)
(* goes and whatever keys were held when kseqi started, unless the keyboard  *)
(* is typed on before the loop has read that it came or went.  (With two     *)
(* keyboards it does fail: run MainTwo.)                                     *)
THEOREM NeverPressedTwice == ASSUME OneKeyboard PROVE Spec /\ []Noticed => []PressIsNew
  <1> DEFINE Inv == LeaseInv /\ Noted /\ (pc = "exit" \/ Alternating)
  <1>1. Init => Inv
    BY LeaseInit, NotedInit DEF Init, XInit, Alternating
  <1>2. Inv /\ Noticed /\ Noticed' /\ [Next]_vars => Inv'
    BY StepType, LeaseStep, NotedStep, AlternatingStep DEF LeaseInv
  <1>3. Inv => PressIsNew
    <2> SUFFICES ASSUME Inv, pc \in {"recv", "grab"}, events # <<>>, Head(events).kind = "key",
                        Head(events).dev \in devs, Head(events).press, Head(events).code \in down
                 PROVE  FALSE
      BY DEF PressIsNew
    <2> DEFINE e == Head(events)
    <2>1. /\ e = events[1] /\ DOMAIN events = 1 .. Len(events)
          /\ Len(events) \in Nat /\ Len(events) >= 1
      BY Popped DEF LeaseInv, TypeInv, TypeOK, XTypeOK
    <2>2. 1 \in DOMAIN events /\ \A l \in DOMAIN events : ~(l < 1)
      BY <2>1
    <2>3. e \in KeyEvent
      BY Kinds DEF LeaseInv, TypeInv
    <2>4. e = KeyReport(e.dev, e.code, TRUE) /\ e.code \in Keys
      BY <2>3, Reports DEF KeyEvent
    <2>5. Between(e.dev, e.code, 0, 1)
      BY <2>1, <2>2, <2>4 DEF Alternating
    <2> QED
      BY <2>2, <2>5 DEF Between
  <1> QED
    BY <1>1, <1>2, <1>3, PTL DEF Spec

(* With one keyboard that stays that needs nothing of the user. *)
COROLLARY NeverPressedTwiceInPlace == ASSUME OneKeyboard, MaxPlugs = 0 PROVE Spec => []PressIsNew
  BY InPlace, NeverPressedTwice, PTL

-----------------------------------------------------------------------------
(* Why the loop listens to every keyboard once it has read every report,     *)
(* whatever comes and goes.  A keyboard is listened to, with no report on    *)
(* the way that it goes; or its last report says that it has come, and if it *)
(* is known still, one before it that it goes, without which AddDev would    *)
(* pass it over.                                                             *)

Joins(r, d) ==
  /\ r.kind = "hier" /\ r.dev = d
  /\ r.flag = "DeviceEnabled" \/ (r.flag \in {"SlaveAdded", "SlaveAttached"} /\ r.enabled)

\* Of the reports q, the keyboards that are attached, known and listened to.
Ordered(q, d, there) ==
  /\ \A k, i \in DOMAIN q :
       k < i /\ Joins(q[k], d) /\ Joins(q[i], d) =>
         \E j \in DOMAIN q : k < j /\ j < i /\ Leaves(q[j], d)
  /\ d \notin there =>
       \A k \in DOMAIN q : Joins(q[k], d) => \E j \in DOMAIN q : k < j /\ Leaves(q[j], d)

Settled(q, d, known, tuned) ==
  d \in known /\ d \in tuned /\ \A j \in DOMAIN q : ~Leaves(q[j], d)

Coming(q, d, known) ==
  \E i \in DOMAIN q :
    /\ Joins(q[i], d)
    /\ \A j \in DOMAIN q : i < j => ~Leaves(q[j], d)
    /\ d \in known => \E j \in DOMAIN q : j < i /\ Leaves(q[j], d)

Followed(q, d, there, known, tuned) ==
  /\ Ordered(q, d, there)
  /\ d \in known /\ d \notin there => \E j \in DOMAIN q : Leaves(q[j], d)
  /\ <<"add_dev", d>> \notin MayFail /\ d \in there =>
       Settled(q, d, known, tuned) \/ Coming(q, d, known)

\* A report is made.
LEMMA FollowedGrows ==
  ASSUME NEW S, NEW q \in Seq(S), NEW r, NEW d, NEW there, NEW there2, NEW known, NEW tuned, NEW tuned2,
         Followed(q, d, there, known, tuned),
         \/ ~Joins(r, d) /\ ~Leaves(r, d) /\ (d \in there2 <=> d \in there) /\ (d \in tuned => d \in tuned2)
         \/ Joins(r, d) /\ d \notin there /\ d \in there2
         \/ Leaves(r, d) /\ d \notin there2
  PROVE  Followed(Append(q, r), d, there2, known, tuned2)
  <1> DEFINE t == Append(q, r)
  <1>1. PICK n \in Nat :
          /\ \A i \in DOMAIN q : i \in DOMAIN t /\ t[i] = q[i] /\ i < n /\ i \in Nat
          /\ n \in DOMAIN t /\ t[n] = r /\ ~(n < n)
          /\ \A i \in DOMAIN t : i \in DOMAIN q \/ i = n
    <2>1. Len(q) + 1 \in DOMAIN t /\ ~(Len(q) + 1 < Len(q) + 1) /\ Len(q) + 1 \in Nat
      BY Appended
    <2>2. \A i \in DOMAIN q : i < Len(q) + 1 /\ i \in Nat
      BY Appended
    <2>3. \A i \in DOMAIN t : i \in DOMAIN q \/ i = Len(q) + 1
      BY Appended
    <2> QED
      BY <2>1, <2>2, <2>3, Appended
  <1>2. ~(Joins(r, d) /\ Leaves(r, d))
    BY DEF Joins, Leaves
  <1> HIDE DEF t
  <1>3. \A i \in DOMAIN q : ~(n < i)
    BY <1>1
  <1>4. Ordered(t, d, there2)
    <2>1. ASSUME NEW k \in DOMAIN t, NEW i \in DOMAIN t, k < i, Joins(t[k], d), Joins(t[i], d)
          PROVE  \E j \in DOMAIN t : k < j /\ j < i /\ Leaves(t[j], d)
      <3>1. k \in DOMAIN q /\ Joins(q[k], d)
        BY <1>1, <1>3, <2>1
      <3>2. CASE i \in DOMAIN q
        <4>1. Joins(q[i], d)
          BY <1>1, <2>1, <3>2
        <4>2. PICK j \in DOMAIN q : k < j /\ j < i /\ Leaves(q[j], d)
          BY <2>1, <3>1, <3>2, <4>1 DEF Followed, Ordered
        <4> QED
          BY <1>1, <4>2
      <3>3. CASE i = n
        <4>1. d \notin there
          BY <1>1, <1>2, <2>1, <3>3
        <4>2. PICK j \in DOMAIN q : k < j /\ Leaves(q[j], d)
          BY <3>1, <4>1 DEF Followed, Ordered
        <4> QED
          BY <1>1, <3>3, <4>2
      <3> QED
        BY <1>1, <3>2, <3>3
    <2>2. ASSUME d \notin there2, NEW k \in DOMAIN t, Joins(t[k], d)
          PROVE  \E j \in DOMAIN t : k < j /\ Leaves(t[j], d)
      <3>1. CASE k \in DOMAIN q /\ Leaves(r, d)
        BY <1>1, <3>1
      <3>2. CASE k \in DOMAIN q /\ d \notin there
        <4>1. PICK j \in DOMAIN q : k < j /\ Leaves(q[j], d)
          BY <1>1, <2>2, <3>2 DEF Followed, Ordered
        <4> QED
          BY <1>1, <4>1
      <3> QED
        BY <1>1, <1>2, <2>2, <3>1, <3>2
    <2> QED
      BY <2>1, <2>2 DEF Ordered
  <1>5. ASSUME d \in known, d \notin there2 PROVE \E j \in DOMAIN t : Leaves(t[j], d)
    BY <1>1, <1>5 DEF Followed
  <1>6. ASSUME <<"add_dev", d>> \notin MayFail, d \in there2
        PROVE  Settled(t, d, known, tuned2) \/ Coming(t, d, known)
    <2>1. CASE Joins(r, d) /\ d \notin there
      <3>1. \A j \in DOMAIN t : ~(n < j)
        BY <1>1, <1>3
      <3>2. d \in known => \E j \in DOMAIN t : j < n /\ Leaves(t[j], d)
        BY <1>1, <2>1 DEF Followed
      <3> QED
        BY <1>1, <2>1, <3>1, <3>2 DEF Coming
    <2>2. CASE ~Joins(r, d) /\ ~Leaves(r, d) /\ d \in there /\ (d \in tuned => d \in tuned2)
      <3>1. CASE Settled(q, d, known, tuned)
        BY <1>1, <2>2, <3>1 DEF Settled
      <3>2. CASE Coming(q, d, known)
        <4>1. PICK i \in DOMAIN q : /\ Joins(q[i], d)
                                    /\ \A j \in DOMAIN q : i < j => ~Leaves(q[j], d)
                                    /\ d \in known => \E j \in DOMAIN q : j < i /\ Leaves(q[j], d)
          BY <3>2 DEF Coming
        <4>2. i \in DOMAIN t /\ Joins(t[i], d) /\ \A j \in DOMAIN t : i < j => ~Leaves(t[j], d)
          BY <1>1, <2>2, <4>1
        <4>3. d \in known => \E j \in DOMAIN t : j < i /\ Leaves(t[j], d)
          BY <1>1, <4>1
        <4> QED
          BY <4>2, <4>3 DEF Coming
      <3> QED
        BY <1>6, <2>2, <3>1, <3>2 DEF Followed
    <2> QED
      BY <1>6, <2>1, <2>2
  <1> QED
    BY <1>4, <1>5, <1>6 DEF Followed, t

\* A report is read.
LEMMA FollowedTaken ==
  ASSUME NEW S, NEW q \in Seq(S), q # <<>>, NEW d, NEW there, NEW known, NEW known2, NEW tuned, NEW tuned2,
         Followed(q, d, there, known, tuned),
         \/ /\ ~Joins(Head(q), d) /\ ~Leaves(Head(q), d)
            /\ (d \in known2 <=> d \in known) /\ (d \in tuned => d \in tuned2)
         \/ /\ Joins(Head(q), d)
            /\ d \in known => d \in known2 /\ (d \in tuned => d \in tuned2)
            /\ <<"add_dev", d>> \notin MayFail /\ d \in there /\ d \notin known => d \in known2 /\ d \in tuned2
         \/ /\ Leaves(Head(q), d) /\ d \notin known2
  PROVE  Followed(Tail(q), d, there, known2, tuned2)
  <1> DEFINE t == Tail(q)
  <1>1. /\ DOMAIN q \subseteq Nat /\ 1 \in DOMAIN q /\ q[1] = Head(q)
        /\ \A i \in DOMAIN t : i + 1 \in DOMAIN q /\ t[i] = q[i + 1] /\ i \in Nat /\ i # 0
        /\ \A i \in DOMAIN q : i # 1 => 1 < i /\ i - 1 \in DOMAIN t /\ t[i - 1] = q[i] /\ i \in Nat
    <2>1. /\ Len(q) \in Nat /\ Len(q) >= 1 /\ DOMAIN q = 1 .. Len(q)
          /\ Head(q) = q[1] /\ DOMAIN t = 1 .. Len(q) - 1
      BY Popped
    <2>2. \A i \in 1 .. Len(q) - 1 : t[i] = q[i + 1]
      BY Popped
    <2> HIDE DEF t
    <2>3. \A i \in DOMAIN t : i + 1 \in DOMAIN q /\ t[i] = q[i + 1] /\ i \in Nat /\ i # 0
      BY <2>1, <2>2
    <2>4. ASSUME NEW i \in DOMAIN q, i # 1 PROVE 1 < i /\ i - 1 \in DOMAIN t /\ t[i - 1] = q[i] /\ i \in Nat
      <3>1. i - 1 \in 1 .. Len(q) - 1 /\ (i - 1) + 1 = i /\ 1 < i /\ i \in Nat
        BY <2>1, <2>4
      <3> QED
        BY <2>1, <2>2, <3>1
    <2> QED
      BY <2>1, <2>3, <2>4
  <1>2. ~(Joins(Head(q), d) /\ Leaves(Head(q), d))
    BY DEF Joins, Leaves
  <1> HIDE DEF t
  <1>3. Ordered(t, d, there)
    <2>1. ASSUME NEW k \in DOMAIN t, NEW i \in DOMAIN t, k < i, Joins(t[k], d), Joins(t[i], d)
          PROVE  \E j \in DOMAIN t : k < j /\ j < i /\ Leaves(t[j], d)
      <3>1. k + 1 \in DOMAIN q /\ i + 1 \in DOMAIN q /\ k + 1 < i + 1 /\ Joins(q[k + 1], d) /\ Joins(q[i + 1], d)
            /\ k \in Nat /\ i \in Nat
        BY <1>1, <2>1
      <3>2. PICK j \in DOMAIN q : k + 1 < j /\ j < i + 1 /\ Leaves(q[j], d)
        BY <3>1 DEF Followed, Ordered
      <3>3. j # 1 /\ k < j - 1 /\ j - 1 < i
        BY <1>1, <3>1, <3>2
      <3> QED
        BY <1>1, <3>2, <3>3
    <2>2. ASSUME d \notin there, NEW k \in DOMAIN t, Joins(t[k], d)
          PROVE  \E j \in DOMAIN t : k < j /\ Leaves(t[j], d)
      <3>1. k + 1 \in DOMAIN q /\ Joins(q[k + 1], d) /\ k \in Nat
        BY <1>1, <2>2
      <3>2. PICK j \in DOMAIN q : k + 1 < j /\ Leaves(q[j], d)
        BY <2>2, <3>1 DEF Followed, Ordered
      <3>3. j # 1 /\ k < j - 1
        BY <1>1, <3>1, <3>2
      <3> QED
        BY <1>1, <3>2, <3>3
    <2> QED
      BY <2>1, <2>2 DEF Ordered
  <1>4. ASSUME d \in known2, d \notin there PROVE \E j \in DOMAIN t : Leaves(t[j], d)
    <2>1. \E j \in DOMAIN q : j # 1 /\ Leaves(q[j], d)
      <3>1. CASE Joins(Head(q), d)
        <4>1. PICK j \in DOMAIN q : 1 < j /\ Leaves(q[j], d)
          BY <1>1, <1>4, <3>1 DEF Followed, Ordered
        <4> QED
          BY <4>1
      <3>2. CASE ~Joins(Head(q), d)
        <4>1. d \in known /\ ~Leaves(Head(q), d)
          BY <1>4, <3>2
        <4> QED
          BY <1>1, <1>4, <4>1 DEF Followed
      <3> QED
        BY <3>1, <3>2
    <2> QED
      BY <1>1, <2>1
  <1>5. ASSUME <<"add_dev", d>> \notin MayFail, d \in there
        PROVE  Settled(t, d, known2, tuned2) \/ Coming(t, d, known2)
    <2>1. CASE Settled(q, d, known, tuned)
      <3>1. \A j \in DOMAIN t : ~Leaves(t[j], d)
        BY <1>1, <2>1 DEF Settled
      <3>2. d \in known2 /\ d \in tuned2
        BY <1>1, <2>1 DEF Settled
      <3> QED
        BY <3>1, <3>2 DEF Settled
    <2>2. CASE Coming(q, d, known)
      <3>1. PICK i \in DOMAIN q : /\ Joins(q[i], d)
                                  /\ \A j \in DOMAIN q : i < j => ~Leaves(q[j], d)
                                  /\ d \in known => \E j \in DOMAIN q : j < i /\ Leaves(q[j], d)
        BY <2>2 DEF Coming
      <3>2. CASE i = 1
        <4>1. d \notin known
          BY <1>1, <3>1, <3>2
        <4>2. d \in known2 /\ d \in tuned2
          BY <1>1, <1>2, <1>5, <3>1, <3>2, <4>1
        <4>3. ASSUME NEW j \in DOMAIN t PROVE ~Leaves(t[j], d)
          <5>1. 1 < j + 1 /\ j + 1 \in DOMAIN q /\ t[j] = q[j + 1]
            <6>1. j \in Nat /\ j # 0 /\ j + 1 \in DOMAIN q /\ t[j] = q[j + 1]
              BY <1>1
            <6> QED
              BY <6>1
          <5>2. ~Leaves(q[j + 1], d)
            BY <3>1, <3>2, <5>1
          <5> QED
            BY <5>1, <5>2
        <4> QED
          BY <4>2, <4>3 DEF Settled
      <3>3. CASE i # 1
        <4>1. i - 1 \in DOMAIN t /\ Joins(t[i - 1], d)
          BY <1>1, <3>1, <3>3
        <4>2. ASSUME NEW j \in DOMAIN t, i - 1 < j PROVE ~Leaves(t[j], d)
          <5>1. i \in Nat /\ j \in Nat /\ j + 1 \in DOMAIN q /\ t[j] = q[j + 1]
            BY <1>1, <3>3
          <5>2. i < j + 1
            BY <4>2, <5>1
          <5>3. ~Leaves(q[j + 1], d)
            BY <3>1, <5>1, <5>2
          <5> QED
            BY <5>1, <5>3
        <4>3. ASSUME d \in known2 PROVE \E j \in DOMAIN t : j < i - 1 /\ Leaves(t[j], d)
          <5>1. \E j \in DOMAIN q : j # 1 /\ j < i /\ Leaves(q[j], d)
            <6>1. CASE Joins(Head(q), d)
              BY <1>1, <3>1, <3>3, <6>1 DEF Followed, Ordered
            <6>2. CASE ~Joins(Head(q), d)
              <7>1. d \in known /\ ~Leaves(Head(q), d)
                BY <4>3, <6>2
              <7> QED
                BY <1>1, <3>1, <7>1
            <6> QED
              BY <6>1, <6>2
          <5>2. PICK j \in DOMAIN q : j # 1 /\ j < i /\ Leaves(q[j], d)
            BY <5>1
          <5>3. j - 1 < i - 1 /\ j - 1 \in DOMAIN t /\ t[j - 1] = q[j]
            BY <1>1, <3>3, <5>2
          <5> QED
            BY <5>2, <5>3
        <4> QED
          BY <4>1, <4>2, <4>3 DEF Coming
      <3> QED
        BY <3>2, <3>3
    <2> QED
      BY <1>5, <2>1, <2>2 DEF Followed
  <1> QED
    BY <1>3, <1>4, <1>5 DEF Followed, t

Attached == plugged \ detached
Tuned    == {d \in selected : armed[d] = Grabs \/ <<"setup_device", d>> \in MayFail}

Attentive ==
  /\ detached \subseteq plugged
  /\ pc # "exit" => \A d \in Keyboards : Followed(events, d, Attached, devs, Tuned)

LEMMA AttentiveInit == Init => Attentive
  <1> SUFFICES ASSUME Init PROVE Attentive
    OBVIOUS
  <1>1. /\ events = <<>> /\ DOMAIN events = {} /\ detached = {} /\ plugged = Keyboards
        /\ devs = Keyboards /\ Attached = Keyboards /\ Tuned = Keyboards
    BY DEF Init, XInit, MainInit, Attached, Tuned
  <1>2. \A d \in Keyboards : Followed(events, d, Attached, devs, Tuned)
    BY <1>1 DEF Followed, Ordered, Settled
  <1> QED
    BY <1>1, <1>2 DEF Attentive

\* A keyboard comes or goes.
LEMMA AttentiveHotplug ==
  ASSUME TypeOK, Attentive, pc # "exit", NEW d \in Keyboards,
         Plug(d) \/ Unplug(d) \/ Detach(d) \/ Reattach(d), UNCHANGED mainVars
  PROVE  Attentive'
  <1> DEFINE S == KeyEvent \cup HierEvent
             Neither(r, e) == ~Joins(r, e) /\ ~Leaves(r, e)
  <1>1. events \in Seq(S) /\ devs' = devs /\ pc' = pc /\ detached \subseteq plugged
    BY DEF TypeOK, XTypeOK, mainVars, Attentive
  <1>2. \A e \in Keyboards : Followed(events, e, Attached, devs, Tuned)
    BY DEF Attentive
  <1>3. \A e : e # d => (e \in Attached' <=> e \in Attached) /\ (e \in Tuned => e \in Tuned')
    <2>1. \A e : e # d => (e \in Attached' <=> e \in Attached)
      BY DEF Plug, Unplug, Detach, Reattach, Attached
    <2>2. \A e : e # d /\ e \in selected => e \in selected' /\ armed'[e] = armed[e]
      BY DEF Plug, Unplug, Detach, Reattach, TypeOK, XTypeOK
    <2> QED
      BY <2>1, <2>2 DEF Tuned
  <1>4. detached' \subseteq plugged'
    BY <1>1 DEF Plug, Unplug, Detach, Reattach
  <1> SUFFICES ASSUME NEW e \in Keyboards PROVE Followed(events', e, Attached', devs, Tuned')
    BY <1>1, <1>4 DEF Attentive
  <1>5. \A f, en : /\ e # d => Neither(HierReport(d, f, en), e)
                   /\ f \in {"SlaveRemoved", "SlaveDetached", "DeviceDisabled"} =>
                        Leaves(HierReport(d, f, en), d)
    BY DEF HierReport, Joins, Leaves
  <1>6. CASE Detach(d) \/ Reattach(d)
    <2>1. PICK r : /\ events' = events \o <<r>> /\ r \in S
                   /\ e # d => Neither(r, e)
                   /\ \/ Leaves(r, d) /\ d \notin Attached'
                      \/ Joins(r, d) /\ d \notin Attached /\ d \in Attached'
      <3>1. CASE Detach(d)
        <4> DEFINE a == HierReport(d, "SlaveDetached", TRUE)
        <4>1. a \in S /\ Leaves(a, d) /\ (e # d => Neither(a, e))
          BY <1>5 DEF HierReport, HierEvent, Leaves
        <4>2. d \notin Attached'
          BY <3>1 DEF Detach, Attached
        <4>3. events' = events \o <<a>>
          BY <3>1 DEF Detach, Hotplug
        <4> HIDE DEF a, S, Neither
        <4> QED
          BY <4>1, <4>2, <4>3
      <3>2. CASE Reattach(d)
        <4>1. /\ HierReport(d, "SlaveAttached", TRUE) \in S
              /\ Joins(HierReport(d, "SlaveAttached", TRUE), d)
          BY DEF HierReport, HierEvent, Joins
        <4>2. d \notin Attached /\ d \in Attached'
          BY <1>1, <3>2 DEF Reattach, Attached
        <4> QED
          BY <1>5, <3>2, <4>1, <4>2 DEF Reattach, Hotplug
      <3> QED
        BY <1>6, <3>1, <3>2
    <2>2. events' = Append(events, r)
      BY <1>1, <2>1
    <2>3. Followed(Append(events, r), e, Attached', devs, Tuned')
      <3>1. CASE e # d
        BY <1>1, <1>2, <1>3, <2>1, <3>1, FollowedGrows
      <3>2. CASE e = d
        BY <1>1, <1>2, <2>1, <3>2, FollowedGrows
      <3> QED
        BY <3>1, <3>2
    <2> QED
      BY <2>2, <2>3
  <1>7. CASE Plug(d) \/ Unplug(d)
    <2>1. PICK r1, r2 :
            /\ events' = events \o <<r1, r2>> /\ r1 \in S /\ r2 \in S
            /\ e # d => Neither(r1, e) /\ Neither(r2, e)
            /\ \/ /\ Neither(r1, d) /\ Joins(r2, d) /\ d \notin Attached /\ d \in Attached'
                  /\ (d \in Tuned => d \in Tuned')
               \/ /\ Leaves(r1, d) /\ Leaves(r2, d) /\ d \notin Attached'
      <3>1. CASE Plug(d)
        <4> DEFINE a == HierReport(d, "SlaveAdded", FALSE)
                   b == HierReport(d, "DeviceEnabled", TRUE)
        <4>1. a \in S /\ b \in S /\ Neither(a, d) /\ Joins(b, d)
          BY DEF HierReport, HierEvent, Joins, Leaves
        <4>2. d \notin Attached /\ d \in Attached'
          BY <1>1, <3>1 DEF Plug, Attached
        <4>3. d \in Tuned => d \in Tuned'
          BY <3>1 DEF Plug, Tuned
        <4>4. e # d => Neither(a, e) /\ Neither(b, e)
          BY <1>5
        <4>5. events' = events \o <<a, b>>
          BY <3>1 DEF Plug, Hotplug
        <4> HIDE DEF a, b, S, Neither
        <4> QED
          BY <4>1, <4>2, <4>3, <4>4, <4>5
      <3>2. CASE Unplug(d)
        <4> DEFINE a == HierReport(d, "DeviceDisabled", FALSE)
                   b == HierReport(d, "SlaveRemoved", FALSE)
        <4>1. a \in S /\ b \in S /\ Leaves(a, d) /\ Leaves(b, d)
          BY DEF HierReport, HierEvent, Leaves
        <4>2. d \notin Attached'
          BY <3>2 DEF Unplug, Attached
        <4>3. e # d => Neither(a, e) /\ Neither(b, e)
          BY <1>5
        <4>4. events' = events \o <<a, b>>
          BY <3>2 DEF Unplug, Hotplug
        <4> HIDE DEF a, b, S, Neither
        <4> QED
          BY <4>1, <4>2, <4>3, <4>4
      <3> QED
        BY <1>7, <3>1, <3>2
    <2> HIDE DEF S
    <2>2. events' = Append(Append(events, r1), r2) /\ Append(events, r1) \in Seq(S)
      BY <1>1, <2>1
    <2>3. PICK mid, tuned : Followed(Append(events, r1), e, mid, devs, tuned)
                 /\ (e # d => (e \in mid <=> e \in Attached) /\ tuned = Tuned)
                 /\ (e = d /\ Neither(r1, d) => mid = Attached /\ tuned = Tuned)
                 /\ (e = d /\ Leaves(r1, d) => d \notin mid)
      <3>1. CASE e # d \/ Neither(r1, d)
        <4>1. Followed(Append(events, r1), e, Attached, devs, Tuned)
          BY <1>1, <1>2, <2>1, <3>1, FollowedGrows
        <4> QED
          BY <2>1, <3>1, <4>1
      <3>2. CASE e = d /\ Leaves(r1, d)
        <4>1. Followed(Append(events, r1), e, Attached', devs, Tuned)
          BY <1>1, <1>2, <2>1, <3>2, FollowedGrows
        <4> QED
          BY <2>1, <3>2, <4>1
      <3> QED
        BY <2>1, <3>1, <3>2
    <2>4. Followed(Append(Append(events, r1), r2), e, Attached', devs, Tuned')
      <3>1. CASE e # d
        BY <1>3, <2>1, <2>2, <2>3, <3>1, FollowedGrows
      <3>2. CASE e = d
        BY <2>1, <2>2, <2>3, <3>2, FollowedGrows
      <3> QED
        BY <3>1, <3>2
    <2> QED
      BY <2>2, <2>4
  <1> QED
    BY <1>6, <1>7

\* The report of a key is made, or read.
LEMMA AttentiveKey ==
  ASSUME TypeOK, Attentive, pc # "exit",
         \/ \E r : r.kind = "key" /\ events' = Append(events, r)
         \/ events # <<>> /\ Head(events).kind = "key" /\ events' = Tail(events),
         UNCHANGED <<plugged, detached, selected, armed, devs>>
  PROVE  Attentive'
  <1>1. events \in Seq(KeyEvent \cup HierEvent) /\ Attached' = Attached /\ Tuned' = Tuned
    BY DEF TypeOK, XTypeOK, Attached, Tuned
  <1>2. \A r, d : r.kind = "key" => ~Joins(r, d) /\ ~Leaves(r, d)
    BY DEF Joins, Leaves
  <1> SUFFICES ASSUME NEW d \in Keyboards PROVE Followed(events', d, Attached, devs, Tuned)
    BY <1>1 DEF Attentive
  <1>3. Followed(events, d, Attached, devs, Tuned)
    BY DEF Attentive
  <1>4. CASE \E r : r.kind = "key" /\ events' = Append(events, r)
    <2>1. PICK r : r.kind = "key" /\ events' = Append(events, r)
      BY <1>4
    <2>2. Followed(Append(events, r), d, Attached, devs, Tuned)
      BY <1>1, <1>2, <1>3, <2>1, FollowedGrows
    <2> QED
      BY <2>1, <2>2
  <1>5. CASE events # <<>> /\ Head(events).kind = "key" /\ events' = Tail(events)
    <2>1. Followed(Tail(events), d, Attached, devs, Tuned)
      BY <1>1, <1>2, <1>3, <1>5, FollowedTaken
    <2> QED
      BY <1>5, <2>1
  <1> QED
    BY <1>4, <1>5

LEMMA AttentiveHier == TypeOK /\ Attentive /\ RecvHier => Attentive'
  <1> SUFFICES ASSUME TypeOK, Attentive, RecvHier PROVE Attentive'
    OBVIOUS
  <1> DEFINE h == Head(events)
             S == KeyEvent \cup HierEvent
  <1>1. /\ events \in Seq(S) /\ events # <<>> /\ h.kind = "hier" /\ events' = Tail(events)
        /\ Attached' = Attached /\ pc = "recv" /\ detached' = detached /\ plugged' = plugged
        /\ armed \in [Keyboards -> SUBSET Grabs]
    BY DEF TypeOK, XTypeOK, RecvHier, Attached
  <1>2. h \in HierEvent
    BY <1>1 DEF KeyEvent
  <1> SUFFICES ASSUME NEW d \in Keyboards PROVE Followed(Tail(events), d, Attached, devs', Tuned')
    BY <1>1 DEF Attentive
  <1>3. Followed(events, d, Attached, devs, Tuned)
    BY <1>1 DEF Attentive
  <1>4. CASE \/ h.flag = "DeviceEnabled"
             \/ h.flag \in {"SlaveAdded", "SlaveAttached"} /\ h.enabled
    <2>1. AddDev(h.dev)
      BY <1>4 DEF RecvHier
    <2>2. CASE h.dev = d
      <3>1. Joins(h, d)
        BY <1>1, <1>4, <2>2 DEF Joins
      <3>2. d \in devs => d \in devs' /\ (d \in Tuned => d \in Tuned')
        BY <2>1, <2>2 DEF AddDev, Tuned
      <3>3. <<"add_dev", d>> \notin MayFail /\ d \in Attached /\ d \notin devs => d \in devs' /\ d \in Tuned'
        BY <1>1, <2>1, <2>2 DEF AddDev, Attached, Tuned
      <3> HIDE DEF S
      <3> QED
        BY <1>1, <1>3, <3>1, <3>2, <3>3, FollowedTaken
    <2>3. CASE h.dev # d
      <3>1. ~Joins(h, d) /\ ~Leaves(h, d)
        BY <2>3 DEF Joins, Leaves
      <3>2. (d \in devs' <=> d \in devs) /\ (d \in selected => d \in selected')
        BY <2>1, <2>3 DEF AddDev
      <3>3. armed'[d] = armed[d]
        BY <1>1, <2>1, <2>3 DEF AddDev
      <3>4. d \in Tuned => d \in Tuned'
        BY <3>2, <3>3 DEF Tuned
      <3> HIDE DEF S
      <3> QED
        BY <1>1, <1>3, <3>1, <3>2, <3>4, FollowedTaken
    <2> QED
      BY <2>2, <2>3
  <1>5. CASE h.flag \in {"SlaveAdded", "SlaveAttached"} /\ ~h.enabled
    <2>1. ~Joins(h, d) /\ ~Leaves(h, d)
      BY <1>5 DEF Joins, Leaves
    <2>2. devs' = devs /\ Tuned' = Tuned
      BY <1>5 DEF RecvHier, Tuned
    <2> HIDE DEF S
    <2> QED
      BY <1>1, <1>3, <2>1, <2>2, FollowedTaken
  <1>6. CASE h.flag \in {"SlaveRemoved", "SlaveDetached", "DeviceDisabled"}
    <2>1. RemoveDev(h) /\ selected' = selected
      BY <1>6 DEF RecvHier
    <2>2. CASE h.dev = d
      <3>1. Leaves(h, d) /\ d \notin devs'
        BY <1>1, <1>6, <2>1, <2>2 DEF Leaves, RemoveDev
      <3> HIDE DEF S
      <3> QED
        BY <1>1, <1>3, <3>1, FollowedTaken
    <2>3. CASE h.dev # d
      <3>1. ~Joins(h, d) /\ ~Leaves(h, d)
        BY <2>3 DEF Joins, Leaves
      <3>2. d \in devs' <=> d \in devs
        BY <2>1, <2>3 DEF RemoveDev
      <3>3. armed'[d] = armed[d]
        BY <1>1, <2>1, <2>3 DEF RemoveDev, CloseDevice
      <3>4. d \in Tuned => d \in Tuned'
        BY <2>1, <3>3 DEF Tuned
      <3> HIDE DEF S
      <3> QED
        BY <1>1, <1>3, <3>1, <3>2, <3>4, FollowedTaken
    <2> QED
      BY <2>2, <2>3
  <1> QED
    BY <1>2, <1>4, <1>5, <1>6 DEF HierEvent

LEMMA AttentiveStep == TypeInv /\ Attentive /\ [Next]_vars => Attentive'
  <1> SUFFICES ASSUME TypeInv, Attentive, [Next]_vars, pc # "exit", pc' # "exit" PROVE Attentive'
    <2>1. ASSUME [Next]_vars PROVE pc = "exit" => pc' = "exit"
      BY <2>1 DEF Next, User, mainVars, Server, Daemon, RecvKey, GrabFloating, Settle, RecvHier,
         ProcReplay, Quit, vars
    <2>2. ASSUME TypeInv, Attentive, [Next]_vars PROVE detached' \subseteq plugged'
      <3>1. detached \subseteq plugged
        BY <2>2 DEF Attentive
      <3>2. CASE User
        BY <3>1, <3>2 DEF User, KeyDown, KeyUp, Plug, Unplug, Detach, Reattach, setup
      <3>3. CASE ~User
        <4>1. plugged' = plugged /\ detached' = detached
          BY <2>2, <3>3 DEF Next, Server, ServeFakes, Daemon, RecvKey, GrabFloating, Settle, RecvHier,
             ProcReplay, Quit, vars, srvVars, setup
        <4> QED
          BY <3>1, <4>1
      <3> QED
        BY <3>2, <3>3
    <2> QED
      BY <2>1, <2>2 DEF Attentive
  <1> USE DEF TypeInv
  <1>1. CASE User
    <2> PICK d \in Keyboards : \/ \E k \in Keys : KeyDown(d, k) \/ KeyUp(d, k)
                               \/ Plug(d) \/ Unplug(d) \/ Detach(d) \/ Reattach(d)
      BY <1>1 DEF User
    <2>0. UNCHANGED mainVars
      BY <1>1 DEF User
    <2>1. CASE \E k \in Keys : KeyDown(d, k) \/ KeyUp(d, k)
      <3>1. PICK k \in Keys, p \in BOOLEAN : Report(d, k, p) /\ UNCHANGED setup
        BY <2>1 DEF KeyDown, KeyUp
      <3>2. UNCHANGED <<plugged, detached, selected, armed, devs, pc>>
        BY <2>0, <3>1 DEF setup, mainVars
      <3>3. CASE events' = events
        BY <3>2, <3>3 DEF Attentive, Attached, Tuned
      <3>4. CASE events' = Append(events, KeyReport(d, k, p))
        <4>1. KeyReport(d, k, p).kind = "key"
          BY DEF KeyReport
        <4> QED
          BY <3>2, <3>4, <4>1, AttentiveKey
      <3> QED
        BY <3>1, <3>3, <3>4 DEF Report
    <2> QED
      BY <2>0, <2>1, AttentiveHotplug
  <1>2. CASE RecvKey \/ GrabFloating
    <2>1. /\ UNCHANGED <<plugged, detached, selected, armed, devs>>
          /\ \/ events' = events
             \/ events # <<>> /\ Head(events).kind = "key" /\ events' = Tail(events)
      BY <1>2 DEF RecvKey, GrabFloating, HandleKey, setup, GrabPending
    <2>2. CASE events' = events
      BY <2>1, <2>2 DEF Attentive, Attached, Tuned
    <2> QED
      BY <2>1, <2>2, AttentiveKey
  <1>3. CASE RecvHier
    BY <1>3, AttentiveHier
  <1>4. CASE Settle \/ ProcReplay \/ Server \/ UNCHANGED vars
    <2>1. UNCHANGED <<plugged, detached, selected, armed, devs, events>>
      BY <1>4 DEF Settle, ProcReplay, Server, ServeFakes, vars, srvVars, mainVars, setup
    <2> QED
      BY <2>1 DEF Attentive, Attached, Tuned
  <1>5. CASE Quit
    BY <1>5 DEF Quit
  <1> QED
    BY <1>1, <1>2, <1>3, <1>4, <1>5 DEF Next, Daemon

\* Once the loop has read every report of a keyboard that came or went it
\* knows the keyboards that are there and no other, and each has its grabs,
\* but for a keyboard on which opening or setting up may fail (proc_hier,
\* add_dev).
THEOREM Listens == Spec => []Listening
  <1>1. Attentive /\ TypeOK => Listening
    <2> SUFFICES ASSUME Attentive, TypeOK, pc = "recv", \A i \in DOMAIN events : events[i].kind = "key"
                 PROVE  /\ devs \subseteq plugged \ detached
                        /\ \A d \in plugged \ detached : <<"add_dev", d>> \notin MayFail =>
                             d \in devs /\ d \in Tuned
      BY DEF Listening, Tuned
    <2>1. \A d : \A i \in DOMAIN events : ~Joins(events[i], d) /\ ~Leaves(events[i], d)
      BY DEF Joins, Leaves
    <2>2. devs \subseteq Keyboards /\ plugged \subseteq Keyboards
      BY DEF TypeOK, XTypeOK
    <2>3. \A d \in Keyboards : Followed(events, d, Attached, devs, Tuned)
      BY DEF Attentive
    <2>4. \A d \in devs : d \in Attached
      BY <2>1, <2>2, <2>3 DEF Followed
    <2>5. \A d \in Attached : <<"add_dev", d>> \notin MayFail => d \in devs /\ d \in Tuned
      BY <2>1, <2>2, <2>3 DEF Followed, Settled, Coming, Attached
    <2> QED
      BY <2>4, <2>5 DEF Attached
  <1> QED
    BY <1>1, AttentiveInit, AttentiveStep, TypeInvariant, PTL DEF Spec, TypeInv
=============================================================================
