---------------------------- MODULE GestureProofs ----------------------------
(***************************************************************************)
(* Main implements Hotkeys, in all circumstances.  And an action of Main   *)
(* stands for a whole gesture, with one keyboard that stays and no key     *)
(* held while kseqi starts, however far the loop lags behind the user; and *)
(* no key is left stuck down in the applications.                          *)
(***************************************************************************)
EXTENDS MainProofs

(* A burst is kept: as long as the sequence may match it is all of the     *)
(* burst, and once no key is down it has released what it pressed.         *)

Up(s, k, i) == \E j \in DOMAIN s : i < j /\ s[j].code = k /\ ~s[j].press

SeqEnds ==
  maybe => \A i \in DOMAIN seqbuf :
    seqbuf[i].press => seqbuf[i].code \in down \/ Up(seqbuf, seqbuf[i].code, i)

Kept == /\ SeqEnds
        /\ maybe => seqbuf = burst
        /\ pc = "settle" => down = {} /\ burst # <<>>

LEMMA SeqEndsHandle ==
  ASSUME TypeOK, SeqEnds, NEW e, e.code \in Keys, e.press \in BOOLEAN,
         TakeIn(e), down' = DownAfter(e)
  PROVE  SeqEnds'
<1>. DEFINE c == [code |-> e.code, press |-> e.press]
<1>. SUFFICES ASSUME maybe' PROVE SeqEnds'
  BY DEF SeqEnds
<1>1. maybe /\ seqbuf' = Append(seqbuf, c)
  BY DEF TakeIn
<1>2. PICK n \in Nat :
        /\ \A i \in DOMAIN seqbuf : i \in DOMAIN seqbuf' /\ seqbuf'[i] = seqbuf[i] /\ i < n
        /\ n \in DOMAIN seqbuf' /\ seqbuf'[n] = c
        /\ \A i \in DOMAIN seqbuf' : i \in DOMAIN seqbuf \/ i = n
  <2>1. c \in KeyChange /\ seqbuf \in Seq(KeyChange)
    BY DEF KeyChange, TypeOK
  <2>2. /\ Len(seqbuf) \in Nat /\ DOMAIN seqbuf = 1 .. Len(seqbuf)
        /\ DOMAIN seqbuf' = 1 .. Len(seqbuf) + 1
        /\ \A i \in DOMAIN seqbuf : seqbuf'[i] = seqbuf[i]
        /\ seqbuf'[Len(seqbuf) + 1] = c
    BY <1>1, <2>1
  <2>3. /\ Len(seqbuf) + 1 \in Nat /\ Len(seqbuf) + 1 \in DOMAIN seqbuf'
        /\ \A i \in DOMAIN seqbuf : i \in DOMAIN seqbuf' /\ i < Len(seqbuf) + 1
        /\ \A i \in DOMAIN seqbuf' : i \in DOMAIN seqbuf \/ i = Len(seqbuf) + 1
    BY <2>2
  <2>. QED  BY <2>2, <2>3
<1>. SUFFICES ASSUME NEW i \in DOMAIN seqbuf', seqbuf'[i].press
              PROVE  seqbuf'[i].code \in down' \/ Up(seqbuf', seqbuf'[i].code, i)
  BY DEF SeqEnds
<1>3. CASE i = n
  BY <1>2, <1>3 DEF DownAfter
<1>4. CASE i \in DOMAIN seqbuf
  <2>. DEFINE k == seqbuf[i].code
  <2>1. seqbuf'[i] = seqbuf[i] /\ (k \in down \/ Up(seqbuf, k, i))
    BY <1>1, <1>2, <1>4 DEF SeqEnds
  <2>2. CASE Up(seqbuf, k, i)
    BY <1>2, <2>1, <2>2 DEF Up
  <2>3. CASE k \in down /\ k \notin down'
    <3>1. k = e.code /\ e.press = FALSE
      BY <2>3 DEF DownAfter
    <3>2. n \in DOMAIN seqbuf' /\ i < n /\ seqbuf'[n].code = k /\ ~seqbuf'[n].press
      BY <1>2, <1>4, <3>1
    <3>. QED  BY <2>1, <3>2 DEF Up
  <2>. QED  BY <2>1, <2>2, <2>3
<1>. QED  BY <1>2, <1>3, <1>4

LEMMA KeptHandle ==
  ASSUME TypeOK, Kept, events # <<>>, Head(events).kind = "key", HandleKey(Head(events))
  PROVE  Kept'
<1>. DEFINE e == Head(events)
            c == [code |-> e.code, press |-> e.press]
<1>1. e.code \in Keys /\ e.press \in BOOLEAN
  BY Kinds DEF KeyEvent
<1>2. /\ TakeIn(e) /\ down' = DownAfter(e) /\ burst' = Append(burst, c)
      /\ pc' = "settle" => down' = {}
  BY DEF HandleKey
<1>3. SeqEnds'
  BY <1>1, <1>2, SeqEndsHandle DEF Kept
<1>4. maybe' => seqbuf' = burst'
  BY <1>2 DEF Kept, TakeIn
<1>5. burst' # <<>>
  BY <1>2 DEF TypeOK
<1>. QED  BY <1>2, <1>3, <1>4, <1>5 DEF Kept

LEMMA KeptStep == TypeInv /\ Kept /\ [Next]_vars => Kept'
<1>. SUFFICES ASSUME TypeInv, Kept, [Next]_vars PROVE Kept'
  OBVIOUS
<1>. USE DEF TypeInv
<1>1. ASSUME UNCHANGED <<seqbuf, burst, maybe, down>>, pc' = pc \/ pc' # "settle" PROVE Kept'
  <2>1. SeqEnds'
    BY <1>1 DEF Kept, SeqEnds
  <2>. QED  BY <1>1, <2>1 DEF Kept
<1>2. CASE RecvKey
  <2>1. /\ events # <<>> /\ Head(events).kind = "key"
        /\ \/ HandleKey(Head(events))
           \/ UNCHANGED <<seqbuf, burst, maybe, down>> /\ pc' \in {pc, "grab"}
    BY <1>2 DEF RecvKey
  <2>. QED  BY <1>1, <2>1, KeptHandle
<1>3. CASE GrabFloating
  BY <1>3, KeptHandle DEF GrabFloating, GrabPending
<1>4. CASE Settle
  <2>1. seqbuf' = <<>> /\ burst' = <<>> /\ pc' = "recv"
    BY <1>4 DEF Settle
  <2>. QED  BY <2>1 DEF Kept, SeqEnds
<1>5. CASE User \/ Server \/ RecvHier \/ ProcReplay \/ Quit \/ UNCHANGED vars
  BY <1>1, <1>5 DEF User, Server, RecvHier, ProcReplay, Quit, vars, mainVars
<1>. QED  BY <1>2, <1>3, <1>4, <1>5 DEF Next, Daemon

\* Taking a key in is a key of the burst.
LEMMA KeyPromised ==
  ASSUME TypeOK, events # <<>>, Head(events).kind = "key", HandleKey(Head(events)),
         pc # "exit", UNCHANGED <<fired, replay>>
  PROVE  H!Key
<1>. DEFINE e == Head(events)
            c == [code |-> e.code, press |-> e.press]
<1>1. c \in H!KeyChange
  BY Kinds DEF KeyEvent, H!KeyChange
<1>2. burst' = Append(burst, c) /\ TakeIn(e) /\ pc' # "exit"
  BY DEF HandleKey
<1>3. maybe' = maybe \/ (e.press /\ e.code \notin Modifiers /\ maybe' = FALSE)
  BY <1>2 DEF TakeIn
<1>. QED  BY <1>1, <1>2, <1>3 DEF H!Key

\* Settle is the end of the burst, with the one outcome it is owed.
LEMMA EndPromised ==
  ASSUME TypeOK, Kept, Settle
  PROVE  H!Done
<1>1. /\ pc = "settle" /\ pc' = "recv" /\ burst' = <<>> /\ maybe' = TRUE
      /\ down = {} /\ burst # <<>>
  BY DEF Settle, Kept
<1>2. ASSUME maybe PROVE H!Released /\ H!Spells = Codes(seqbuf) /\ seqbuf = burst
  BY <1>1, <1>2 DEF Kept, SeqEnds, Up, H!Released, H!Spells, Codes
<1>3. CASE Matches /\ fired' = Append(fired, Codes(seqbuf)) /\ UNCHANGED replay
  BY <1>1, <1>2, <1>3 DEF Matches, H!Fire, H!Done
<1>4. CASE Unmatched /\ Len(seqbuf) <= MaxReplay /\ replay' = replay \o seqbuf /\ UNCHANGED fired
  <2>1. H!Plain
    BY <1>2, <1>4 DEF Unmatched, H!Plain
  <2>. QED  BY <1>1, <1>2, <1>4, <2>1 DEF Unmatched, H!TypeAgain, H!Done
<1>5. CASE Unmatched /\ Len(seqbuf) > MaxReplay /\ UNCHANGED <<fired, replay>>
  BY <1>1, <1>2, <1>5 DEF Unmatched, H!Forget, H!Done
<1>6. CASE ~Matches /\ ~Unmatched /\ UNCHANGED <<fired, replay>>
  <2>1. CASE ~maybe
    BY <1>1, <1>6, <2>1 DEF H!Forget, H!Done
  <2>2. CASE maybe /\ Packs(seqbuf)
    <3>1. H!Spells \notin Sequences /\ ~H!Plain
      BY <1>2, <1>6, <2>2 DEF Matches, Unmatched, H!Plain
    <3>. QED  BY <1>1, <1>6, <3>1 DEF H!Forget, H!Done
  <2>3. CASE maybe /\ ~Packs(seqbuf)
    <3>1. Len(burst) \in Nat /\ Len(burst) # 0
      BY <1>1 DEF TypeOK
    <3>2. ~(Len(burst) \in {2, 4, 6, 8} \/ Len(burst) > 8)
      BY <1>2, <2>3 DEF Packs
    <3>3. \A n \in Nat : n # 0 /\ ~(n \in {2, 4, 6, 8} \/ n > 8) => n \in {1, 3, 5, 7}
      OBVIOUS
    <3>4. \A n \in {1, 3, 5, 7} : n % 2 = 1
      OBVIOUS
    <3>5. H!Cut
      BY <3>1, <3>2, <3>3, <3>4 DEF H!Cut
    <3>. QED  BY <1>1, <1>6, <3>5 DEF H!Forget, H!Done
  <2>. QED  BY <2>1, <2>2, <2>3
<1>. QED  BY <1>3, <1>4, <1>5, <1>6 DEF Settle

\* Whatever the keyboards, keys and sequences, however many keyboards come and
\* go, however far the loop lags and whichever requests fail, Main implements
\* Hotkeys: a burst the applications had no part of has its action or is typed
\* again, once and as a whole (lib.rs:103-157).
THEOREM PromiseKept == Spec => KeepsPromise
<1>1. Init => TypeInv /\ Kept /\ H!Init
  BY InitType DEF Init, MainInit, Kept, SeqEnds, H!Init
<1>2. TypeInv /\ Kept /\ [Next]_vars => TypeInv' /\ Kept'
  BY StepType, KeptStep
<1>3. TypeInv /\ Kept /\ [Next]_vars => [H!Next]_(H!vars)
  <2>. SUFFICES ASSUME TypeInv, Kept, [Next]_vars
                PROVE  H!Next \/ UNCHANGED H!vars
    BY DEF H!vars
  <2>. USE DEF TypeInv
  <2>1. CASE RecvKey
    <3>1. /\ events # <<>> /\ Head(events).kind = "key" /\ pc = "recv"
          /\ UNCHANGED <<fired, replay>>
          /\ \/ HandleKey(Head(events))
             \/ UNCHANGED <<burst, maybe>> /\ pc' \in {"recv", "grab"}
      BY <2>1 DEF RecvKey
    <3>2. CASE HandleKey(Head(events))
      BY <3>1, <3>2, KeyPromised DEF H!Next
    <3>3. CASE UNCHANGED <<burst, maybe>> /\ pc' \in {"recv", "grab"}
      BY <3>1, <3>3 DEF H!vars
    <3>. QED  BY <3>1, <3>2, <3>3
  <2>2. CASE GrabFloating
    <3>1. /\ events # <<>> /\ Head(events).kind = "key" /\ pc # "exit"
          /\ UNCHANGED <<fired, replay>> /\ HandleKey(Head(events))
      BY <2>2 DEF GrabFloating, GrabPending
    <3>. QED  BY <3>1, KeyPromised DEF H!Next
  <2>3. CASE Settle
    BY <2>3, EndPromised DEF H!Next
  <2>4. CASE ProcReplay
    BY <2>4 DEF ProcReplay, H!Next, H!Type
  <2>5. CASE Quit
    BY <2>5 DEF Quit, H!Next, H!End
  <2>6. CASE User \/ Server \/ RecvHier \/ UNCHANGED vars
    BY <2>6 DEF User, Server, RecvHier, vars, mainVars, H!vars
  <2>. QED  BY <2>1, <2>2, <2>3, <2>4, <2>5, <2>6 DEF Next, Daemon
<1>. QED  BY <1>1, <1>2, <1>3, PTL DEF Spec, KeepsPromise, H!Spec

-----------------------------------------------------------------------------
(* The mirror image of Alternating: a key that is held, and is not down    *)
(* for the loop or has a release waiting, has a press waiting; and between *)
(* two releases in the queue there is a press.                             *)

Pressed(d, k, i, j) ==
  \E l \in DOMAIN events : i < l /\ l < j /\ events[l] = KeyReport(d, k, TRUE)

PressedAfter(d, k, i) ==
  \E l \in DOMAIN events : i < l /\ events[l] = KeyReport(d, k, TRUE)

HeldBegins ==
  \A d \in devs, k \in Keys : k \in held[d] =>
    /\ k \notin down => PressedAfter(d, k, 0)
    /\ \A i \in DOMAIN events :
         events[i] = KeyReport(d, k, FALSE) => PressedAfter(d, k, i)

ReleasesApart ==
  \A d \in devs, k \in Keys : \A j \in DOMAIN events :
    events[j] = KeyReport(d, k, FALSE) =>
      /\ k \notin down => Pressed(d, k, 0, j)
      /\ \A i \in DOMAIN events :
           i < j /\ events[i] = KeyReport(d, k, FALSE) => Pressed(d, k, i, j)

Rising == HeldBegins /\ ReleasesApart

LEMMA RisingInit == ASSUME StartHeld = {} PROVE Init => Rising
  BY DEF Init, XInit, MainInit, Rising, HeldBegins, ReleasesApart

LEMMA RisingKey ==
  ASSUME TypeOK, Noted, Noticed, Noticed', Rising, pc # "exit", NEW d \in devs, NEW k \in Keys,
         KeyDown(d, k) \/ KeyUp(d, k), UNCHANGED mainVars
  PROVE  Rising'
<1>1. PICK p \in BOOLEAN : /\ p <=> k \notin held[d]
                           /\ events' = Append(events, KeyReport(d, k, p))
  BY Heard
<1>2. /\ \A c \in Keyboards : c # d => held'[c] = held[c]
      /\ held'[d] = IF p THEN held[d] \cup {k} ELSE held[d] \ {k}
      /\ devs' = devs /\ devs \subseteq Keyboards
  BY <1>1 DEF KeyDown, KeyUp, TypeOK, XTypeOK, mainVars
<1>3. PICK n \in Nat \ {0} :
        /\ DOMAIN events' = 1 .. n /\ DOMAIN events = 1 .. n - 1
        /\ \A i \in DOMAIN events : i \in DOMAIN events' /\ events'[i] = events[i]
        /\ events'[n] = KeyReport(d, k, p)
  <2>1. Len(events) + 1 \in Nat \ {0} /\ Len(events) = (Len(events) + 1) - 1
    BY DEF TypeOK, XTypeOK
  <2>. QED  BY <1>1, <2>1, Appended DEF TypeOK, XTypeOK
<1>4. /\ \A i \in DOMAIN events' : i \in DOMAIN events \/ i = n
      /\ \A i \in DOMAIN events : i < n
      /\ n \in DOMAIN events' /\ 0 < n /\ UNCHANGED down
  BY <1>3 DEF mainVars
<1>5. ASSUME NEW c, NEW m, NEW i, PressedAfter(c, m, i)
      PROVE  PressedAfter(c, m, i)' /\ Pressed(c, m, i, n)'
  BY <1>3, <1>4, <1>5 DEF PressedAfter, Pressed
<1>6. ASSUME NEW c, NEW m, NEW i, NEW j, Pressed(c, m, i, j)
      PROVE  Pressed(c, m, i, j)'
  BY <1>3, <1>6 DEF Pressed
<1>7. HeldBegins'
  <2>. SUFFICES ASSUME NEW c \in devs, NEW m \in Keys, m \in held'[c]
                PROVE  /\ m \notin down => PressedAfter(c, m, 0)'
                       /\ \A i \in DOMAIN events' :
                            events'[i] = KeyReport(c, m, FALSE) => PressedAfter(c, m, i)'
    BY <1>2, <1>4 DEF HeldBegins
  <2>1. CASE c = d /\ m = k
    <3>1. p /\ events'[n] = KeyReport(c, m, TRUE)
      BY <1>2, <1>3, <2>1
    <3>2. \A i : i < n => PressedAfter(c, m, i)'
      BY <1>4, <3>1 DEF PressedAfter
    <3>3. events'[n] # KeyReport(c, m, FALSE)
      BY <3>1 DEF KeyReport
    <3>. QED  BY <1>4, <3>2, <3>3
  <2>2. CASE ~(c = d /\ m = k)
    <3>1. m \in held[c]
      BY <1>2, <2>2
    <3>2. events'[n] # KeyReport(c, m, FALSE)
      BY <1>3, <2>2 DEF KeyReport
    <3>3. m \notin down => PressedAfter(c, m, 0)
      BY <3>1 DEF Rising, HeldBegins
    <3>4. ASSUME NEW i \in DOMAIN events', events'[i] = KeyReport(c, m, FALSE)
          PROVE  PressedAfter(c, m, i)
      <4>1. i \in DOMAIN events /\ events[i] = KeyReport(c, m, FALSE)
        BY <1>3, <1>4, <3>2, <3>4
      <4>. QED  BY <3>1, <4>1 DEF Rising, HeldBegins
    <3>. QED  BY <1>5, <3>3, <3>4
  <2>. QED  BY <2>1, <2>2
<1>8. ReleasesApart'
  <2>. SUFFICES ASSUME NEW c \in devs, NEW m \in Keys, NEW j \in DOMAIN events',
                       events'[j] = KeyReport(c, m, FALSE)
                PROVE  /\ m \notin down => Pressed(c, m, 0, j)'
                       /\ \A i \in DOMAIN events' :
                            i < j /\ events'[i] = KeyReport(c, m, FALSE) => Pressed(c, m, i, j)'
    BY <1>2, <1>4 DEF ReleasesApart
  <2>1. CASE j \in DOMAIN events
    <3>1. events[j] = KeyReport(c, m, FALSE)
      BY <1>3, <2>1
    <3>2. ASSUME NEW i \in DOMAIN events', i < j PROVE i \in DOMAIN events
      BY <1>3, <2>1, <3>2
    <3>. QED  BY <1>3, <1>6, <2>1, <3>1, <3>2 DEF Rising, ReleasesApart
  <2>2. CASE j = n
    <3>1. c = d /\ m = k /\ k \in held[d]
      BY <1>1, <1>3, <2>2 DEF KeyReport
    <3>2. m \notin down => PressedAfter(c, m, 0)
      BY <3>1 DEF Rising, HeldBegins
    <3>3. ASSUME NEW i \in DOMAIN events', i < j, events'[i] = KeyReport(c, m, FALSE)
          PROVE  PressedAfter(c, m, i)
      <4>1. i # n
        BY <2>2, <3>3
      <4>2. i \in DOMAIN events /\ events[i] = KeyReport(c, m, FALSE)
        BY <1>3, <1>4, <3>3, <4>1
      <4>. QED  BY <3>1, <4>2 DEF Rising, HeldBegins
    <3>. QED  BY <1>5, <2>2, <3>2, <3>3
  <2>. QED  BY <1>4, <2>1, <2>2
<1>. QED  BY <1>7, <1>8 DEF Rising

LEMMA RisingHandle ==
  ASSUME OneKeyboard, TypeOK, Rising, events # <<>>, Head(events).kind = "key",
         Head(events).dev \in devs, HandleKey(Head(events)), UNCHANGED <<held, devs>>
  PROVE  Rising'
<1>. DEFINE e == Head(events)
<1>0. devs \subseteq Keyboards
  BY DEF TypeOK
<1>1. events' = Tail(events) /\ down' = DownAfter(e)
  BY DEF HandleKey
<1>2. PICK n \in Nat \ {0} :
        /\ DOMAIN events = 1 .. n /\ e = events[1] /\ DOMAIN events' = 1 .. n - 1
        /\ \A i \in 1 .. n - 1 : events'[i] = events[i + 1]
  <2>1. Len(events) \in Nat \ {0}
    BY DEF TypeOK, XTypeOK
  <2>. QED  BY <1>1, <2>1, Popped DEF TypeOK, XTypeOK
<1>3. /\ \A i \in DOMAIN events' : i \in Nat /\ 1 < i + 1 /\ i + 1 \in DOMAIN events
      /\ \A i \in DOMAIN events' : events'[i] = events[i + 1]
      /\ 1 \in DOMAIN events
      /\ \A l \in DOMAIN events : l # 1 =>
           l - 1 \in DOMAIN events' /\ (l - 1) + 1 = l /\ events'[l - 1] = events[l] /\ l > 1 /\ l \in Nat
  <2>1. DOMAIN events = 1 .. n /\ DOMAIN events' = 1 .. n - 1
    BY <1>2
  <2>. QED  BY <1>2, <2>1
<1>4. e \in KeyEvent /\ e = events[1] /\ e = KeyReport(e.dev, e.code, e.press)
      /\ \A d \in Keyboards : e.dev = d
  BY <1>2, <1>3, Kinds, Reports DEF KeyEvent, OneKeyboard
<1>5. ASSUME NEW d, NEW k, NEW i \in Nat, PressedAfter(d, k, i + 1) PROVE PressedAfter(d, k, i)'
  <2>1. PICK l \in DOMAIN events : i + 1 < l /\ events[l] = KeyReport(d, k, TRUE)
    BY <1>5 DEF PressedAfter
  <2>2. l # 1 /\ l - 1 \in DOMAIN events' /\ i < l - 1
    BY <1>3, <2>1
  <2>. QED  BY <1>3, <2>1, <2>2 DEF PressedAfter
<1>6. ASSUME NEW d, NEW k, NEW i \in Nat, NEW j \in Nat, Pressed(d, k, i + 1, j + 1)
      PROVE  Pressed(d, k, i, j)'
  <2>1. PICK l \in DOMAIN events : i + 1 < l /\ l < j + 1 /\ events[l] = KeyReport(d, k, TRUE)
    BY <1>6 DEF Pressed
  <2>2. l # 1 /\ l - 1 \in DOMAIN events' /\ i < l - 1 /\ l - 1 < j
    BY <1>3, <2>1
  <2>. QED  BY <1>3, <2>1, <2>2 DEF Pressed
\* What the key at the head of the queue does to down.
<1>7. ASSUME NEW d \in devs, NEW k \in Keys, k \notin down'
      PROVE  \/ e = KeyReport(d, k, FALSE)
             \/ k \notin down /\ e # KeyReport(d, k, TRUE)
  <2>1. CASE e.code = k
    <3>1. e.press = FALSE
      BY <1>1, <1>4, <1>7, <2>1 DEF DownAfter, KeyEvent
    <3>. QED  BY <1>0, <1>4, <2>1, <3>1
  <2>2. CASE e.code # k
    BY <1>1, <1>7, <2>2 DEF DownAfter, KeyReport
  <2>. QED  BY <2>1, <2>2
<1>8. ASSUME NEW d \in devs, NEW k \in Keys, k \in held[d], k \notin down'
      PROVE  PressedAfter(d, k, 1)
  <2>1. CASE e = KeyReport(d, k, FALSE)
    BY <1>3, <1>4, <1>8, <2>1 DEF Rising, HeldBegins
  <2>2. CASE k \notin down /\ e # KeyReport(d, k, TRUE)
    <3>1. PICK l \in DOMAIN events : 0 < l /\ events[l] = KeyReport(d, k, TRUE)
      BY <1>8, <2>2 DEF Rising, HeldBegins, PressedAfter
    <3>2. l # 1
      BY <1>4, <2>2, <3>1
    <3>3. 1 < l
      BY <1>3, <3>1, <3>2
    <3>. QED  BY <3>1, <3>3 DEF PressedAfter
  <2>. QED  BY <1>7, <1>8, <2>1, <2>2
<1>9. HeldBegins'
  <2>. SUFFICES ASSUME NEW d \in devs, NEW k \in Keys, k \in held[d]
                PROVE  /\ k \notin down' => PressedAfter(d, k, 0)'
                       /\ \A i \in DOMAIN events' :
                            events'[i] = KeyReport(d, k, FALSE) => PressedAfter(d, k, i)'
    BY DEF HeldBegins
  <2>1. k \notin down' => PressedAfter(d, k, 0)'
    <3>1. PressedAfter(d, k, 1) => PressedAfter(d, k, 0)'
      <4>1. 0 + 1 = 1 /\ 0 \in Nat
        OBVIOUS
      <4>. QED  BY <1>5, <4>1
    <3>. QED  BY <1>8, <3>1
  <2>2. ASSUME NEW i \in DOMAIN events', events'[i] = KeyReport(d, k, FALSE)
        PROVE  PressedAfter(d, k, i)'
    <3>1. PressedAfter(d, k, i + 1)
      BY <1>3, <2>2 DEF Rising, HeldBegins
    <3>. QED  BY <1>3, <1>5, <3>1
  <2>. QED  BY <2>1, <2>2
<1>10. ReleasesApart'
  <2>. SUFFICES ASSUME NEW d \in devs, NEW k \in Keys, NEW j \in DOMAIN events',
                       events'[j] = KeyReport(d, k, FALSE)
                PROVE  /\ k \notin down' => Pressed(d, k, 0, j)'
                       /\ \A i \in DOMAIN events' :
                            i < j /\ events'[i] = KeyReport(d, k, FALSE) => Pressed(d, k, i, j)'
    BY DEF ReleasesApart
  <2>1. j \in Nat /\ j + 1 \in DOMAIN events /\ events[j + 1] = KeyReport(d, k, FALSE) /\ 1 < j + 1
    BY <1>3
  <2>2. ASSUME k \notin down' PROVE Pressed(d, k, 1, j + 1)
    <3>1. CASE e = KeyReport(d, k, FALSE)
      BY <1>3, <1>4, <2>1, <3>1 DEF Rising, ReleasesApart
    <3>2. CASE k \notin down /\ e # KeyReport(d, k, TRUE)
      <4>1. PICK l \in DOMAIN events : 0 < l /\ l < j + 1 /\ events[l] = KeyReport(d, k, TRUE)
        BY <2>1, <3>2 DEF Rising, ReleasesApart, Pressed
      <4>2. l # 1
        BY <1>4, <3>2, <4>1
      <4>3. 1 < l
        BY <1>3, <4>1, <4>2
      <4>. QED  BY <4>1, <4>3 DEF Pressed
    <3>. QED  BY <1>7, <2>2, <3>1, <3>2
  <2>3. ASSUME NEW i \in DOMAIN events', i < j, events'[i] = KeyReport(d, k, FALSE)
        PROVE  Pressed(d, k, i, j)'
    <3>1. i \in Nat /\ i + 1 \in DOMAIN events /\ events[i + 1] = KeyReport(d, k, FALSE)
      BY <1>3, <2>3
    <3>3. i + 1 < j + 1
      BY <2>1, <2>3, <3>1
    <3>2. Pressed(d, k, i + 1, j + 1)
      BY <2>1, <3>1, <3>3 DEF Rising, ReleasesApart
    <3>. QED  BY <1>6, <2>1, <3>1, <3>2
  <2>4. Pressed(d, k, 1, j + 1) => Pressed(d, k, 0, j)'
    <3>1. 0 + 1 = 1 /\ 0 \in Nat
      OBVIOUS
    <3>. QED  BY <1>6, <2>1, <3>1
  <2>. QED  BY <2>2, <2>3, <2>4
<1>. QED  BY <1>9, <1>10 DEF Rising

LEMMA RisingStep ==
  ASSUME OneKeyboard, TypeInv, Noted, Noticed, Noticed', pc = "exit" \/ Rising, [Next]_vars
  PROVE  pc' = "exit" \/ Rising'
<1>. USE DEF TypeInv
<1>1. devs' = {} => Rising'
  BY DEF Rising, HeldBegins, ReleasesApart
<1>2. ASSUME UNCHANGED <<events, down, held, devs>>, pc' = pc \/ pc # "exit"
      PROVE  pc' = "exit" \/ Rising'
  <2>1. CASE pc = "exit"
    BY <1>2, <2>1
  <2>2. CASE Rising
    <3>1. /\ \A d, k, i, j : Pressed(d, k, i, j)' <=> Pressed(d, k, i, j)
          /\ \A d, k, i : PressedAfter(d, k, i)' <=> PressedAfter(d, k, i)
      BY <1>2 DEF Pressed, PressedAfter
    <3>. QED  BY <1>2, <2>2, <3>1 DEF Rising, HeldBegins, ReleasesApart
  <2>. QED  BY <2>1, <2>2
<1>3. CASE User
  <2>1. UNCHANGED mainVars /\ pc' = pc /\ devs' = devs /\ down' = down /\ devs \subseteq Keyboards
    BY <1>3 DEF User, mainVars, TypeOK
  <2>. SUFFICES ASSUME pc # "exit", devs # {} PROVE Rising'
    BY <1>1, <2>1
  <2>2. PICK d \in Keyboards : \/ \E k \in Keys : KeyDown(d, k) \/ KeyUp(d, k)
                               \/ Plug(d) \/ Unplug(d) \/ Detach(d) \/ Reattach(d)
    BY <1>3 DEF User
  <2>3. d \in devs
    BY <2>1 DEF OneKeyboard
  <2>4. CASE \E k \in Keys : KeyDown(d, k) \/ KeyUp(d, k)
    BY <2>1, <2>3, <2>4, RisingKey
  <2>5. CASE Plug(d) \/ Unplug(d) \/ Detach(d) \/ Reattach(d)
    <3>1. /\ \A i \in DOMAIN events : i \in DOMAIN events' /\ events'[i] = events[i]
          /\ \A i \in DOMAIN events' : i \in DOMAIN events \/ events'[i].kind = "hier"
      BY <2>5, HotplugReports, HierAppended
    <3>2. /\ \A c, m, i, j : Pressed(c, m, i, j) => Pressed(c, m, i, j)'
          /\ \A c, m, i : PressedAfter(c, m, i) => PressedAfter(c, m, i)'
      BY <3>1 DEF Pressed, PressedAfter
    <3>3. ASSUME NEW c, NEW m, NEW i \in DOMAIN events', events'[i] = KeyReport(c, m, FALSE)
          PROVE  i \in DOMAIN events /\ events[i] = KeyReport(c, m, FALSE)
      <4>1. events'[i].kind # "hier"
        BY <3>3 DEF KeyReport
      <4>. QED  BY <3>1, <3>3, <4>1
    <3>4. held' = held
      BY <2>5 DEF Plug, Unplug, Detach, Reattach, Hotplug
    <3>5. HeldBegins'
      BY <2>1, <3>2, <3>3, <3>4 DEF Rising, HeldBegins
    <3>6. ReleasesApart'
      BY <2>1, <3>2, <3>3 DEF Rising, ReleasesApart
    <3>. QED  BY <3>5, <3>6 DEF Rising
  <2>. QED  BY <2>2, <2>4, <2>5
<1>4. CASE Server
  BY <1>2, <1>4 DEF Server, ServeFakes, mainVars
<1>5. CASE RecvKey
  <2>1. pc # "exit" /\ events # <<>> /\ Head(events).kind = "key" /\ UNCHANGED <<held, devs>>
    BY <1>5 DEF RecvKey
  <2>2. CASE Head(events).dev \notin devs
    <3>1. devs' = {}
      BY <2>1, <2>2, Kinds DEF OneKeyboard, KeyEvent, TypeOK
    <3>. QED  BY <1>1, <3>1
  <2>3. CASE HandleKey(Head(events)) /\ Head(events).dev \in devs
    BY <2>1, <2>3, RisingHandle
  <2>4. CASE UNCHANGED <<events, down>>
    BY <1>2, <2>1, <2>4
  <2>. QED  BY <1>5, <2>2, <2>3, <2>4 DEF RecvKey
<1>6. CASE GrabFloating
  <2>1. /\ pc # "exit" /\ events # <<>> /\ Head(events).kind = "key" /\ UNCHANGED <<held, devs>>
        /\ Head(events).dev \in devs
    BY <1>6 DEF GrabFloating, GrabPending
  <2>. QED  BY <1>6, <2>1, RisingHandle DEF GrabFloating
<1>7. CASE Settle
  BY <1>2, <1>7 DEF Settle
<1>8. CASE RecvHier
  <2>1. \A c, m : \A i \in DOMAIN events' : events'[i] # KeyReport(c, m, FALSE)
    BY <1>8, OnlyHier DEF KeyReport
  <2>2. \A d \in devs' : held'[d] = {}
    BY <1>8, OnlyHier, StepType DEF TypeOK
  <2>. QED  BY <2>1, <2>2 DEF Rising, HeldBegins, ReleasesApart
<1>9. CASE ProcReplay
  BY <1>2, <1>9 DEF ProcReplay
<1>10. CASE Quit
  BY <1>10 DEF Quit
<1>11. CASE UNCHANGED vars
  BY <1>2, <1>11 DEF vars, srvVars, mainVars
<1>. QED
  BY <1>3, <1>4, <1>5, <1>6, <1>7, <1>8, <1>9, <1>10, <1>11 DEF Next, Daemon

-----------------------------------------------------------------------------
(* What was done since no key was down: each key went down and up in turn, *)
(* those that are down an odd number of times; and as long as the sequence *)
(* may match, it is all of that.                                           *)

Times(s, k) == {j \in 1 .. Len(s) : s[j].code = k}

InTurn(s, keys) ==
  /\ s \in Seq(KeyChange) /\ s = Spelled(Codes(s))
  /\ \A k \in Keys : k \in keys <=> Cardinality(Times(s, k)) % 2 = 1

Gesture ==
  /\ maybe => seqbuf = burst
  /\ pc # "exit" => InTurn(burst, down)
  /\ pc = "settle" => down = {}

LEMMA SpelledSeq ==
  ASSUME NEW s \in Seq(KeyChange)
  PROVE  /\ DOMAIN Spelled(Codes(s)) = 1 .. Len(s)
         /\ \A i \in 1 .. Len(s) : Spelled(Codes(s))[i] =
              [code  |-> s[i].code,
               press |-> Cardinality({j \in 1 .. i - 1 : s[j].code = s[i].code}) % 2 = 0]
<1>1. DOMAIN Codes(s) = 1 .. Len(s) /\ \A i \in 1 .. Len(s) : Codes(s)[i] = s[i].code
  BY DEF Codes
<1>2. ASSUME NEW i \in 1 .. Len(s)
      PROVE  {j \in 1 .. i - 1 : Codes(s)[j] = Codes(s)[i]} = {j \in 1 .. i - 1 : s[j].code = s[i].code}
  <2>1. \A j \in 1 .. i - 1 : j \in 1 .. Len(s)
    OBVIOUS
  <2>. QED  BY <1>1, <2>1
<1>. QED  BY <1>1, <1>2 DEF Spelled

LEMMA InTurnNone == InTurn(<<>>, {})
<1>1. <<>> \in Seq(KeyChange) /\ Len(<<>>) = 0
  OBVIOUS
<1>2. Spelled(Codes(<<>>)) = <<>>
  BY DEF Spelled, Codes
<1>3. \A k \in Keys : Times(<<>>, k) = {}
  BY <1>1 DEF Times
<1>4. ~(Cardinality({}) % 2 = 1)
  BY FS_EmptySet
<1>. QED  BY <1>1, <1>2, <1>3, <1>4 DEF InTurn

\* A key that goes down if it was up, and up if it was down, is in turn.
LEMMA InTurnKey ==
  ASSUME NEW s, NEW keys, InTurn(s, keys), NEW k \in Keys, NEW p \in BOOLEAN,
         p <=> k \notin keys
  PROVE  InTurn(Append(s, [code |-> k, press |-> p]),
                IF p THEN keys \cup {k} ELSE keys \ {k})
<1>. DEFINE c == [code |-> k, press |-> p]
            t == Append(s, c)
            n == Len(s)
<1>1. /\ s \in Seq(KeyChange) /\ c \in KeyChange /\ t \in Seq(KeyChange)
      /\ n \in Nat /\ Len(t) = n + 1 /\ t[n + 1] = c /\ \A i \in 1 .. n : t[i] = s[i]
  BY DEF InTurn, KeyChange
<1>2. c.code = k /\ c.press = p
  OBVIOUS
<1>. HIDE DEF c, t, n
<1>3. \A m \in Keys : Times(t, m) = IF m = k THEN Times(s, m) \cup {n + 1} ELSE Times(s, m)
  <2>1. \A i \in 1 .. n + 1 : i \in 1 .. n \/ i = n + 1
    BY <1>1
  <2>2. \A i \in 1 .. n : i \in 1 .. n + 1
    BY <1>1
  <2>. QED  BY <1>1, <1>2, <2>1, <2>2 DEF Times, n
<1>4. \A m \in Keys : IsFiniteSet(Times(s, m)) /\ Cardinality(Times(s, m)) \in Nat /\ n + 1 \notin Times(s, m)
  <2>. SUFFICES ASSUME NEW m \in Keys
                PROVE  IsFiniteSet(Times(s, m)) /\ Cardinality(Times(s, m)) \in Nat /\ n + 1 \notin Times(s, m)
    OBVIOUS
  <2>1. Times(s, m) \subseteq 1 .. n
    BY DEF Times, n
  <2>2. IsFiniteSet(1 .. n)
    BY <1>1, FS_Interval
  <2>. QED  BY <1>1, <2>1, <2>2, FS_Subset, FS_CardinalityType
<1>5. \A m \in Keys : Cardinality(Times(t, m)) =
        IF m = k THEN Cardinality(Times(s, m)) + 1 ELSE Cardinality(Times(s, m))
  BY <1>3, <1>4, FS_AddElement
<1>6. \A m \in Keys : m \in (IF p THEN keys \cup {k} ELSE keys \ {k})
                        <=> Cardinality(Times(t, m)) % 2 = 1
  <2>1. \A x \in Nat : (x + 1) % 2 = 1 <=> ~(x % 2 = 1)
    OBVIOUS
  <2>2. \A m \in Keys : m \in keys <=> Cardinality(Times(s, m)) % 2 = 1
    BY DEF InTurn
  <2>3. ASSUME NEW m \in Keys, m # k PROVE m \in (IF p THEN keys \cup {k} ELSE keys \ {k})
                                            <=> Cardinality(Times(t, m)) % 2 = 1
    BY <1>5, <2>2, <2>3
  <2>4. k \in (IF p THEN keys \cup {k} ELSE keys \ {k}) <=> Cardinality(Times(t, k)) % 2 = 1
    BY <1>4, <1>5, <2>1, <2>2
  <2>. QED  BY <2>3, <2>4
<1>7. t = Spelled(Codes(t))
  <2>1. /\ DOMAIN Spelled(Codes(t)) = 1 .. n + 1
        /\ \A i \in 1 .. n + 1 : Spelled(Codes(t))[i] =
             [code  |-> t[i].code,
              press |-> Cardinality({j \in 1 .. i - 1 : t[j].code = t[i].code}) % 2 = 0]
    BY <1>1, SpelledSeq
  <2>2. ASSUME NEW i \in 1 .. n PROVE Spelled(Codes(t))[i] = t[i]
    <3>1. {j \in 1 .. i - 1 : t[j].code = t[i].code} = {j \in 1 .. i - 1 : s[j].code = s[i].code}
      <4>1. \A j \in 1 .. i - 1 : j \in 1 .. n
        BY <1>1
      <4>. QED  BY <1>1, <4>1
    <3>2. i \in 1 .. n + 1
      BY <1>1
    <3>3. Spelled(Codes(t))[i] =
            [code  |-> s[i].code,
             press |-> Cardinality({j \in 1 .. i - 1 : s[j].code = s[i].code}) % 2 = 0]
      BY <1>1, <2>1, <3>1, <3>2
    <3>4. Spelled(Codes(t))[i] = Spelled(Codes(s))[i]
      BY <1>1, <3>3, SpelledSeq DEF n
    <3>. QED  BY <1>1, <3>4 DEF InTurn
  <2>3. Spelled(Codes(t))[n + 1] = t[n + 1]
    <3>1. {j \in 1 .. (n + 1) - 1 : t[j].code = t[n + 1].code} = Times(s, k)
      <4>1. (n + 1) - 1 = n
        BY <1>1
      <4>. QED  BY <1>1, <1>2, <4>1 DEF Times, n
    <3>2. n + 1 \in 1 .. n + 1
      BY <1>1
    <3>3. Spelled(Codes(t))[n + 1] = [code |-> k, press |-> Cardinality(Times(s, k)) % 2 = 0]
      BY <1>1, <1>2, <2>1, <3>1, <3>2
    <3>4. (Cardinality(Times(s, k)) % 2 = 0) = p
      <4>1. k \in keys <=> Cardinality(Times(s, k)) % 2 = 1
        BY DEF InTurn
      <4>2. \A x \in Nat : x % 2 = 0 <=> ~(x % 2 = 1)
        OBVIOUS
      <4>. QED  BY <1>4, <4>1, <4>2
    <3>. QED  BY <1>1, <3>3, <3>4 DEF c
  <2>4. DOMAIN t = 1 .. n + 1 /\ t = [i \in DOMAIN t |-> t[i]]
    BY <1>1
  <2>5. Spelled(Codes(t)) = [i \in DOMAIN Spelled(Codes(t)) |-> Spelled(Codes(t))[i]]
    BY DEF Spelled
  <2>6. \A i \in 1 .. n + 1 : i \in 1 .. n \/ i = n + 1
    BY <1>1
  <2>7. \A i \in 1 .. n + 1 : Spelled(Codes(t))[i] = t[i]
    BY <2>2, <2>3, <2>6
  <2>. QED  BY <2>1, <2>4, <2>5, <2>7
<1>. QED  BY <1>1, <1>6, <1>7 DEF InTurn, c, t

LEMMA GestureInit == ASSUME StartHeld = {} PROVE Init => Gesture
<1>. SUFFICES ASSUME Init PROVE Gesture
  OBVIOUS
<1>1. seqbuf = <<>> /\ burst = <<>> /\ down = {} /\ pc = "recv"
  BY DEF Init, MainInit
<1>. QED  BY <1>1, InTurnNone DEF Gesture

LEMMA GestureHandle ==
  ASSUME TypeOK, Alternating, Rising, Gesture, pc # "exit", events # <<>>,
         Head(events).kind = "key", Head(events).dev \in devs, HandleKey(Head(events))
  PROVE  Gesture'
<1>. DEFINE e == Head(events)
            k == [code |-> e.code, press |-> e.press]
<1>1. /\ e = events[1] /\ 1 \in DOMAIN events /\ \A l \in DOMAIN events : ~(l < 1)
      /\ e \in KeyEvent
  <2>1. e = events[1] /\ DOMAIN events = 1 .. Len(events) /\ Len(events) \in Nat /\ Len(events) >= 1
    BY Popped DEF TypeOK, XTypeOK
  <2>2. 1 \in DOMAIN events /\ \A l \in DOMAIN events : ~(l < 1)
    BY <2>1
  <2>. QED  BY <2>1, <2>2, Kinds
<1>2. e = KeyReport(e.dev, e.code, e.press) /\ e.dev \in devs /\ e.code \in Keys
      /\ e.press \in BOOLEAN
  BY <1>1, Reports DEF KeyEvent
<1>3. e.press <=> e.code \notin down
  <2>1. ASSUME e.press = TRUE, e.code \in down PROVE FALSE
    <3>1. Between(e.dev, e.code, 0, 1)
      BY <1>1, <1>2, <2>1 DEF Alternating
    <3>. QED  BY <1>1, <3>1 DEF Between
  <2>2. ASSUME e.press = FALSE, e.code \notin down PROVE FALSE
    <3>1. Pressed(e.dev, e.code, 0, 1)
      BY <1>1, <1>2, <2>2 DEF Rising, ReleasesApart
    <3>. QED  BY <1>1, <3>1 DEF Pressed
  <2>. QED  BY <1>2, <2>1, <2>2
<1>4. /\ burst' = Append(burst, k) /\ TakeIn(e)
      /\ down' = IF e.press THEN down \cup {e.code} ELSE down \ {e.code}
      /\ pc' = "settle" => down' = {}
  BY DEF HandleKey, DownAfter
<1>5. InTurn(burst', down')
  BY <1>2, <1>3, <1>4, InTurnKey DEF Gesture
<1>6. maybe' => seqbuf' = burst'
  BY <1>4 DEF Gesture, TakeIn
<1>. QED  BY <1>4, <1>5, <1>6 DEF Gesture

LEMMA GestureStep ==
  ASSUME TypeInv, Gesture, pc = "exit" \/ (Alternating /\ Rising), [Next]_vars
  PROVE  Gesture'
<1>. USE DEF TypeInv
<1>1. ASSUME UNCHANGED <<seqbuf, burst, maybe, down>>, pc' = pc \/ (pc = "recv" /\ pc' # "settle")
      PROVE  Gesture'
  BY <1>1 DEF Gesture
<1>2. CASE User \/ Server \/ UNCHANGED vars
  BY <1>1, <1>2 DEF User, Server, vars, mainVars
<1>3. CASE RecvKey
  <2>1. pc = "recv" /\ events # <<>> /\ Head(events).kind = "key"
    BY <1>3 DEF RecvKey
  <2>2. CASE HandleKey(Head(events)) /\ Head(events).dev \in devs
    BY <2>1, <2>2, GestureHandle
  <2>3. CASE UNCHANGED <<seqbuf, burst, maybe, down>> /\ pc' \in {"recv", "grab"}
    BY <1>1, <2>1, <2>3
  <2>. QED  BY <1>3, <2>1, <2>2, <2>3 DEF RecvKey
<1>4. CASE GrabFloating
  <2>1. /\ pc # "exit" /\ events # <<>> /\ HandleKey(Head(events))
        /\ Head(events).kind = "key" /\ Head(events).dev \in devs
    BY <1>4 DEF GrabFloating, GrabPending
  <2>. QED  BY <2>1, GestureHandle
<1>5. CASE Settle
  <2>1. pc' = "recv" /\ seqbuf' = <<>> /\ burst' = <<>> /\ down' = {} /\ pc = "settle"
    BY <1>5 DEF Settle, Gesture
  <2>. QED  BY <2>1, InTurnNone DEF Gesture
<1>6. CASE RecvHier \/ ProcReplay \/ Quit
  BY <1>1, <1>6 DEF RecvHier, ProcReplay, Quit
<1>. QED  BY <1>2, <1>3, <1>4, <1>5, <1>6 DEF Next, Daemon

\* With one keyboard and no key held while kseqi starts, an action is queued
\* only if the user pressed and released the keys of its line in turn and no
\* other key since all were up, however far the loop lags behind and however
\* often the keyboard comes and goes, unless it is typed on before the loop
\* has read that it did (lib.rs:103-139).
THEOREM WholeGestureThm ==
  ASSUME OneKeyboard, StartHeld = {} PROVE Spec /\ []Noticed => WholeGesture
<1>. DEFINE Inv == /\ LeaseInv /\ Noted /\ Gesture
                   /\ pc = "exit" \/ (Alternating /\ Rising)
<1>1. Init => Inv
  <2>1. Init => Alternating
    BY DEF Init, XInit, Alternating
  <2>. QED  BY <2>1, LeaseInit, NotedInit, RisingInit, GestureInit
<1>2. Inv /\ Noticed /\ Noticed' /\ [Next]_vars => Inv'
  BY StepType, LeaseStep, NotedStep, AlternatingStep, RisingStep, GestureStep DEF LeaseInv
<1>3. Inv /\ [Next]_vars => [fired' # fired => burst = Spelled(fired'[Len(fired')])]_vars
  <2>. SUFFICES ASSUME Inv, [Next]_vars, fired' # fired
                PROVE  burst = Spelled(fired'[Len(fired')])
    OBVIOUS
  <2>1. Settle /\ Matches /\ fired' = Append(fired, Codes(seqbuf)) /\ pc = "settle"
    BY DEF Next, Daemon, User, Server, RecvKey, GrabFloating, Settle, RecvHier, ProcReplay,
       Quit, vars, mainVars
  <2>2. Codes(seqbuf) \in Sequences /\ fired \in Seq(Sequences) /\ seqbuf = burst
    BY <2>1 DEF Matches, Gesture, LeaseInv, TypeInv, TypeOK
  <2>3. fired'[Len(fired')] = Codes(burst)
    BY <2>1, <2>2
  <2>. QED  BY <2>1, <2>3 DEF Gesture, InTurn
<1>. QED  BY <1>1, <1>2, <1>3, PTL DEF Spec, WholeGesture

\* With one keyboard that stays that needs nothing more of the user.
COROLLARY WholeGestureInPlace ==
  ASSUME OneKeyboard, MaxPlugs = 0, StartHeld = {} PROVE Spec => WholeGesture
  BY InPlace, WholeGestureThm, PTL

-----------------------------------------------------------------------------
(* No key is left stuck down in the applications, whatever keyboards come   *)
(* and go, however far the loop lags behind the user and the server behind  *)
(* the loop, and whichever grabs fail, as long as the loop knows the        *)
(* keyboards that are typed on.                                             *)

(* Every key the applications believe down has its release before it: the  *)
(* user's, in the queue or still to come; or one of kseqi's, that is faked *)
(* or will be; or the loop believes a key down, and will unpress all that  *)
(* the applications have when it does not any more.                        *)

EventUp(k) == \E d \in devs : Released(d, k, 0)

FakeUp(q, k, i) == \E j \in DOMAIN q : i < j /\ k \in q[j].codes /\ ~q[j].press

CoreEnds ==
  \A k \in core :
    \/ (\E d \in Keyboards \ detached : k \in held[d]) \/ EventUp(k)
    \/ down # {} \/ (pc = "settle" /\ k \in stale)
    \/ FakeUp(fakes, k, 0) \/ Up(replay, k, 0)

\* A key that is passed on as it is pressed will be as it is released.
PassedOn(k) == k \in down /\ ~maybe /\ floating # NoDev

FakesEnd ==
  \A k \in Keys : \A i \in DOMAIN fakes :
    k \in fakes[i].codes /\ fakes[i].press =>
      FakeUp(fakes, k, i) \/ Up(replay, k, 0) \/ PassedOn(k)

ReplayEnds ==
  \A i \in DOMAIN replay : replay[i].press => Up(replay, replay[i].code, i)

Lifting ==
  pc # "exit" => /\ CoreEnds /\ FakesEnd /\ ReplayEnds /\ SeqEnds
                 /\ pc = "settle" => down = {}

LEMMA LiftingInit == Init => Lifting
  BY DEF Init, XInit, MainInit, Lifting, CoreEnds, FakesEnd, ReplayEnds, SeqEnds

\* A queue that grows keeps its releases.
LEMMA UpGrows ==
  ASSUME NEW s \in Seq(KeyChange), NEW t \in Seq(KeyChange)
  PROVE  /\ \A k, i : Up(s, k, i) => Up(s \o t, k, i)
         /\ \A k : \A i \in Nat : Up(t, k, i) => Up(s \o t, k, Len(s) + i)
<1>1. /\ Len(s) \in Nat /\ Len(t) \in Nat
      /\ DOMAIN s = 1 .. Len(s) /\ DOMAIN t = 1 .. Len(t) /\ DOMAIN (s \o t) = 1 .. Len(s) + Len(t)
      /\ \A j \in 1 .. Len(s) : (s \o t)[j] = s[j]
      /\ \A j \in 1 .. Len(t) : (s \o t)[Len(s) + j] = t[j]
  OBVIOUS
<1>2. ASSUME NEW k, NEW i, Up(s, k, i) PROVE Up(s \o t, k, i)
  <2>1. PICK j \in 1 .. Len(s) : i < j /\ s[j].code = k /\ ~s[j].press
    BY <1>1, <1>2 DEF Up
  <2>2. j \in DOMAIN (s \o t) /\ (s \o t)[j] = s[j]
    BY <1>1
  <2>. QED  BY <2>1, <2>2 DEF Up
<1>3. ASSUME NEW k, NEW i \in Nat, Up(t, k, i) PROVE Up(s \o t, k, Len(s) + i)
  <2>1. PICK j \in 1 .. Len(t) : i < j /\ t[j].code = k /\ ~t[j].press
    BY <1>1, <1>3 DEF Up
  <2>2. Len(s) + j \in DOMAIN (s \o t) /\ (s \o t)[Len(s) + j] = t[j] /\ Len(s) + i < Len(s) + j
    BY <1>1, <2>1
  <2>. QED  BY <2>1, <2>2 DEF Up
<1>. QED  BY <1>2, <1>3

\* The queue of faked keys grows by one.
LEMMA FakeAppended ==
  ASSUME TypeOK, NEW codes, NEW press, Fake(codes, press)
  PROVE  \E n \in Nat :
           /\ DOMAIN fakes = 1 .. n /\ DOMAIN fakes' = 1 .. n + 1
           /\ \A i \in DOMAIN fakes : i \in DOMAIN fakes' /\ fakes'[i] = fakes[i] /\ i < n + 1
           /\ \A i \in DOMAIN fakes' : i \in DOMAIN fakes \/ i = n + 1
           /\ n + 1 \in DOMAIN fakes' /\ 0 < n + 1
           /\ fakes'[n + 1] = [codes |-> codes, press |-> press]
           /\ \A k, i : FakeUp(fakes, k, i) => FakeUp(fakes', k, i)
<1>1. fakes \in Seq(FakeEvent) /\ fakes' = Append(fakes, [codes |-> codes, press |-> press])
  BY DEF TypeOK, XTypeOK, Fake
<1>2. /\ Len(fakes) \in Nat /\ DOMAIN fakes = 1 .. Len(fakes) /\ DOMAIN fakes' = 1 .. Len(fakes) + 1
      /\ \A i \in DOMAIN fakes : fakes'[i] = fakes[i]
      /\ fakes'[Len(fakes) + 1] = [codes |-> codes, press |-> press]
  BY <1>1
<1>3. /\ \A i \in DOMAIN fakes : i \in DOMAIN fakes' /\ i < Len(fakes) + 1
      /\ \A i \in DOMAIN fakes' : i \in DOMAIN fakes \/ i = Len(fakes) + 1
      /\ Len(fakes) + 1 \in DOMAIN fakes' /\ 0 < Len(fakes) + 1
  BY <1>2
<1>4. \A k, i : FakeUp(fakes, k, i) => FakeUp(fakes', k, i)
  BY <1>2, <1>3 DEF FakeUp
<1>. QED  BY <1>2, <1>3, <1>4

\* A keyboard the applications hear, with no report on the way that it came or
\* went, is one the loop knows.
Ready ==
  \A d \in plugged \ detached :
    (\A i \in DOMAIN events : ~(events[i].kind = "hier" /\ events[i].dev = d)) => d \in devs

\* It is if every keyboard that comes can be opened, and if none does come.
Opens == \A d \in Keyboards : <<"add_dev", d>> \notin MayFail

LEMMA ReadyKeyboards ==
  ASSUME TypeOK, pc # "exit",
         \/ Opens /\ Attentive
         \/ Tracked
  PROVE  Ready
<1>1. CASE Opens /\ Attentive
  <2>. SUFFICES ASSUME NEW d \in plugged \ detached,
                       \A i \in DOMAIN events : ~(events[i].kind = "hier" /\ events[i].dev = d)
                PROVE  d \in devs
    BY DEF Ready
  <2>1. d \in Keyboards /\ d \in Attached
    BY DEF TypeOK, XTypeOK, Attached
  <2>2. Settled(events, d, devs, Tuned) \/ Coming(events, d, devs)
    BY <1>1, <2>1 DEF Attentive, Followed, Opens
  <2>. QED  BY <2>2 DEF Settled, Coming, Joins
<1>2. CASE Tracked
  BY <1>2 DEF Tracked, Ready, TypeOK, XTypeOK
<1>. QED  BY <1>1, <1>2

LEMMA LiftingKey ==
  ASSUME TypeOK, Noted, Noticed, Noticed', Ready, Lifting, pc # "exit",
         NEW d \in Keyboards, NEW k \in Keys,
         KeyDown(d, k) \/ KeyUp(d, k), UNCHANGED mainVars
  PROVE  Lifting'
<1>1. UNCHANGED <<fakes, replay, seqbuf, down, maybe, floating, pc, stale, devs, detached>>
  BY DEF KeyDown, KeyUp, mainVars, setup
<1>2. PICK p \in BOOLEAN : /\ Report(d, k, p)
                           /\ p <=> k \notin held[d]
  BY DEF KeyDown, KeyUp
<1>3. /\ \A c \in Keyboards : c # d => held'[c] = held[c]
      /\ held'[d] = IF p THEN held[d] \cup {k} ELSE held[d] \ {k}
  BY <1>2 DEF KeyDown, KeyUp, TypeOK, XTypeOK
<1>9. \A i \in DOMAIN events : i \in DOMAIN events' /\ events'[i] = events[i]
  BY <1>2, Appended DEF Report, TypeOK, XTypeOK
<1>4. \A m : EventUp(m) => EventUp(m)'
  BY <1>1, <1>9 DEF EventUp, Released
<1>10. d \notin detached => d \in devs /\ d \in selected
  <2>1. \A i \in DOMAIN events : ~(events[i].kind = "hier" /\ events[i].dev = d)
    <3>1. held[d] # {} \/ held'[d] # {}
      BY <1>2, <1>3
    <3>. QED  BY <1>9, <3>1 DEF Noticed
  <2>2. d \in plugged
    BY DEF KeyDown, KeyUp
  <2>3. d \notin detached => d \in devs
    BY <2>1, <2>2 DEF Ready
  <2>. QED  BY <2>1, <2>3 DEF Noted, Heeded, Leaves
<1>5. ~p /\ d \notin detached => EventUp(k)'
  <2>. SUFFICES ASSUME p = FALSE, d \notin detached PROVE EventUp(k)'
    BY <1>2
  <2>1. events' = Append(events, KeyReport(d, k, FALSE)) /\ d \in devs'
    BY <1>1, <1>2, <1>10 DEF Report
  <2>4. events \in Seq(KeyEvent \cup HierEvent)
    BY DEF TypeOK, XTypeOK
  <2>5. \A r : /\ DOMAIN Append(events, r) = 1 .. Len(events) + 1 /\ Len(events) \in Nat
               /\ Append(events, r)[Len(events) + 1] = r
    BY <2>4, Appended
  <2>2. /\ DOMAIN events' = 1 .. Len(events) + 1 /\ Len(events) \in Nat
        /\ events'[Len(events) + 1] = KeyReport(d, k, FALSE)
    BY <2>1, <2>5
  <2>3. Len(events) + 1 \in DOMAIN events' /\ Len(events) + 1 > 0
    BY <2>2
  <2>. QED  BY <2>1, <2>2, <2>3 DEF EventUp, Released
<1>6. CoreEnds'
  <2>. SUFFICES ASSUME NEW m \in core'
                PROVE  \/ (\E c \in Keyboards \ detached : m \in held'[c]) \/ EventUp(m)'
                       \/ down # {} \/ (pc = "settle" /\ m \in stale)
                       \/ FakeUp(fakes, m, 0) \/ Up(replay, m, 0)
    <3>1. \A m : FakeUp(fakes', m, 0) <=> FakeUp(fakes, m, 0)
      BY <1>1 DEF FakeUp
    <3>. QED  BY <1>1, <3>1 DEF CoreEnds
  <2>1. CASE m = k /\ d \notin detached
    BY <1>3, <1>5, <2>1
  <2>2. CASE m # k \/ d \in detached
    <3>1. m \in core
      BY <2>2 DEF KeyDown, KeyUp, Floating
    <3>2. \A c \in Keyboards \ detached : m \in held[c] => m \in held'[c]
      BY <1>3, <2>2
    <3>. QED  BY <1>4, <3>1, <3>2 DEF Lifting, CoreEnds
  <2>. QED  BY <2>1, <2>2
<1>7. (FakesEnd /\ ReplayEnds /\ SeqEnds)'
  <2>1. \A m, i : (FakeUp(fakes', m, i) <=> FakeUp(fakes, m, i)) /\ (PassedOn(m)' <=> PassedOn(m))
    BY <1>1 DEF FakeUp, PassedOn
  <2>. QED  BY <1>1, <2>1 DEF Lifting, FakesEnd, ReplayEnds, SeqEnds
<1>. QED  BY <1>1, <1>6, <1>7 DEF Lifting

LEMMA LiftingServe ==
  ASSUME TypeOK, Lifting, Server PROVE Lifting'
<1>. SUFFICES ASSUME pc # "exit" PROVE Lifting'
  BY DEF Server, mainVars, Lifting
<1>. DEFINE f == Head(fakes)
<1>1. /\ UNCHANGED <<events, held, replay, seqbuf, down, maybe, floating, pc, stale, devs, detached>>
      /\ fakes # <<>> /\ fakes' = Tail(fakes) /\ fakes \in Seq(FakeEvent)
      /\ core' = IF f.press THEN core \cup f.codes ELSE core \ f.codes
  BY DEF Server, ServeFakes, mainVars, TypeOK, XTypeOK, setup
<1>2. PICK n \in Nat \ {0} :
        /\ DOMAIN fakes = 1 .. n /\ f = fakes[1] /\ DOMAIN fakes' = 1 .. n - 1
        /\ \A i \in 1 .. n - 1 : fakes'[i] = fakes[i + 1]
  <2>1. Len(fakes) \in Nat \ {0}
    BY <1>1
  <2>. QED  BY <1>1, <2>1, Popped
<1>3. /\ \A i \in DOMAIN fakes' : i \in Nat /\ i + 1 \in DOMAIN fakes
      /\ \A i \in DOMAIN fakes' : fakes'[i] = fakes[i + 1]
      /\ 1 \in DOMAIN fakes
      /\ \A l \in DOMAIN fakes : l # 1 =>
           l - 1 \in DOMAIN fakes' /\ (l - 1) + 1 = l /\ fakes'[l - 1] = fakes[l] /\ l > 1 /\ l \in Nat
  <2>1. DOMAIN fakes = 1 .. n /\ DOMAIN fakes' = 1 .. n - 1
    BY <1>2
  <2>. QED  BY <1>2, <2>1
<1>4. ASSUME NEW k, NEW i \in Nat, FakeUp(fakes, k, i + 1) PROVE FakeUp(fakes', k, i)
  <2>1. PICK l \in DOMAIN fakes : i + 1 < l /\ k \in fakes[l].codes /\ ~fakes[l].press
    BY <1>4 DEF FakeUp
  <2>2. l # 1 /\ i < l - 1
    BY <1>3, <2>1
  <2>. QED  BY <1>3, <2>1, <2>2 DEF FakeUp
<1>5. \A k : FakeUp(fakes, k, 1) => FakeUp(fakes', k, 0)
  <2>1. 0 \in Nat /\ 0 + 1 = 1
    OBVIOUS
  <2>. QED  BY <1>4, <2>1
<1>6. f.codes \subseteq Keys
  <2>1. f \in FakeEvent
    BY <1>1
  <2>. QED  BY <2>1 DEF FakeEvent
<1>7. CoreEnds'
  <2>. SUFFICES ASSUME NEW k \in core'
                PROVE  \/ (\E c \in Keyboards \ detached : k \in held[c]) \/ EventUp(k)
                       \/ down # {} \/ (pc = "settle" /\ k \in stale)
                       \/ FakeUp(fakes', k, 0) \/ Up(replay, k, 0)
    <3>1. \A k : EventUp(k)' <=> EventUp(k)
      BY <1>1 DEF EventUp, Released
    <3>. QED  BY <1>1, <3>1 DEF CoreEnds
  <2>1. CASE f.press /\ k \in f.codes
    <3>1. FakeUp(fakes, k, 1) \/ Up(replay, k, 0) \/ PassedOn(k)
      BY <1>2, <1>3, <1>6, <2>1 DEF Lifting, FakesEnd
    <3>. QED  BY <1>5, <3>1 DEF PassedOn
  <2>2. CASE ~(f.press /\ k \in f.codes)
    <3>1. k \in core /\ ~(k \in f.codes /\ ~f.press)
      BY <1>1, <2>2
    <3>2. ASSUME FakeUp(fakes, k, 0) PROVE FakeUp(fakes, k, 1)
      <4>1. PICK l \in DOMAIN fakes : 0 < l /\ k \in fakes[l].codes /\ ~fakes[l].press
        BY <3>2 DEF FakeUp
      <4>2. l # 1
        BY <1>2, <3>1, <4>1
      <4>. QED  BY <1>3, <4>1, <4>2 DEF FakeUp
    <3>. QED  BY <1>5, <3>1, <3>2 DEF Lifting, CoreEnds
  <2>. QED  BY <2>1, <2>2
<1>8. FakesEnd'
  <2>. SUFFICES ASSUME NEW k \in Keys, NEW i \in DOMAIN fakes', k \in fakes'[i].codes, fakes'[i].press
                PROVE  FakeUp(fakes', k, i) \/ Up(replay, k, 0) \/ PassedOn(k)
    BY <1>1 DEF FakesEnd, PassedOn
  <2>1. FakeUp(fakes, k, i + 1) \/ Up(replay, k, 0) \/ PassedOn(k)
    BY <1>3 DEF Lifting, FakesEnd
  <2>. QED  BY <1>3, <1>4, <2>1
<1>. QED  BY <1>1, <1>7, <1>8 DEF Lifting, ReplayEnds, SeqEnds

LEMMA LiftingHandle ==
  ASSUME TypeOK, Lifting, pc # "exit", events # <<>>, Head(events).kind = "key",
         HandleKey(Head(events)), UNCHANGED <<core, held, replay, floating>>
  PROVE  Lifting'
<1>. DEFINE e == Head(events)
<1>1. e.code \in Keys /\ e.press \in BOOLEAN
  BY Kinds DEF KeyEvent
<1>2. /\ TakeIn(e) /\ down' = DownAfter(e)
      /\ down' = {} => pc' = "settle" /\ stale' = core
      /\ down' # {} => pc' = "recv"
  BY DEF HandleKey
<1>3. CoreEnds'
  BY <1>2 DEF CoreEnds
\* A key leaves down as it is released; it is then passed on if its press was.
<1>4. ASSUME NEW k, PassedOn(k)
      PROVE  PassedOn(k)' \/ (Fake({k}, FALSE) /\ k = e.code)
  <2>1. ~maybe /\ floating # NoDev /\ maybe' = maybe /\ Fake({e.code}, e.press)
    BY <1>2, <1>4 DEF PassedOn, TakeIn
  <2>2. CASE k \in down'
    BY <2>1, <2>2 DEF PassedOn
  <2>3. CASE k \notin down'
    <3>1. k = e.code /\ e.press = FALSE
      BY <1>1, <1>2, <1>4, <2>3 DEF PassedOn, DownAfter
    <3>. QED  BY <2>1, <3>1
  <2>. QED  BY <2>2, <2>3
<1>5. FakesEnd'
  <2>1. CASE UNCHANGED fakes
    <3>1. \A k \in Keys : PassedOn(k) => PassedOn(k)'
      <4>. SUFFICES ASSUME NEW k \in Keys, PassedOn(k) PROVE PassedOn(k)'
        OBVIOUS
      <4>1. ~Fake({k}, FALSE)
        <5>1. fakes \in Seq(FakeEvent)
          BY DEF TypeOK, XTypeOK
        <5>2. Len(Append(fakes, [codes |-> {k}, press |-> FALSE])) = Len(fakes) + 1
              /\ Len(fakes) \in Nat
          BY <5>1
        <5>3. Append(fakes, [codes |-> {k}, press |-> FALSE]) # fakes
          BY <5>2
        <5>. QED  BY <2>1, <5>3 DEF Fake
      <4>. QED  BY <1>4, <4>1
    <3>2. \A k, i : FakeUp(fakes', k, i) <=> FakeUp(fakes, k, i)
      BY <2>1 DEF FakeUp
    <3>. QED  BY <2>1, <3>1, <3>2 DEF Lifting, FakesEnd
  <2>2. CASE ~maybe /\ floating # NoDev /\ Fake({e.code}, e.press) /\ UNCHANGED maybe
    <3>1. PICK n \in Nat :
            /\ DOMAIN fakes = 1 .. n /\ DOMAIN fakes' = 1 .. n + 1
            /\ \A i \in DOMAIN fakes : i \in DOMAIN fakes' /\ fakes'[i] = fakes[i] /\ i < n + 1
            /\ \A i \in DOMAIN fakes' : i \in DOMAIN fakes \/ i = n + 1
            /\ n + 1 \in DOMAIN fakes' /\ 0 < n + 1
            /\ fakes'[n + 1] = [codes |-> {e.code}, press |-> e.press]
            /\ \A k, i : FakeUp(fakes, k, i) => FakeUp(fakes', k, i)
      BY <2>2, FakeAppended
    <3>. SUFFICES ASSUME NEW k \in Keys, NEW i \in DOMAIN fakes', k \in fakes'[i].codes, fakes'[i].press
                  PROVE  FakeUp(fakes', k, i) \/ Up(replay, k, 0) \/ PassedOn(k)'
      BY DEF FakesEnd
    <3>2. CASE i \in DOMAIN fakes
      <4>1. FakeUp(fakes, k, i) \/ Up(replay, k, 0) \/ PassedOn(k)
        BY <3>1, <3>2 DEF Lifting, FakesEnd
      <4>2. ASSUME PassedOn(k), ~PassedOn(k)' PROVE FakeUp(fakes', k, i)
        <5>1. k = e.code /\ e.press = FALSE
          BY <1>1, <1>2, <2>2, <4>2 DEF PassedOn, DownAfter
        <5>2. n + 1 \in DOMAIN fakes' /\ i < n + 1 /\ k \in fakes'[n + 1].codes /\ ~fakes'[n + 1].press
          BY <3>1, <3>2, <5>1
        <5>. QED  BY <5>2 DEF FakeUp
      <4>. QED  BY <3>1, <4>1, <4>2
    <3>3. CASE i = n + 1
      <4>1. k = e.code /\ e.press
        BY <3>1, <3>3
      <4>. QED  BY <1>2, <2>2, <4>1 DEF PassedOn, DownAfter
    <3>. QED  BY <3>1, <3>2, <3>3
  <2>. QED  BY <1>2, <2>1, <2>2 DEF TakeIn
<1>6. SeqEnds'
  BY <1>1, <1>2, SeqEndsHandle DEF Lifting
<1>. QED  BY <1>2, <1>3, <1>5, <1>6 DEF Lifting, ReplayEnds

LEMMA LiftingSettle ==
  ASSUME TypeOK, Lifting, Settle PROVE Lifting'
<1>1. /\ pc = "settle" /\ pc' = "recv" /\ down = {} /\ seqbuf' = <<>>
      /\ UNCHANGED <<core, held, events, down, devs, detached>> /\ Unpress
      /\ replay' = replay \/ (maybe /\ replay' = replay \o seqbuf)
      /\ {replay, seqbuf} \subseteq Seq(KeyChange)
  BY DEF Settle, Lifting, Unmatched, TypeOK, setup
<1>2. /\ \A k, i : Up(replay, k, i) => Up(replay', k, i)
      /\ ReplayEnds'
  <2>1. CASE replay' = replay
    BY <1>1, <2>1 DEF Lifting, ReplayEnds
  <2>2. CASE maybe /\ replay' = replay \o seqbuf
    <3>1. /\ \A k, i : Up(replay, k, i) => Up(replay', k, i)
          /\ \A k : \A i \in Nat : Up(seqbuf, k, i) => Up(replay', k, Len(replay) + i)
      BY <1>1, <2>2, UpGrows
    <3>2. /\ Len(replay) \in Nat /\ Len(seqbuf) \in Nat
          /\ DOMAIN replay = 1 .. Len(replay) /\ DOMAIN seqbuf = 1 .. Len(seqbuf)
          /\ DOMAIN replay' = 1 .. Len(replay) + Len(seqbuf)
          /\ \A j \in 1 .. Len(replay) : replay'[j] = replay[j]
          /\ \A j \in 1 .. Len(seqbuf) : replay'[Len(replay) + j] = seqbuf[j]
      BY <1>1, <2>2
    <3>3. ASSUME NEW i \in DOMAIN replay', replay'[i].press
          PROVE  Up(replay', replay'[i].code, i)
      <4>1. CASE i \in 1 .. Len(replay)
        <5>1. i \in DOMAIN replay /\ replay'[i] = replay[i]
          BY <3>2, <4>1
        <5>2. Up(replay, replay[i].code, i)
          BY <1>1, <3>3, <5>1 DEF Lifting, ReplayEnds
        <5>. QED  BY <3>1, <5>1, <5>2
      <4>2. CASE i \notin 1 .. Len(replay)
        <5>1. PICK j \in 1 .. Len(seqbuf) : i = Len(replay) + j
          <6>1. i - Len(replay) \in 1 .. Len(seqbuf) /\ i = Len(replay) + (i - Len(replay))
            BY <3>2, <4>2
          <6>. QED  BY <6>1
        <5>2. seqbuf[j] = replay'[i] /\ j \in DOMAIN seqbuf /\ j \in Nat
          BY <3>2, <5>1
        <5>3. Up(seqbuf, seqbuf[j].code, j)
          BY <1>1, <2>2, <3>3, <5>2 DEF Lifting, SeqEnds
        <5>4. Up(replay', seqbuf[j].code, Len(replay) + j)
          BY <3>1, <5>2, <5>3
        <5>. QED  BY <5>1, <5>2, <5>4
      <4>. QED  BY <4>1, <4>2
    <3>. QED  BY <3>1, <3>3 DEF ReplayEnds
  <2>. QED  BY <1>1, <2>1, <2>2
<1>3. \A k : ~PassedOn(k)
  BY <1>1 DEF PassedOn
<1>4. /\ \A k, i : FakeUp(fakes, k, i) => FakeUp(fakes', k, i)
      /\ \A k \in stale : FakeUp(fakes', k, 0)
      /\ FakesEnd'
  <2>1. CASE stale = {} /\ UNCHANGED fakes
    <3>1. \A k, i : FakeUp(fakes', k, i) <=> FakeUp(fakes, k, i)
      BY <2>1 DEF FakeUp
    <3>2. ASSUME NEW k \in Keys, NEW i \in DOMAIN fakes', k \in fakes'[i].codes, fakes'[i].press
          PROVE  FakeUp(fakes', k, i) \/ Up(replay', k, 0)
      <4>1. FakeUp(fakes, k, i) \/ Up(replay, k, 0)
        BY <1>1, <1>3, <2>1, <3>2 DEF Lifting, FakesEnd
      <4>. QED  BY <1>2, <3>1, <4>1
    <3>. QED  BY <2>1, <3>1, <3>2 DEF FakesEnd
  <2>2. CASE Fake(stale, FALSE)
    <3>1. PICK n \in Nat :
            /\ DOMAIN fakes = 1 .. n /\ DOMAIN fakes' = 1 .. n + 1
            /\ \A i \in DOMAIN fakes : i \in DOMAIN fakes' /\ fakes'[i] = fakes[i] /\ i < n + 1
            /\ \A i \in DOMAIN fakes' : i \in DOMAIN fakes \/ i = n + 1
            /\ n + 1 \in DOMAIN fakes' /\ 0 < n + 1
            /\ fakes'[n + 1] = [codes |-> stale, press |-> FALSE]
            /\ \A k, i : FakeUp(fakes, k, i) => FakeUp(fakes', k, i)
      BY <2>2, FakeAppended
    <3>2. \A k \in stale : FakeUp(fakes', k, 0)
      BY <3>1 DEF FakeUp
    <3>3. ASSUME NEW k \in Keys, NEW i \in DOMAIN fakes', k \in fakes'[i].codes, fakes'[i].press
          PROVE  FakeUp(fakes', k, i) \/ Up(replay', k, 0)
      <4>1. i \in DOMAIN fakes /\ fakes'[i] = fakes[i]
        BY <3>1, <3>3
      <4>2. FakeUp(fakes, k, i) \/ Up(replay, k, 0)
        BY <1>1, <1>3, <3>3, <4>1 DEF Lifting, FakesEnd
      <4>. QED  BY <1>2, <3>1, <4>2
    <3>. QED  BY <3>1, <3>2, <3>3 DEF FakesEnd
  <2>. QED  BY <1>1, <2>1, <2>2 DEF Unpress
<1>5. CoreEnds'
  <2>. SUFFICES ASSUME NEW k \in core
                PROVE  (\E d \in Keyboards \ detached : k \in held[d]) \/ EventUp(k)
                       \/ FakeUp(fakes', k, 0) \/ Up(replay', k, 0)
    <3>1. \A k : EventUp(k)' <=> EventUp(k)
      BY <1>1 DEF EventUp, Released
    <3>. QED  BY <1>1, <3>1 DEF CoreEnds
  <2>. QED  BY <1>1, <1>2, <1>4 DEF Lifting, CoreEnds
<1>6. SeqEnds'
  BY <1>1 DEF SeqEnds
<1>. QED  BY <1>1, <1>2, <1>4, <1>5, <1>6 DEF Lifting

LEMMA LiftingReplay ==
  ASSUME TypeOK, Lifting, ProcReplay PROVE Lifting'
<1>. DEFINE r == Head(replay)
<1>1. /\ UNCHANGED <<core, held, events, down, maybe, floating, pc, stale, seqbuf, devs, detached>>
      /\ pc # "exit" /\ replay # <<>> /\ replay \in Seq(KeyChange) /\ replay' = Tail(replay)
      /\ Fake({r.code}, r.press)
  BY DEF ProcReplay, TypeOK, setup
<1>2. PICK n \in Nat \ {0} :
        /\ DOMAIN replay = 1 .. n /\ r = replay[1] /\ DOMAIN replay' = 1 .. n - 1
        /\ \A i \in 1 .. n - 1 : replay'[i] = replay[i + 1]
  <2>1. Len(replay) \in Nat \ {0}
    BY <1>1
  <2>. QED  BY <1>1, <2>1, Popped
<1>3. /\ \A i \in DOMAIN replay' : i \in Nat /\ i + 1 \in DOMAIN replay
      /\ \A i \in DOMAIN replay' : replay'[i] = replay[i + 1]
      /\ 1 \in DOMAIN replay
      /\ \A l \in DOMAIN replay : l # 1 =>
           l - 1 \in DOMAIN replay' /\ (l - 1) + 1 = l /\ replay'[l - 1] = replay[l] /\ l > 1 /\ l \in Nat
  <2>1. DOMAIN replay = 1 .. n /\ DOMAIN replay' = 1 .. n - 1
    BY <1>2
  <2>. QED  BY <1>2, <2>1
<1>4. ASSUME NEW k, NEW i \in Nat, Up(replay, k, i + 1) PROVE Up(replay', k, i)
  <2>1. PICK l \in DOMAIN replay : i + 1 < l /\ replay[l].code = k /\ ~replay[l].press
    BY <1>4 DEF Up
  <2>2. l # 1 /\ i < l - 1
    BY <1>3, <2>1
  <2>. QED  BY <1>3, <2>1, <2>2 DEF Up
<1>5. \A k : Up(replay, k, 1) => Up(replay', k, 0)
  <2>1. 0 \in Nat /\ 0 + 1 = 1
    OBVIOUS
  <2>. QED  BY <1>4, <2>1
<1>6. PICK m \in Nat :
        /\ DOMAIN fakes = 1 .. m /\ DOMAIN fakes' = 1 .. m + 1
        /\ \A i \in DOMAIN fakes : i \in DOMAIN fakes' /\ fakes'[i] = fakes[i] /\ i < m + 1
        /\ \A i \in DOMAIN fakes' : i \in DOMAIN fakes \/ i = m + 1
        /\ m + 1 \in DOMAIN fakes' /\ 0 < m + 1
        /\ fakes'[m + 1] = [codes |-> {r.code}, press |-> r.press]
        /\ \A k, i : FakeUp(fakes, k, i) => FakeUp(fakes', k, i)
  BY <1>1, FakeAppended
\* A release that is taken from the queue is faked after all that were.
<1>7. ASSUME NEW k, Up(replay, k, 0)
      PROVE  Up(replay', k, 0) \/ \A i : i < m + 1 => FakeUp(fakes', k, i)
  <2>1. PICK l \in DOMAIN replay : 0 < l /\ replay[l].code = k /\ ~replay[l].press
    BY <1>7 DEF Up
  <2>2. CASE l = 1
    <3>1. m + 1 \in DOMAIN fakes' /\ k \in fakes'[m + 1].codes /\ ~fakes'[m + 1].press
      BY <1>2, <1>6, <2>1, <2>2
    <3>. QED  BY <3>1 DEF FakeUp
  <2>3. CASE l # 1
    <3>1. 1 < l
      BY <1>3, <2>3
    <3>2. Up(replay, k, 1)
      BY <2>1, <3>1 DEF Up
    <3>. QED  BY <1>5, <3>2
  <2>. QED  BY <2>2, <2>3
<1>8. ReplayEnds'
  <2>. SUFFICES ASSUME NEW i \in DOMAIN replay', replay'[i].press
                PROVE  Up(replay', replay'[i].code, i)
    BY DEF ReplayEnds
  <2>1. Up(replay, replay'[i].code, i + 1)
    BY <1>1, <1>3 DEF Lifting, ReplayEnds
  <2>. QED  BY <1>3, <1>4, <2>1
<1>9. FakesEnd'
  <2>. SUFFICES ASSUME NEW k \in Keys, NEW i \in DOMAIN fakes', k \in fakes'[i].codes, fakes'[i].press
                PROVE  FakeUp(fakes', k, i) \/ Up(replay', k, 0) \/ PassedOn(k)
    BY <1>1 DEF FakesEnd, PassedOn
  <2>1. CASE i \in DOMAIN fakes
    <3>1. FakeUp(fakes, k, i) \/ Up(replay, k, 0) \/ PassedOn(k)
      BY <1>1, <1>6, <2>1 DEF Lifting, FakesEnd
    <3>. QED  BY <1>6, <1>7, <2>1, <3>1
  <2>2. CASE i = m + 1
    <3>1. r.press /\ k = r.code
      BY <1>6, <2>2
    <3>2. Up(replay, k, 1)
      BY <1>1, <1>2, <1>3, <3>1 DEF Lifting, ReplayEnds
    <3>. QED  BY <1>5, <3>2
  <2>. QED  BY <1>6, <2>1, <2>2
<1>10. CoreEnds'
  <2>. SUFFICES ASSUME NEW k \in core
                PROVE  \/ (\E c \in Keyboards \ detached : k \in held[c]) \/ EventUp(k)
                       \/ down # {} \/ (pc = "settle" /\ k \in stale)
                       \/ FakeUp(fakes', k, 0) \/ Up(replay', k, 0)
    <3>1. \A k : EventUp(k)' <=> EventUp(k)
      BY <1>1 DEF EventUp, Released
    <3>. QED  BY <1>1, <3>1 DEF CoreEnds
  <2>. QED  BY <1>1, <1>6, <1>7 DEF Lifting, CoreEnds
<1>. QED  BY <1>1, <1>8, <1>9, <1>10 DEF Lifting, SeqEnds

\* The report of a key the loop does not know, or of a keyboard, is read.
LEMMA LiftingRead ==
  ASSUME TypeOK, Noted, Lifting, pc # "exit", events # <<>>, events' = Tail(events),
         \/ Head(events).kind = "key" /\ Head(events).dev \notin devs /\ devs' = devs
         \/ Head(events).kind = "hier" /\ \A d : d # Head(events).dev => (d \in devs => d \in devs'),
         UNCHANGED <<core, held, detached, fakes, replay, seqbuf, down, maybe, floating, pc, stale>>
  PROVE  Lifting'
<1>. DEFINE h == Head(events)
<1>1. /\ \A c, m : Released(c, m, 0) /\ h # KeyReport(c, m, FALSE) => Released(c, m, 0)'
      /\ 1 \in DOMAIN events /\ events[1] = h
      /\ DOMAIN events \subseteq Nat \ {0}
  <2>1. DOMAIN events \subseteq Nat \ {0}
    BY DEF TypeOK, XTypeOK
  <2>. QED  BY <2>1, NotedTail
<1>2. ASSUME NEW k, EventUp(k) PROVE EventUp(k)'
  <2>1. PICK d \in devs : Released(d, k, 0)
    BY <1>2 DEF EventUp
  <2>2. d \in devs' /\ h # KeyReport(d, k, FALSE)
    <3>1. CASE h.kind = "key"
      <4>1. h.dev # d
        BY <2>1, <3>1
      <4>. QED  BY <2>1, <3>1, <4>1 DEF KeyReport
    <3>2. CASE h.kind = "hier"
      <4>1. PICK j \in DOMAIN events : j > 0 /\ events[j] = KeyReport(d, k, FALSE)
        BY <2>1 DEF Released
      <4>2. events[j].kind = "key" /\ events[j].dev = d
        BY <4>1 DEF KeyReport
      <4>3. 1 < j
        BY <1>1, <3>2, <4>2
      <4>4. h.dev # d
        BY <1>1, <3>2, <4>2, <4>3 DEF Noted, KeysFirst
      <4>. QED  BY <2>1, <3>2, <4>4 DEF KeyReport
    <3>. QED  BY <3>1, <3>2
  <2>. QED  BY <1>1, <2>1, <2>2 DEF EventUp
<1>3. \A k, i : (FakeUp(fakes', k, i) <=> FakeUp(fakes, k, i)) /\ (PassedOn(k)' <=> PassedOn(k))
  BY DEF FakeUp, PassedOn
<1>. QED  BY <1>2, <1>3 DEF Lifting, CoreEnds, FakesEnd, ReplayEnds, SeqEnds

\* A keyboard comes or goes; no key of its is down.
LEMMA LiftingHotplug ==
  ASSUME TypeOK, Lifting, pc # "exit", NEW d \in Keyboards,
         Plug(d) \/ Unplug(d) \/ Detach(d) \/ Reattach(d), UNCHANGED mainVars
  PROVE  Lifting'
<1>1. UNCHANGED <<core, held, fakes, devs, replay, seqbuf, down, maybe, floating, pc, stale>>
  BY DEF Plug, Unplug, Detach, Reattach, Hotplug, mainVars
<1>2. \A c \in Keyboards \ detached : held[c] # {} => c \notin detached'
  BY DEF Plug, Unplug, Detach, Reattach
<1>3. PICK r \in Seq(HierEvent) : events' = events \o r
  BY HotplugReports
<1>4. \A i \in DOMAIN events : i \in DOMAIN events' /\ events'[i] = events[i]
  BY <1>3 DEF TypeOK, XTypeOK
<1>5. \A k : EventUp(k) => EventUp(k)'
  BY <1>1, <1>4 DEF EventUp, Released
<1>6. \A k, i : (FakeUp(fakes', k, i) <=> FakeUp(fakes, k, i)) /\ (PassedOn(k)' <=> PassedOn(k))
  BY <1>1 DEF FakeUp, PassedOn
<1>7. CoreEnds'
  BY <1>1, <1>2, <1>5, <1>6 DEF Lifting, CoreEnds
<1>. QED  BY <1>1, <1>6, <1>7 DEF Lifting, FakesEnd, ReplayEnds, SeqEnds

LEMMA LiftingStep ==
  ASSUME TypeInv, Noted, Noticed, Noticed', pc = "exit" \/ Ready, Lifting, [Next]_vars
  PROVE  Lifting'
<1>. USE DEF TypeInv
<1>2. CASE User
  <2>1. UNCHANGED mainVars /\ pc' = pc
    BY <1>2 DEF User, mainVars
  <2>2. CASE pc = "exit"
    BY <2>1, <2>2 DEF Lifting
  <2>. QED  BY <1>2, <2>1, <2>2, LiftingKey, LiftingHotplug DEF User
<1>3. CASE RecvKey
  <2>1. /\ pc = "recv" /\ events # <<>> /\ UNCHANGED <<held, core, replay, devs, detached>>
        /\ Head(events).kind = "key"
    BY <1>3 DEF RecvKey, setup
  <2>2. CASE Head(events).dev \notin devs /\ events' = Tail(events)
             /\ UNCHANGED <<seqbuf, down, maybe, floating, pc, stale, fakes>>
    BY <2>1, <2>2, LiftingRead
  <2>3. CASE HandleKey(Head(events)) /\ UNCHANGED floating
    BY <2>1, <2>3, LiftingHandle
  <2>4. CASE /\ floating = NoDev /\ pc' = "grab"
             /\ UNCHANGED <<seqbuf, down, maybe, stale, events, fakes>>
    <3>1. /\ \A k, i : (FakeUp(fakes', k, i) <=> FakeUp(fakes, k, i)) /\ ~PassedOn(k)
          /\ \A k : EventUp(k)' <=> EventUp(k)
      BY <2>1, <2>4 DEF FakeUp, EventUp, Released, PassedOn
    <3>. QED  BY <2>1, <2>4, <3>1 DEF Lifting, CoreEnds, FakesEnd, ReplayEnds, SeqEnds
  <2>. QED  BY <1>3, <2>2, <2>3, <2>4 DEF RecvKey
<1>4. CASE GrabFloating
  <2>1. /\ pc # "exit" /\ events # <<>> /\ UNCHANGED <<held, core, replay, floating>>
        /\ Head(events).kind = "key" /\ HandleKey(Head(events))
    BY <1>4 DEF GrabFloating, GrabPending
  <2>. QED  BY <2>1, LiftingHandle
<1>5. CASE RecvHier
  <2>1. \A d : d # Head(events).dev => (d \in devs => d \in devs')
    BY <1>5 DEF RecvHier, AddDev, RemoveDev
  <2>. QED  BY <1>5, <2>1, LiftingRead DEF RecvHier
<1>6. CASE Quit
  BY <1>6 DEF Quit, Lifting
<1>7. CASE UNCHANGED vars
  <2>1. UNCHANGED <<core, held, detached, devs, events, down, maybe, floating, pc, stale, seqbuf, fakes, replay>>
    BY <1>7 DEF vars, srvVars, mainVars
  <2>2. /\ \A k, i : (FakeUp(fakes', k, i) <=> FakeUp(fakes, k, i)) /\ (PassedOn(k)' <=> PassedOn(k))
        /\ \A k : EventUp(k)' <=> EventUp(k)
    BY <2>1 DEF FakeUp, EventUp, Released, PassedOn
  <2>. QED  BY <2>1, <2>2 DEF Lifting, CoreEnds, FakesEnd, ReplayEnds, SeqEnds
<1>. QED
  BY <1>2, <1>3, <1>4, <1>5, <1>6, <1>7, LiftingServe, LiftingSettle, LiftingReplay
  DEF Next, Daemon

\* Once all is quiet no application sees a key stuck down, whatever keyboards
\* come and go and however far the loop and the server lag behind: what the
\* loop unpresses, passes on and types again lifts all that was pressed
\* (lib.rs:103-145).  But for two things: a keyboard must not be typed on
\* before the loop has read that it came or went, and one that comes must be
\* opened, though its keys need not all be grabbed.  The first is needed since
\* the loop drops the reports of a keyboard it does not know (lib.rs:78-82),
\* the second since one that it could not open may have grabs from before.
THEOREM NothingStuck ==
  ASSUME MaxPlugs = 0 \/ Opens
  PROVE  Spec /\ []Noticed => []NoStuckKeys
<1>. DEFINE Inv == LeaseInv /\ Noted /\ Attentive /\ (MaxPlugs = 0 => Tracked) /\ Lifting
<1>1. Init => Inv
  BY LeaseInit, NotedInit, AttentiveInit, TrackedInit, LiftingInit
<1>2. Inv /\ Noticed /\ Noticed' /\ [Next]_vars => Inv'
  <2>. SUFFICES ASSUME Inv, Noticed, Noticed', [Next]_vars PROVE Inv'
    OBVIOUS
  <2>1. LeaseInv'
    BY StepType, LeaseStep DEF LeaseInv
  <2>2. Noted' /\ Attentive' /\ (MaxPlugs = 0 => Tracked')
    BY NotedStep, AttentiveStep, TrackedStep DEF LeaseInv
  <2>3. pc = "exit" \/ Ready
    BY ReadyKeyboards DEF LeaseInv, TypeInv
  <2>4. Lifting'
    BY <2>3, LiftingStep DEF LeaseInv
  <2>. QED  BY <2>1, <2>2, <2>4
<1>3. Inv => NoStuckKeys
  <2>. SUFFICES ASSUME Inv, Quiet PROVE core = {}
    BY DEF NoStuckKeys
  <2>1. DOMAIN events = {} /\ DOMAIN fakes = {} /\ DOMAIN replay = {} /\ devs \subseteq Keyboards
    BY DEF Quiet, LeaseInv, TypeInv, TypeOK
  <2>2. down = {}
    BY <2>1 DEF Quiet, Noted, DownEnds, Released
  <2>. QED  BY <2>1, <2>2 DEF Quiet, Lifting, CoreEnds, EventUp, Released, FakeUp, Up
<1>. QED  BY <1>1, <1>2, <1>3, PTL DEF Spec

\* With any number of keyboards that stay that needs nothing of the user.
COROLLARY NothingStuckInPlace == ASSUME MaxPlugs = 0 PROVE Spec => []NoStuckKeys
  BY InPlace, NothingStuck, PTL
==============================================================================
