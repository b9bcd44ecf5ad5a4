----------------------------- MODULE XdoProofs -----------------------------
(***************************************************************************)
(* What holds of Xdo for every keyboard, every set of spare keycodes and   *)
(* every configuration: the types; that the server maps the spare keycodes *)
(* as kseqi remembers it; that no key is left down, nor replayed amid an   *)
(* action, if no `key` needs two spare keycodes; that actions are begun in *)
(* the order they were asked for; that each key is read as the symbol it   *)
(* was typed for; and that Xdo implements Typist.                          *)
(***************************************************************************)
EXTENDS Xdo, FiniteSetTheorems, WellFoundedInduction, TLAPS

Symbols == Syms \cup {NoSym}
Memory  == [sym: Symbols, code: SpareCodes]
Kmaps   == [SpareCodes -> Symbols]
Msgs    == {MappingNotify} \cup
             [kind: {"press"}, code: Codes, shift: BOOLEAN, want: Symbols]
Servers == [kmap: Kmaps, pressed: SUBSET (Codes \cup Buttons), inbox: Seq(Msgs)]

\* What acting may be.
Runs == {a \in RunAct : a.kind = "mouse" => a.n \in Buttons}

\* mut_syms lists every spare keycode, once.
Lists(m) ==
  /\ m \in Seq(Memory) /\ Len(m) = Len(Spare)
  /\ \A c \in SpareCodes : \E i \in 1 .. Len(m) : m[i].code = c
  /\ \A i, j \in 1 .. Len(m) : m[i].code = m[j].code => i = j

\* The server maps them as it says; or a new keyboard has taken some away.
Agrees(m, k, exact) ==
  \A i \in 1 .. Len(m) : k[m[i].code] = m[i].sym \/ (~exact /\ k[m[i].code] = NoSym)

Good(m, d, exact) == Lists(m) /\ d \in Servers /\ Agrees(m, d.kmap, exact)

-----------------------------------------------------------------------------
(* Requests and find_sym *)

LEMMA SpareSome == Len(Spare) \in Nat \ {0} /\ Spare \in Seq(SpareCodes)
  BY XdoAssumption

LEMMA PlaceGood ==
  ASSUME NEW m, Lists(m), NEW i \in 1 .. Len(m)
  PROVE  m[i] \in Memory /\ m[i].code \in SpareCodes
<1>1. m[i] \in Memory
  BY DEF Lists
<1>. QED  BY <1>1 DEF Memory

LEMMA RemapGood ==
  ASSUME NEW d \in Servers, NEW c \in SpareCodes, NEW s \in Symbols
  PROVE  /\ Remap(d, c, s) \in Servers
         /\ Remap(d, c, s).kmap = [d.kmap EXCEPT ![c] = s]
<1>1. Remap(d, c, s) = [kmap |-> [d.kmap EXCEPT ![c] = s], pressed |-> d.pressed,
                        inbox |-> Append(d.inbox, MappingNotify)]
  BY DEF Remap
<1>2. [d.kmap EXCEPT ![c] = s] \in Kmaps
  BY DEF Servers, Kmaps
<1>3. Append(d.inbox, MappingNotify) \in Seq(Msgs)
  BY DEF Servers, Msgs
<1>. QED  BY <1>1, <1>2, <1>3 DEF Servers

LEMMA FakeKeyGood ==
  ASSUME NEW d \in Servers, NEW c \in Codes, NEW press \in BOOLEAN, NEW want \in Symbols
  PROVE  /\ FakeKey(d, c, press, want) \in Servers
         /\ FakeKey(d, c, press, want).kmap = d.kmap
<1>1. CASE press
  <2>1. FakeKey(d, c, press, want) =
          [kmap |-> d.kmap, pressed |-> d.pressed \cup {c},
           inbox |-> Append(d.inbox, Press(c, ShiftKey \in d.pressed, want))]
    BY <1>1 DEF FakeKey, Servers
  <2>2. Press(c, ShiftKey \in d.pressed, want) \in Msgs
    BY DEF Press, Msgs
  <2>. QED  BY <2>1, <2>2 DEF Servers
<1>2. CASE ~press
  BY <1>2 DEF FakeKey, Servers
<1>. QED  BY <1>1, <1>2

LEMMA FakeButtonGood ==
  ASSUME NEW d \in Servers, NEW b \in Buttons, NEW press \in BOOLEAN
  PROVE  /\ FakeButton(d, b, press) \in Servers
         /\ FakeButton(d, b, press).kmap = d.kmap
  BY DEF FakeButton, Servers

\* find_sym turns the list round by one and changes its front.
LEMMA FindSymGood ==
  ASSUME NEW m, NEW d, NEW exact \in BOOLEAN, Good(m, d, exact), NEW s \in Syms
  PROVE  LET f == FindSym(s, m, d)
         IN f.code \in Codes /\ Good(f.mut, f.dpy, exact)
<1>. DEFINE f == FindSym(s, m, d)
<1>0. Len(m) \in Nat \ {0} /\ m \in Seq(Memory)
  BY SpareSome DEF Good, Lists
<1>1. CASE s \in DOMAIN Layout
  BY <1>1 DEF FindSym, Found, Codes
<1>2. CASE s \notin DOMAIN Layout /\ Head(m).sym = s
  <2>1. f = Found(Head(m).code, "Old", m, d)
    BY <1>2 DEF FindSym
  <2>2. Head(m) \in Memory
    BY <1>0
  <2>. QED  BY <2>1, <2>2 DEF Found, Codes, Memory
<1>3. CASE s \notin DOMAIN Layout /\ Head(m).sym # s
  <2>. DEFINE n == Len(m)
              r == Append(Tail(m), Head(m))
              c == Head(r).code
              t == [r EXCEPT ![1].sym = s]
  <2>1. f = Found(c, "New", t, Remap(d, c, s))
    BY <1>3 DEF FindSym
  <2>2. r \in Seq(Memory) /\ Len(r) = n /\ Head(r) = r[1] /\ r[1] \in Memory
    <3>1. Head(m) \in Memory /\ Tail(m) \in Seq(Memory) /\ Len(Tail(m)) = n - 1
      BY <1>0
    <3>2. r \in Seq(Memory) /\ Len(r) = n
      BY <1>0, <3>1
    <3>. QED  BY <1>0, <3>2
  <2>3. \A i \in 1 .. n : r[i] = m[IF i < n THEN i + 1 ELSE 1]
    BY <1>0
  <2>4. c \in SpareCodes /\ c = r[1].code
    BY <2>2 DEF Memory
  <2>. HIDE DEF r
  <2>5. t = [r EXCEPT ![1] = [sym |-> s, code |-> c]]
    <3>1. [r[1] EXCEPT !.sym = s] = [sym |-> s, code |-> c]
      BY <2>2, <2>4 DEF Memory
    <3>. QED  BY <3>1
  <2>6. [sym |-> s, code |-> c] \in Memory
    BY <2>4 DEF Memory, Symbols
  <2>7. t \in Seq(Memory) /\ Len(t) = n /\ t[1] = [sym |-> s, code |-> c]
        /\ \A i \in 2 .. n : t[i] = r[i]
    BY <1>0, <2>2, <2>5, <2>6
  <2>. HIDE DEF t, c
  <2>8. \A i \in 1 .. n : t[i].code = m[IF i < n THEN i + 1 ELSE 1].code
    BY <1>0, <2>3, <2>4, <2>7
  <2>9. \A e \in SpareCodes : \E i \in 1 .. n : t[i].code = e
    <3>. SUFFICES ASSUME NEW e \in SpareCodes PROVE \E i \in 1 .. n : t[i].code = e
      OBVIOUS
    <3>1. PICK j \in 1 .. n : m[j].code = e
      BY DEF Good, Lists
    <3>2. CASE j = 1
      BY <1>0, <2>8, <3>1, <3>2
    <3>3. CASE j # 1
      <4>1. j - 1 \in 1 .. n /\ j - 1 < n /\ (j - 1) + 1 = j
        BY <1>0, <3>3
      <4>. QED  BY <2>8, <3>1, <4>1
    <3>. QED  BY <3>2, <3>3
  <2>10. \A i, j \in 1 .. n : t[i].code = t[j].code => i = j
    <3>. SUFFICES ASSUME NEW i \in 1 .. n, NEW j \in 1 .. n, t[i].code = t[j].code PROVE i = j
      OBVIOUS
    <3>. DEFINE p(x) == IF x < n THEN x + 1 ELSE 1
    <3>1. p(i) \in 1 .. n /\ p(j) \in 1 .. n
      BY <1>0
    <3>2. m[p(i)].code = m[p(j)].code
      BY <2>8
    <3>3. p(i) = p(j)
      <4>. HIDE DEF p
      <4>. QED  BY <3>1, <3>2 DEF Good, Lists
    <3>. QED  BY <1>0, <3>3
  <2>11. Lists(t)
    BY <2>7, <2>9, <2>10 DEF Good, Lists
  <2>12. Remap(d, c, s) \in Servers /\ Remap(d, c, s).kmap = [d.kmap EXCEPT ![c] = s]
    BY <2>4, RemapGood DEF Good, Symbols
  <2>13. d.kmap \in Kmaps
    BY DEF Good, Servers
  <2>14. Agrees(t, [d.kmap EXCEPT ![c] = s], exact)
    <3>. SUFFICES ASSUME NEW i \in 1 .. n
                  PROVE LET k == [d.kmap EXCEPT ![c] = s]
                        IN k[t[i].code] = t[i].sym \/ (~exact /\ k[t[i].code] = NoSym)
      BY <2>7 DEF Agrees
    <3>1. CASE i = 1
      BY <2>4, <2>7, <2>13, <3>1 DEF Kmaps
    <3>2. CASE i # 1
      <4>1. t[i] = r[i] /\ 1 \in 1 .. n
        BY <1>0, <2>7, <3>2
      <4>2. t[i].code # t[1].code
        BY <2>10, <3>2, <4>1
      <4>3. t[i].code # c
        BY <2>7, <4>2
      <4>4. PICK j \in 1 .. n : r[i] = m[j]
        BY <1>0, <2>3
      <4>5. m[j] \in Memory
        BY <1>0
      <4>6. d.kmap[m[j].code] = m[j].sym \/ (~exact /\ d.kmap[m[j].code] = NoSym)
        BY DEF Good, Agrees
      <4>. QED  BY <2>13, <4>1, <4>3, <4>4, <4>5, <4>6 DEF Kmaps, Memory
    <3>. QED  BY <3>1, <3>2
  <2>15. c \in Codes
    BY <2>4 DEF Codes
  <2>16. f.code = c /\ f.mut = t /\ f.dpy = Remap(d, c, s)
    BY <2>1 DEF Found
  <2>. QED  BY <2>11, <2>12, <2>14, <2>15, <2>16 DEF Good
<1>. QED  BY <1>1, <1>2, <1>3

-----------------------------------------------------------------------------
(* RunAct::proc *)

Outcome(r, exact) == r.act \in Runs \cup {NoAct} /\ Good(r.mut, r.dpy, exact)

LEMMA KeyGood ==
  ASSUME NEW m, NEW d, NEW exact \in BOOLEAN, Good(m, d, exact),
         NEW c \in Codes, NEW press \in BOOLEAN, NEW want \in Symbols
  PROVE  Good(m, FakeKey(d, c, press, want), exact)
  BY FakeKeyGood DEF Good

LEMMA RunTextGood ==
  ASSUME NEW m, NEW d, NEW exact \in BOOLEAN, Good(m, d, exact), NEW a \in Runs
  PROVE  Outcome(RunText(a, m, d), exact)
<1>. DEFINE s == a.syms[a.index]
            f == FindSym(s, m, d)
<1>0. /\ a.syms \in Seq(Syms) /\ a.index \in Nat \ {0} /\ a.pressing \in BOOLEAN
      /\ a.index <= Len(a.syms) => s \in Syms /\ s \in Symbols
  BY DEF Runs, RunAct, Symbols
<1>1. CASE a.index > Len(a.syms)
  BY <1>1 DEF RunText, Finished, Going, Outcome
<1>2. CASE ~(a.index > Len(a.syms))
  <2>0. s \in Syms /\ s \in Symbols
    BY <1>0, <1>2
  <2>1. f.code \in Codes /\ Good(f.mut, f.dpy, exact)
    BY <2>0, FindSymGood
  <2>2. ShiftKey \in Codes /\ NoSym \in Symbols
    BY DEF Codes, Symbols
  <2>3. [a EXCEPT !.shifted = a.pressing] \in Runs
    BY DEF Runs, RunAct
  <2>4. [a EXCEPT !.pressing = ~@, !.index = IF a.pressing THEN @ ELSE @ + 1] \in Runs
    <3>1. \A p \in BOOLEAN, i \in Nat \ {0} : [a EXCEPT !.pressing = p, !.index = i] \in Runs
      BY DEF Runs, RunAct
    <3>2. (IF a.pressing THEN a.index ELSE a.index + 1) \in Nat \ {0}
      BY <1>0
    <3>3. (~a.pressing) \in BOOLEAN
      OBVIOUS
    <3>. QED  BY <3>1, <3>2, <3>3
  <2>. DEFINE shift == FakeKey(f.dpy, ShiftKey, a.pressing, NoSym)
              key   == FakeKey(f.dpy, f.code, a.pressing, s)
  <2>5. Good(f.mut, shift, exact) /\ Good(f.mut, key, exact)
    BY <1>0, <2>0, <2>1, <2>2, KeyGood
  <2>6. RunText(a, m, d) =
          IF f.group = "New" THEN Going(a, f.mut, f.dpy)
          ELSE IF f.group = "Shift" /\ a.pressing # a.shifted
            THEN Going([a EXCEPT !.shifted = a.pressing], f.mut, shift)
          ELSE Going([a EXCEPT !.pressing = ~@, !.index = IF a.pressing THEN @ ELSE @ + 1],
                     f.mut, key)
    BY <1>2 DEF RunText
  <2>. HIDE DEF s, f, shift, key
  <2>. QED  BY <2>1, <2>3, <2>4, <2>5, <2>6 DEF Going, Outcome
<1>. QED  BY <1>1, <1>2

LEMMA RunKeysGood ==
  ASSUME NEW m, NEW d, NEW exact \in BOOLEAN, Good(m, d, exact), NEW a \in Runs
  PROVE  Outcome(RunKeys(a, m, d), exact)
<1>. DEFINE turn  == a.pressing /\ a.index > Len(a.syms)
            index == IF turn THEN 1 ELSE a.index
            press == a.pressing /\ ~turn
            s     == a.syms[index]
            f     == FindSym(s, m, d)
            b     == [a EXCEPT !.index = index, !.pressing = press]
            c     == [b EXCEPT !.index = @ + 1]
            key   == FakeKey(f.dpy, f.code, press, s)
<1>0. a.syms \in Seq(Syms) /\ a.index \in Nat \ {0} /\ a.pressing \in BOOLEAN
  BY DEF Runs, RunAct
<1>1. index \in Nat \ {0} /\ press \in BOOLEAN
  BY <1>0
<1>2. RunKeys(a, m, d) =
        IF index > Len(a.syms) THEN Finished(m, d)
        ELSE IF f.group = "New" THEN Going(b, f.mut, f.dpy) ELSE Going(c, f.mut, key)
  BY DEF RunKeys
<1>3. CASE index > Len(a.syms)
  BY <1>2, <1>3 DEF Finished, Going, Outcome
<1>4. CASE ~(index > Len(a.syms))
  <2>1. s \in Syms /\ s \in Symbols
    BY <1>0, <1>1, <1>4 DEF Symbols
  <2>2. f.code \in Codes /\ Good(f.mut, f.dpy, exact)
    BY <2>1, FindSymGood
  <2>3. Good(f.mut, key, exact)
    BY <1>1, <2>1, <2>2, KeyGood
  <2>4. b \in Runs /\ b.index = index
    <3>. HIDE DEF index, press
    <3>. QED  BY <1>1 DEF Runs, RunAct
  <2>5. c \in Runs
    <3>. HIDE DEF b
    <3>. QED  BY <1>1, <2>4 DEF Runs, RunAct
  <2>. HIDE DEF index, f, b, c, key
  <2>. QED  BY <1>2, <1>4, <2>2, <2>3, <2>4, <2>5 DEF Going, Outcome
<1>. QED  BY <1>3, <1>4

LEMMA RunGood ==
  ASSUME NEW m, NEW d, NEW exact \in BOOLEAN, Good(m, d, exact), NEW a \in Runs
  PROVE  Outcome(Run(a, m, d), exact)
<1>1. CASE a.kind = "text"
  BY <1>1, RunTextGood DEF Run
<1>2. CASE a.kind = "keys"
  BY <1>2, RunKeysGood DEF Run
<1>3. CASE a.kind = "mouse"
  <2>1. a.n \in Buttons /\ a.pressing \in BOOLEAN
    BY <1>3 DEF Runs, RunAct
  <2>2. Good(m, FakeButton(d, a.n, a.pressing), exact)
    BY <2>1, FakeButtonGood DEF Good
  <2>3. [a EXCEPT !.pressing = FALSE] \in Runs
    BY DEF Runs, RunAct
  <2>4. Run(a, m, d) = RunClick(a, m, d)
    BY <1>3 DEF Run
  <2>. QED  BY <2>2, <2>3, <2>4 DEF RunClick, Going, Finished, Outcome
<1>. QED  BY <1>1, <1>2, <1>3 DEF Runs, RunAct

-----------------------------------------------------------------------------
(* The invariant *)

QueuesTyped == {acts, lastAdd, did} \subseteq Seq(Actions) /\ replay \in Seq(KeyChange)

\* The types; and whatever the spare keycodes of mut_syms are said to mean is
\* what the server has, unless a new keyboard has taken it away, and after the
\* end they mean nothing.
XInv ==
  /\ QueuesTyped
  /\ paused \in BOOLEAN /\ running \in BOOLEAN /\ replug \in BOOLEAN /\ loosed \in BOOLEAN
  /\ acting \in Runs \cup {NoAct}
  /\ Lists(mutSyms) /\ dpy \in Servers /\ appMap \in Kmaps
  /\ running => Agrees(mutSyms, dpy.kmap, ~replug)
  /\ ~running => \A c \in SpareCodes : dpy.kmap[c] = NoSym

LEMMA InitXInv == Init => XInv
<1>. SUFFICES ASSUME Init PROVE XInv
  OBVIOUS
<1>1. Len(Spare) \in Nat /\ DOMAIN Spare = 1 .. Len(Spare) /\ SpareCodes = ToSet(Spare)
  BY SpareSome DEF SpareCodes
<1>2. \A i \in 1 .. Len(Spare) : Spare[i] \in SpareCodes
  BY SpareSome
<1>3. \A i \in 1 .. Len(Spare) : [sym |-> NoSym, code |-> Spare[i]] \in Memory
  BY <1>2 DEF Memory, Symbols
<1>4. NewSymCode \in Seq(Memory) /\ Len(NewSymCode) = Len(Spare)
      /\ \A i \in 1 .. Len(Spare) : NewSymCode[i] = [sym |-> NoSym, code |-> Spare[i]]
  BY <1>1, <1>3 DEF NewSymCode
<1>4a. \A i \in 1 .. Len(Spare) : NewSymCode[i].code = Spare[i] /\ NewSymCode[i].sym = NoSym
  BY <1>1 DEF NewSymCode
<1>5. \A c \in SpareCodes : \E i \in 1 .. Len(Spare) : Spare[i] = c
  BY <1>1 DEF ToSet
<1>6. \A i, j \in 1 .. Len(Spare) : Spare[i] = Spare[j] => i = j
  <2>1. Spare \in Surjection(1 .. Len(Spare), SpareCodes)
    <3>1. Spare \in [1 .. Len(Spare) -> SpareCodes]
      BY SpareSome
    <3>. QED  BY <1>5, <3>1 DEF Surjection
  <2>2. IsFiniteSet(1 .. Len(Spare)) /\ Cardinality(1 .. Len(Spare)) = Len(Spare)
    BY <1>1, SpareSome, FS_Interval
  <2>3. Spare \in Injection(1 .. Len(Spare), SpareCodes)
    BY <2>1, <2>2, FS_Surjection, XdoAssumption
  <2>. QED  BY <2>3 DEF Injection, IsInjective
<1>7. Lists(NewSymCode)
  <2>. HIDE DEF NewSymCode
  <2>. QED  BY <1>4, <1>4a, <1>5, <1>6 DEF Lists
<1>8. dpy \in Servers /\ appMap \in Kmaps /\ \A c \in SpareCodes : dpy.kmap[c] = NoSym
  BY DEF Init, Servers, Kmaps, Symbols
<1>9. \A exact : Agrees(NewSymCode, dpy.kmap, exact)
  BY <1>2, <1>4, <1>4a, <1>8 DEF Agrees
<1>10. mutSyms = NewSymCode /\ running = TRUE
  BY DEF Init
<1>11. Lists(mutSyms) /\ Agrees(mutSyms, dpy.kmap, ~replug)
  BY <1>7, <1>9, <1>10
<1>12. QueuesTyped /\ paused \in BOOLEAN /\ replug \in BOOLEAN /\ loosed \in BOOLEAN /\ acting = NoAct
  <2>1. acts = <<>> /\ lastAdd = <<>> /\ did = <<>> /\ replay = <<>>
    BY DEF Init
  <2>2. <<>> \in Seq(Actions) /\ <<>> \in Seq(KeyChange)
    OBVIOUS
  <2>. QED  BY <2>1, <2>2 DEF Init, QueuesTyped
<1>. QED  BY <1>8, <1>10, <1>11, <1>12 DEF XInv

\* A step of an action, begun or in progress.
LEMMA ActGood ==
  ASSUME NEW m, NEW d, NEW exact \in BOOLEAN, Good(m, d, exact), NEW a \in Runs,
         NEW pause \in BOOLEAN, Act(a, m, d, pause)
  PROVE  /\ acting' \in Runs \cup {NoAct} /\ paused' \in BOOLEAN
         /\ Good(mutSyms', dpy', exact)
  BY RunGood DEF Act, Outcome

LEMMA BegunGood ==
  ASSUME NEW a \in Actions, ~AtOnce(a)
  PROVE  Begun(a) \in Runs
<1>1. a.kind \in {"text", "keys", "mouse"} /\ a.syms \in Seq(Syms) /\ a.n \in Nat
  BY XdoAssumption DEF AtOnce, ActionKinds
<1>2. a.kind = "mouse" => a.n \in Buttons
  BY DEF Buttons
<1>. QED  BY <1>1, <1>2 DEF Begun, Runs, RunAct

LEMMA BeginGood ==
  ASSUME XInv, NEW m, NEW d, NEW exact \in BOOLEAN, Good(m, d, exact), Begin(m, d)
  PROVE  /\ {acts', did'} \subseteq Seq(Actions) /\ replay' = replay
         /\ acting' \in Runs \cup {NoAct} /\ paused' \in BOOLEAN
         /\ Good(mutSyms', dpy', exact)
<1>1. PICK n \in 0 .. Len(acts) :
         /\ acts' = SubSeq(acts, n + 1, Len(acts))
         /\ did' = did \o SubSeq(acts, 1, n)
         /\ IF Slow(n) THEN Act(Begun(acts[n]), m, d, FALSE)
                       ELSE acting' = NoAct /\ mutSyms' = m /\ dpy' = d /\ paused' = FALSE
  BY DEF Begin
<1>2. acts \in Seq(Actions) /\ did \in Seq(Actions) /\ Len(acts) \in Nat
  BY DEF XInv, QueuesTyped
<1>3. SubSeq(acts, 1, n) \in Seq(Actions) /\ SubSeq(acts, n + 1, Len(acts)) \in Seq(Actions)
  BY <1>2
<1>4. acts' \in Seq(Actions) /\ did' \in Seq(Actions)
  BY <1>1, <1>2, <1>3
<1>5. CASE Slow(n)
  <2>1. acts[n] \in Actions /\ ~AtOnce(acts[n])
    BY <1>2, <1>5 DEF Slow
  <2>2. Begun(acts[n]) \in Runs
    BY <2>1, BegunGood
  <2>. QED  BY <1>1, <1>4, <1>5, <2>2, ActGood DEF Begin
<1>6. CASE ~Slow(n)
  BY <1>1, <1>4, <1>6 DEF Begin
<1>. QED  BY <1>5, <1>6

LEMMA ProcXInv == XInv /\ Proc => XInv'
<1>. SUFFICES ASSUME XInv, Proc PROVE XInv'
  OBVIOUS
<1>. DEFINE r == IF acting = NoAct THEN Finished(mutSyms, dpy) ELSE Run(acting, mutSyms, dpy)
<1>0. running /\ UNCHANGED <<lastAdd, appMap, running, replug, loosed>>
  BY DEF Proc, histVars
<1>1. Good(mutSyms, dpy, ~replug)
  BY <1>0 DEF XInv, Good
<1>2. Outcome(r, ~replug)
  <2>1. CASE acting = NoAct
    BY <1>1, <2>1 DEF Finished, Going, Outcome
  <2>2. CASE acting # NoAct
    BY <1>1, <2>2, RunGood DEF XInv
  <2>. QED  BY <2>1, <2>2
<1>3. \/ acting # NoAct /\ Act(acting, mutSyms, dpy, TRUE) /\ UNCHANGED <<acts, replay, did>>
      \/ Replay(r.dpy) /\ mutSyms' = r.mut
      \/ Begin(r.mut, r.dpy)
  BY DEF Proc, Finished, Going
<1>. HIDE DEF r
<1>4. /\ QueuesTyped' /\ acting' \in Runs \cup {NoAct} /\ paused' \in BOOLEAN
      /\ Good(mutSyms', dpy', ~replug)
  <2>1. CASE acting # NoAct /\ Act(acting, mutSyms, dpy, TRUE) /\ UNCHANGED <<acts, replay, did>>
    <3>1. acting \in Runs
      BY <2>1 DEF XInv
    <3>. QED  BY <1>0, <1>1, <2>1, <3>1, ActGood DEF XInv, QueuesTyped
  <2>2. CASE Replay(r.dpy) /\ mutSyms' = r.mut
    <3>1. replay \in Seq(KeyChange) /\ replay # <<>> /\ Head(replay) \in KeyChange
          /\ Tail(replay) \in Seq(KeyChange)
      BY <2>2 DEF Replay, XInv, QueuesTyped
    <3>2. Head(replay).code \in Codes /\ Head(replay).press \in BOOLEAN /\ NoSym \in Symbols
      BY <3>1 DEF KeyChange, Symbols
    <3>3. Good(r.mut, FakeKey(r.dpy, Head(replay).code, Head(replay).press, NoSym), ~replug)
      BY <1>2, <3>2, KeyGood DEF Outcome
    <3>. QED  BY <1>0, <2>2, <3>1, <3>3 DEF Replay, XInv, QueuesTyped
  <2>3. CASE Begin(r.mut, r.dpy)
    BY <1>0, <1>2, <2>3, BeginGood DEF Outcome, XInv, QueuesTyped
  <2>. QED  BY <1>3, <2>1, <2>2, <2>3
<1>. QED  BY <1>0, <1>4 DEF XInv, Good

-----------------------------------------------------------------------------
(* What Main calls, and the world *)

LEMMA RepeatedGood ==
  ASSUME lastAdd \in Seq(Actions), NEW n \in Nat
  PROVE  Repeated(n) \in Seq(Actions)
<1>. DEFINE L == Len(lastAdd)
<1>1. L \in Nat /\ \A j \in 1 .. L : lastAdd[j] \in Actions
  OBVIOUS
<1>2. n * L \in Nat
  BY <1>1
<1>3. ASSUME NEW i \in 1 .. n * L PROVE lastAdd[((i - 1) % L) + 1] \in Actions
  <2>1. L # 0
    BY <1>1, <1>3
  <2>2. ((i - 1) % L) \in 0 .. L - 1
    BY <1>1, <1>2, <2>1
  <2>3. ((i - 1) % L) + 1 \in 1 .. L
    BY <1>1, <2>2
  <2>. QED  BY <1>1, <2>3
<1>. QED  BY <1>2, <1>3 DEF Repeated

LEMMA AddActsGood ==
  ASSUME QueuesTyped, NEW l \in Lines, AddActs(l)
  PROVE  {acts', lastAdd'} \subseteq Seq(Actions)
<1>1. l \in Seq(Actions) /\ l # <<>> /\ Head(l) \in Actions /\ Tail(l) \in Seq(Actions)
  BY XdoAssumption
<1>2. acts \in Seq(Actions) /\ lastAdd \in Seq(Actions) /\ Head(l).n \in Nat
  BY <1>1, XdoAssumption DEF QueuesTyped
<1>3. Repeated(Head(l).n) \in Seq(Actions)
  BY <1>2, RepeatedGood
<1>4. acts \o Repeated(Head(l).n) \o Tail(l) \in Seq(Actions) /\ acts \o l \in Seq(Actions)
  BY <1>1, <1>2, <1>3
<1>5. \/ acts' = acts \o Repeated(Head(l).n) \o Tail(l) /\ lastAdd' = lastAdd
      \/ acts' = acts \o l /\ lastAdd' = l
  BY DEF AddActs
<1>. QED  BY <1>1, <1>2, <1>4, <1>5

LEMMA UnpressGood ==
  ASSUME dpy \in Servers, loosed \in BOOLEAN, Unpress
  PROVE  dpy' \in Servers /\ dpy'.kmap = dpy.kmap /\ loosed' \in BOOLEAN
  BY DEF Unpress, Servers

LEMMA InUseCounts == ASSUME Lists(mutSyms) PROVE Cardinality(InUse) \in Nat
<1>1. mutSyms \in Seq(Memory) /\ Len(mutSyms) \in Nat
  BY DEF Lists
<1>2. mutSyms \in Surjection(1 .. Len(mutSyms), ToSet(mutSyms))
  BY <1>1 DEF Surjection, ToSet
<1>3. IsFiniteSet(1 .. Len(mutSyms))
  BY <1>1, FS_Interval
<1>4. IsFiniteSet(ToSet(mutSyms))
  BY <1>2, <1>3, FS_Surjection
<1>5. IsFiniteSet(InUse)
  BY <1>4, FS_Subset DEF InUse
<1>. QED  BY <1>5, FS_CardinalityType

\* Mapping several keycodes anew.
LEMMA RemapAllGood ==
  ASSUME Lists(mutSyms), dpy \in Servers, NEW kmap \in Kmaps
  PROVE  RemapAll(kmap) \in Servers /\ RemapAll(kmap).kmap = kmap
<1>3. Cardinality(InUse) \in Nat
  BY InUseCounts
<1>. DEFINE more == [i \in 1 .. Cardinality(InUse) |-> MappingNotify]
<1>4. more \in Seq(Msgs)
  BY <1>3 DEF Msgs
<1>. HIDE DEF more
<1>5. dpy.inbox \o more \in Seq(Msgs) /\ dpy.pressed \in SUBSET (Codes \cup Buttons)
  BY <1>4 DEF Servers
<1>6. RemapAll(kmap) = [kmap |-> kmap, pressed |-> dpy.pressed, inbox |-> dpy.inbox \o more]
  BY DEF RemapAll, more
<1>. QED  BY <1>5, <1>6 DEF Servers

\* What is in use, by its place in mut_syms.
LEMMA InUsePlaces ==
  ASSUME Lists(mutSyms)
  PROVE  /\ \A i \in 1 .. Len(mutSyms) : mutSyms[i].sym # NoSym => mutSyms[i] \in InUse
         /\ \A m \in InUse : \E i \in 1 .. Len(mutSyms) : m = mutSyms[i] /\ m.sym # NoSym
         /\ InUse \subseteq Memory
  BY DEF InUse, ToSet, Lists

\* affirm maps every spare keycode in use to its symbol.
LEMMA AffirmGood ==
  ASSUME Lists(mutSyms), dpy \in Servers, Agrees(mutSyms, dpy.kmap, FALSE)
  PROVE  Affirm \in Servers /\ Agrees(mutSyms, Affirm.kmap, TRUE)
<1>. DEFINE named(c) == CHOOSE m \in InUse : m.code = c
            kmap     == [c \in SpareCodes |-> IF \E m \in InUse : m.code = c
                                                THEN named(c).sym ELSE dpy.kmap[c]]
<1>1. ASSUME NEW c, \E m \in InUse : m.code = c PROVE named(c) \in InUse /\ named(c).code = c
  BY <1>1
<1>. HIDE DEF named
<1>2. kmap \in Kmaps
  BY <1>1, InUsePlaces DEF Servers, Kmaps, Memory
<1>3. Affirm = RemapAll(kmap)
  BY DEF Affirm, named
<1>4. Affirm \in Servers /\ Affirm.kmap = kmap
  BY <1>2, <1>3, RemapAllGood
<1>5. ASSUME NEW i \in 1 .. Len(mutSyms) PROVE kmap[mutSyms[i].code] = mutSyms[i].sym
  <2>. DEFINE c == mutSyms[i].code
  <2>1. c \in SpareCodes
    BY PlaceGood
  <2>2. CASE mutSyms[i].sym # NoSym
    <3>1. mutSyms[i] \in InUse
      BY <2>2, InUsePlaces
    <3>2. named(c) \in InUse /\ named(c).code = c
      BY <1>1, <3>1
    <3>3. PICK j \in 1 .. Len(mutSyms) : named(c) = mutSyms[j]
      BY <3>2, InUsePlaces
    <3>4. i = j
      BY <3>2, <3>3 DEF Lists
    <3>. QED  BY <2>1, <3>1, <3>3, <3>4
  <2>3. CASE mutSyms[i].sym = NoSym
    <3>1. ~ \E m \in InUse : m.code = c
      <4>. SUFFICES ASSUME NEW m \in InUse, m.code = c PROVE FALSE
        OBVIOUS
      <4>1. PICK j \in 1 .. Len(mutSyms) : m = mutSyms[j] /\ m.sym # NoSym
        BY InUsePlaces
      <4>2. i = j
        BY <4>1 DEF Lists
      <4>. QED  BY <2>3, <4>1, <4>2
    <3>. QED  BY <2>1, <2>3, <3>1 DEF Agrees
  <2>. QED  BY <2>2, <2>3
<1>. HIDE DEF kmap
<1>. QED  BY <1>4, <1>5 DEF Agrees

LEMMA QuitGood ==
  ASSUME Lists(mutSyms), dpy \in Servers, Agrees(mutSyms, dpy.kmap, FALSE), Quit
  PROVE  dpy' \in Servers /\ \A c \in SpareCodes : dpy'.kmap[c] = NoSym
<1>. DEFINE kmap == [c \in SpareCodes |-> IF \E m \in InUse : m.code = c THEN NoSym ELSE dpy.kmap[c]]
<1>1. kmap \in Kmaps
  BY DEF Servers, Kmaps, Symbols
<1>2. dpy' = RemapAll(kmap)
  BY DEF Quit
<1>3. dpy' \in Servers /\ dpy'.kmap = kmap
  BY <1>1, <1>2, RemapAllGood
<1>4. ASSUME NEW c \in SpareCodes PROVE kmap[c] = NoSym
  <2>1. PICK i \in 1 .. Len(mutSyms) : mutSyms[i].code = c
    BY DEF Lists
  <2>2. CASE mutSyms[i].sym # NoSym
    BY <2>1, <2>2, InUsePlaces
  <2>3. CASE mutSyms[i].sym = NoSym
    BY <2>1, <2>3 DEF Agrees
  <2>. QED  BY <2>2, <2>3
<1>. HIDE DEF kmap
<1>. QED  BY <1>3, <1>4

LEMMA NextXInv == XInv /\ [Next]_vars => XInv'
<1>. SUFFICES ASSUME XInv, [Next]_vars PROVE XInv'
  OBVIOUS
<1>0. running => Agrees(mutSyms, dpy.kmap, FALSE)
  BY DEF XInv, Agrees
<1>1. CASE Proc
  BY <1>1, ProcXInv
<1>2. CASE Elapse
  BY <1>2 DEF XInv, Elapse, QueuesTyped, queueVars, histVars
<1>3. ASSUME NEW l \in Lines, Recognise(l) PROVE XInv'
  <2>1. {acts', lastAdd'} \subseteq Seq(Actions)
    BY <1>3, AddActsGood DEF Recognise, XInv
  <2>2. dpy' \in Servers /\ dpy'.kmap = dpy.kmap /\ loosed' \in BOOLEAN
    BY <1>3, UnpressGood DEF Recognise, XInv
  <2>. QED  BY <1>3, <2>1, <2>2 DEF Recognise, XInv, QueuesTyped
<1>4. CASE NotRecognise
  <2>1. replay' \in Seq(KeyChange)
    <3>1. replay \in Seq(KeyChange) /\ \A s \in Unmatched : replay \o s \in Seq(KeyChange)
      BY XdoAssumption DEF XInv, QueuesTyped
    <3>. QED  BY <1>4, <3>1 DEF NotRecognise, AddUnmatch
  <2>2. dpy' \in Servers /\ dpy'.kmap = dpy.kmap /\ loosed' \in BOOLEAN
    BY <1>4, UnpressGood DEF NotRecognise, XInv
  <2>. QED  BY <1>4, <2>1, <2>2 DEF NotRecognise, XInv, QueuesTyped
<1>5. CASE OnDevChange
  <2>1. dpy' \in Servers /\ Agrees(mutSyms, dpy'.kmap, TRUE) /\ running
    BY <1>0, <1>5, AffirmGood DEF OnDevChange, XInv
  <2>. QED  BY <1>5, <2>1 DEF OnDevChange, XInv, QueuesTyped, queueVars, histVars, Agrees
<1>6. CASE Quit
  <2>1. dpy' \in Servers /\ \A c \in SpareCodes : dpy'.kmap[c] = NoSym
    BY <1>0, <1>6, QuitGood DEF Quit, XInv
  <2>. QED  BY <1>6, <2>1 DEF Quit, XInv, QueuesTyped, queueVars, histVars
<1>7. CASE Plug
  <2>. DEFINE k == [c \in SpareCodes |-> NoSym]
  <2>1. k \in Kmaps /\ \A c \in SpareCodes : k[c] = NoSym
    BY DEF Kmaps, Symbols
  <2>2. dpy' \in Servers /\ dpy'.kmap = k
    <3>1. Append(dpy.inbox, MappingNotify) \in Seq(Msgs) /\ dpy.pressed \in SUBSET (Codes \cup Buttons)
      BY DEF XInv, Servers, Msgs
    <3>. QED  BY <1>7, <2>1, <3>1 DEF Plug, Servers
  <2>. HIDE DEF k
  <2>3. Agrees(mutSyms, k, FALSE)
    BY <2>1, PlaceGood DEF XInv, Agrees
  <2>. QED  BY <1>7, <2>2, <2>3 DEF Plug, XInv, QueuesTyped, queueVars
<1>8. CASE AppRead
  <2>1. dpy' \in Servers /\ dpy'.kmap = dpy.kmap
    <3>1. dpy.inbox \in Seq(Msgs) /\ dpy.inbox # <<>> /\ Tail(dpy.inbox) \in Seq(Msgs)
      BY <1>8 DEF AppRead, XInv, Servers
    <3>. QED  BY <1>8, <3>1 DEF AppRead, XInv, Servers
  <2>2. appMap' \in Kmaps
    BY <1>8 DEF AppRead, XInv, Servers
  <2>. QED  BY <1>8, <2>1, <2>2 DEF AppRead, XInv, QueuesTyped, queueVars, histVars
<1>9. CASE UNCHANGED vars
  BY <1>9 DEF XInv, QueuesTyped, vars, queueVars, histVars
<1>. QED  BY <1>1, <1>2, <1>3, <1>4, <1>5, <1>6, <1>7, <1>8, <1>9 DEF Next, Calls

-----------------------------------------------------------------------------
(* The first two theorems *)

\* Every variable keeps its type; in particular mut_syms never loses or
\* doubles a spare keycode, however find_sym turns it round.
THEOREM XdoTypeCorrect == Spec => []TypeOK
<1>1. XInv => TypeOK
  <2>. SUFFICES ASSUME XInv PROVE TypeOK
    OBVIOUS
  <2>1. {m.code : m \in ToSet(mutSyms)} = SpareCodes
    <3>1. \A m \in ToSet(mutSyms) : m.code \in SpareCodes
      BY PlaceGood DEF XInv, Lists, ToSet
    <3>2. \A c \in SpareCodes : \E m \in ToSet(mutSyms) : m.code = c
      BY DEF XInv, Lists, ToSet
    <3>. QED  BY <3>1, <3>2
  <2>2. mutSyms \in Seq([sym: Syms \cup {NoSym}, code: SpareCodes]) /\ Len(mutSyms) = Len(Spare)
    BY DEF XInv, Lists, Memory, Symbols
  <2>3. acting \in RunAct \cup {NoAct}
    BY DEF XInv, Runs
  <2>4. /\ dpy.kmap \in [SpareCodes -> Syms \cup {NoSym}] /\ appMap \in [SpareCodes -> Syms \cup {NoSym}]
        /\ dpy.pressed \subseteq Codes \cup Buttons
        /\ dpy.inbox \in Seq({MappingNotify} \cup
             [kind: {"press"}, code: Codes, shift: BOOLEAN, want: Syms \cup {NoSym}])
    BY DEF XInv, Servers, Kmaps, Msgs, Symbols
  <2>. QED  BY <2>1, <2>2, <2>3, <2>4 DEF XInv, QueuesTyped, TypeOK
<1>. QED  BY InitXInv, NextXInv, <1>1, PTL DEF Spec

\* The spare keycodes mean at the server what mut_syms says (key_changer.rs:91
\* and 101-130), but for a new keyboard that ondevchange has yet to hear of,
\* and nothing once kseqi has exited.
THEOREM MapTrueThm == Spec => []MapTrue
<1>1. XInv => MapTrue
  BY DEF XInv, MapTrue, Agrees, ToSet, Lists
<1>. QED  BY InitXInv, NextXInv, <1>1, PTL DEF Spec
-----------------------------------------------------------------------------
(* Why no key is left down.  What the XTEST device holds is what the action  *)
(* in progress is about to release; between actions, what is in replay to be *)
(* released.                                                                 *)

Up(s, c, i) == \E j \in DOMAIN s : i < j /\ s[j].code = c /\ ~s[j].press

Ends(s) == \A i \in DOMAIN s : s[i].press => Up(s, s[i].code, i)

\* All the symbols of `key` that no key of the keyboard has are the same.
OneSpare(a) ==
  a.kind = "keys" => \A i, j \in DOMAIN a.syms :
    a.syms[i] \notin DOMAIN Layout /\ a.syms[j] \notin DOMAIN Layout => a.syms[i] = a.syms[j]

\* Of that kind are the actions; sequences release what they press; and
\* buttons are told apart from keys.
Tidy ==
  /\ \A a \in Actions : OneSpare(a)
  /\ \A s \in Unmatched : Ends(s)
  /\ Buttons \cap Codes = {}

\* A symbol is on a keycode, and will be found there again.
On(s, c, m) == IF s \in DOMAIN Layout THEN c = Layout[s].code
                                      ELSE Head(m).sym = s /\ c = Head(m).code

\* What an action may hold.
TextHeld(a, m, held) ==
  /\ \A c \in held : \/ a.shifted /\ c = ShiftKey
                     \/ ~a.pressing /\ a.index <= Len(a.syms) /\ On(a.syms[a.index], c, m)
  /\ a.shifted => a.index <= Len(a.syms) /\ a.syms[a.index] \in DOMAIN Layout
                  /\ Layout[a.syms[a.index]].shift

KeysHeld(a, m, held) ==
  \A c \in held : \E j \in DOMAIN a.syms :
    On(a.syms[j], c, m) /\ IF a.pressing THEN j < a.index ELSE a.index <= j

ClickHeld(a, held) == \A c \in held : c = a.n /\ ~a.pressing

ActHeld(a, m, held) ==
  /\ OneSpare(a)
  /\ a.kind = "text"  => TextHeld(a, m, held)
  /\ a.kind = "keys"  => KeysHeld(a, m, held)
  /\ a.kind = "mouse" => ClickHeld(a, held)

\* A step of an action, or its end, which finds nothing but a button held.
Eased(r, d) ==
  /\ r.act # NoAct => ActHeld(r.act, r.mut, r.dpy.pressed)
  /\ r.act = NoAct => r.dpy.pressed = {} /\ \A c \in d.pressed : c \in Buttons

LEMMA RunIsAct == ASSUME NEW a \in Runs PROVE a # NoAct
  BY XdoAssumption DEF Runs

LEMMA FakePressed ==
  ASSUME NEW d \in Servers, NEW c, NEW want
  PROVE  /\ FakeKey(d, c, TRUE, want).pressed = d.pressed \cup {c}
         /\ FakeKey(d, c, FALSE, want).pressed = d.pressed \ {c}
  BY DEF FakeKey, Servers

\* find_sym: a symbol found is on its keycode, and one that is not found was
\* on none; it touches no key, and no symbol of the keyboard.
LEMMA FindSymOn ==
  ASSUME NEW m, NEW d, NEW s
  PROVE  LET f == FindSym(s, m, d)
         IN /\ f.dpy.pressed = d.pressed
            /\ f.group # "New" => f.mut = m /\ f.dpy = d /\ \A c : On(s, c, m) <=> c = f.code
            /\ f.group = "New" => s \notin DOMAIN Layout /\ \A c : ~On(s, c, m)
            /\ f.group = "Shift" <=> (s \in DOMAIN Layout /\ Layout[s].shift)
<1>. DEFINE f == FindSym(s, m, d)
<1>1. CASE s \in DOMAIN Layout
  <2>1. f = Found(Layout[s].code, IF Layout[s].shift THEN "Shift" ELSE "Old", m, d)
    BY <1>1 DEF FindSym
  <2>. QED  BY <1>1, <2>1 DEF Found, On
<1>2. CASE s \notin DOMAIN Layout /\ Head(m).sym = s
  <2>1. f = Found(Head(m).code, "Old", m, d)
    BY <1>2 DEF FindSym
  <2>. QED  BY <1>2, <2>1 DEF Found, On
<1>3. CASE s \notin DOMAIN Layout /\ Head(m).sym # s
  <2>1. PICK c, t : f = Found(c, "New", t, Remap(d, c, s))
    BY <1>3 DEF FindSym
  <2>. QED  BY <1>3, <2>1 DEF Found, On, Remap
<1>. QED  BY <1>1, <1>2, <1>3

LEMMA RunTextHeld ==
  ASSUME NEW m, NEW d, NEW exact \in BOOLEAN, Good(m, d, exact), NEW a \in Runs,
         a.kind = "text", TextHeld(a, m, d.pressed)
  PROVE  Eased(RunText(a, m, d), d)
<1>. DEFINE s == a.syms[a.index]
            f == FindSym(s, m, d)
<1>0. /\ a.syms \in Seq(Syms) /\ a.index \in Nat \ {0} /\ a.pressing \in BOOLEAN
      /\ a.shifted \in BOOLEAN /\ Len(a.syms) \in Nat /\ d \in Servers /\ a # NoAct
  BY RunIsAct DEF Runs, RunAct, Good
<1>1. CASE a.index > Len(a.syms)
  <2>1. d.pressed = {}
    BY <1>0, <1>1 DEF TextHeld
  <2>. QED  BY <1>1, <2>1 DEF RunText, Finished, Going, Eased
<1>2. CASE ~(a.index > Len(a.syms))
  <2>1. a.index <= Len(a.syms) /\ s \in Syms
    BY <1>0, <1>2
  <2>2. /\ f.dpy.pressed = d.pressed /\ f.dpy \in Servers
        /\ f.group # "New" => f.mut = m /\ f.dpy = d /\ \A c : On(s, c, m) <=> c = f.code
        /\ f.group = "New" => s \notin DOMAIN Layout /\ \A c : ~On(s, c, m)
        /\ f.group = "Shift" <=> (s \in DOMAIN Layout /\ Layout[s].shift)
    BY <2>1, FindSymOn, FindSymGood DEF Good
  <2>. DEFINE b     == [a EXCEPT !.shifted = a.pressing]
              e     == [a EXCEPT !.pressing = ~@, !.index = IF a.pressing THEN @ ELSE @ + 1]
              shift == FakeKey(f.dpy, ShiftKey, a.pressing, NoSym)
              key   == FakeKey(f.dpy, f.code, a.pressing, s)
  <2>3. RunText(a, m, d) =
          IF f.group = "New" THEN Going(a, f.mut, f.dpy)
          ELSE IF f.group = "Shift" /\ a.pressing # a.shifted THEN Going(b, f.mut, shift)
          ELSE Going(e, f.mut, key)
    BY <1>2 DEF RunText
  <2>4. /\ b.kind = "text" /\ b.syms = a.syms /\ b.index = a.index /\ b.pressing = a.pressing
        /\ b.shifted = a.pressing
        /\ e.kind = "text" /\ e.syms = a.syms /\ e.shifted = a.shifted /\ e.pressing = ~a.pressing
        /\ e.index = IF a.pressing THEN a.index ELSE a.index + 1
    BY DEF Runs, RunAct
  <2>5. b \in Runs /\ e \in Runs
    <3>1. \A p \in BOOLEAN, i \in Nat \ {0} : [a EXCEPT !.pressing = p, !.index = i] \in Runs
      BY DEF Runs, RunAct
    <3>2. (IF a.pressing THEN a.index ELSE a.index + 1) \in Nat \ {0} /\ (~a.pressing) \in BOOLEAN
      BY <1>0
    <3>3. b \in Runs
      BY DEF Runs, RunAct
    <3>. QED  BY <3>1, <3>2, <3>3
  <2>. HIDE DEF s, f
  <2>6. /\ shift.pressed = IF a.pressing THEN d.pressed \cup {ShiftKey} ELSE d.pressed \ {ShiftKey}
        /\ key.pressed   = IF a.pressing THEN d.pressed \cup {f.code} ELSE d.pressed \ {f.code}
    <3>1. CASE a.pressing = TRUE
      <4>1. shift = FakeKey(f.dpy, ShiftKey, TRUE, NoSym) /\ key = FakeKey(f.dpy, f.code, TRUE, s)
        BY <3>1
      <4>. HIDE DEF shift, key
      <4>2. f.dpy \in Servers /\ f.dpy.pressed = d.pressed
        BY <2>2
      <4>3. shift.pressed = f.dpy.pressed \cup {ShiftKey} /\ key.pressed = f.dpy.pressed \cup {f.code}
        BY <4>1, <4>2, FakePressed
      <4>. QED  BY <3>1, <4>2, <4>3
    <3>2. CASE a.pressing = FALSE
      <4>1. shift = FakeKey(f.dpy, ShiftKey, FALSE, NoSym) /\ key = FakeKey(f.dpy, f.code, FALSE, s)
        BY <3>2
      <4>. HIDE DEF shift, key
      <4>2. f.dpy \in Servers /\ f.dpy.pressed = d.pressed
        BY <2>2
      <4>3. shift.pressed = f.dpy.pressed \ {ShiftKey} /\ key.pressed = f.dpy.pressed \ {f.code}
        BY <4>1, <4>2, FakePressed
      <4>. QED  BY <3>2, <4>2, <4>3
    <3>. QED  BY <1>0, <3>1, <3>2
  <2>7. b # NoAct /\ e # NoAct
    BY <2>5, RunIsAct
  <2>. HIDE DEF b, e, shift, key
  <2>8. CASE f.group = "New"
    <3>1. TextHeld(a, f.mut, f.dpy.pressed)
      <4>1. ~a.shifted /\ \A c : ~On(s, c, m)
        BY <2>2, <2>8 DEF TextHeld, s
      <4>2. d.pressed = {}
        BY <4>1 DEF TextHeld, s
      <4>. QED  BY <2>2, <4>1, <4>2 DEF TextHeld
    <3>. QED  BY <1>0, <2>3, <2>8, <3>1 DEF Going, Eased, ActHeld, OneSpare
  <2>9. CASE f.group = "Shift" /\ a.pressing # a.shifted
    <3>1. f.mut = m /\ s \in DOMAIN Layout /\ Layout[s].shift
      BY <2>2, <2>9
    <3>2. TextHeld(b, m, shift.pressed)
      <4>1. CASE a.pressing
        BY <2>1, <2>4, <2>6, <2>9, <3>1, <4>1 DEF TextHeld, s
      <4>2. CASE ~a.pressing
        BY <1>0, <2>1, <2>4, <2>6, <2>9, <3>1, <4>2 DEF TextHeld, s
      <4>. QED  BY <4>1, <4>2
    <3>. QED  BY <2>3, <2>4, <2>7, <2>9, <3>1, <3>2 DEF Going, Eased, ActHeld, OneSpare
  <2>10. CASE f.group # "New" /\ ~(f.group = "Shift" /\ a.pressing # a.shifted)
    <3>1. f.mut = m /\ On(s, f.code, m) /\ \A c : On(s, c, m) => c = f.code
      BY <2>2, <2>10
    <3>2. TextHeld(e, m, key.pressed)
      <4>1. CASE a.pressing
        BY <2>1, <2>4, <2>6, <3>1, <4>1 DEF TextHeld, s
      <4>2. CASE ~a.pressing
        <5>1. ~a.shifted
          BY <1>0, <2>2, <2>10, <4>2 DEF TextHeld, s
        <5>2. key.pressed = {}
          BY <2>6, <3>1, <4>2, <5>1 DEF TextHeld, s
        <5>. QED  BY <2>4, <5>1, <5>2 DEF TextHeld
      <4>. QED  BY <4>1, <4>2
    <3>. QED  BY <2>3, <2>4, <2>7, <2>10, <3>1, <3>2 DEF Going, Eased, ActHeld, OneSpare
  <2>. QED  BY <2>8, <2>9, <2>10
<1>. QED  BY <1>1, <1>2

LEMMA RunKeysHeld ==
  ASSUME NEW m, NEW d, NEW exact \in BOOLEAN, Good(m, d, exact), NEW a \in Runs,
         a.kind = "keys", OneSpare(a), KeysHeld(a, m, d.pressed)
  PROVE  Eased(RunKeys(a, m, d), d)
<1>. DEFINE turn  == a.pressing /\ a.index > Len(a.syms)
            index == IF turn THEN 1 ELSE a.index
            press == a.pressing /\ ~turn
            s     == a.syms[index]
            f     == FindSym(s, m, d)
            b     == [a EXCEPT !.index = index, !.pressing = press]
            e     == [b EXCEPT !.index = @ + 1]
            key   == FakeKey(f.dpy, f.code, press, s)
<1>0. /\ a.syms \in Seq(Syms) /\ a.index \in Nat \ {0} /\ a.pressing \in BOOLEAN
      /\ Len(a.syms) \in Nat /\ DOMAIN a.syms = 1 .. Len(a.syms) /\ d \in Servers
  BY DEF Runs, RunAct, Good
<1>1. index \in Nat \ {0} /\ press \in BOOLEAN
  BY <1>0
<1>2. RunKeys(a, m, d) =
        IF index > Len(a.syms) THEN Finished(m, d)
        ELSE IF f.group = "New" THEN Going(b, f.mut, f.dpy) ELSE Going(e, f.mut, key)
  BY DEF RunKeys
<1>3. \A c \in d.pressed : \E j \in DOMAIN a.syms :
        On(a.syms[j], c, m) /\ IF press THEN j < index ELSE index <= j
  <2>. SUFFICES ASSUME NEW c \in d.pressed
                PROVE  \E j \in DOMAIN a.syms : On(a.syms[j], c, m) /\ IF press THEN j < index ELSE index <= j
    OBVIOUS
  <2>1. PICK j \in DOMAIN a.syms : On(a.syms[j], c, m) /\ IF a.pressing THEN j < a.index ELSE a.index <= j
    BY DEF KeysHeld
  <2>2. IF press THEN j < index ELSE index <= j
    BY <1>0, <2>1
  <2>. QED  BY <2>1, <2>2
<1>4. index > Len(a.syms) => ~press
  BY <1>0
<1>5. b.syms = a.syms /\ b.kind = "keys" /\ b.index = index /\ b.pressing = press /\ b \in Runs
  <2>. HIDE DEF index, press
  <2>. QED  BY <1>1 DEF Runs, RunAct
<1>6. e.syms = a.syms /\ e.kind = "keys" /\ e.index = index + 1 /\ e.pressing = press /\ e \in Runs
  <2>. HIDE DEF b
  <2>. QED  BY <1>1, <1>5 DEF Runs, RunAct
<1>7. b # NoAct /\ e # NoAct /\ OneSpare(b) /\ OneSpare(e)
  <2>. HIDE DEF b, e
  <2>. QED  BY <1>5, <1>6, RunIsAct DEF OneSpare
<1>. HIDE DEF turn, index, press, b, e
<1>8. CASE index > Len(a.syms)
  <2>1. d.pressed = {}
    BY <1>0, <1>1, <1>3, <1>4, <1>8
  <2>. QED  BY <1>2, <1>8, <2>1 DEF Finished, Going, Eased
<1>9. CASE ~(index > Len(a.syms))
  <2>1. s \in Syms /\ index \in DOMAIN a.syms
    BY <1>0, <1>1, <1>9
  <2>2. /\ f.dpy.pressed = d.pressed /\ f.dpy \in Servers
        /\ f.group # "New" => f.mut = m /\ f.dpy = d /\ \A c : On(s, c, m) <=> c = f.code
        /\ f.group = "New" => s \notin DOMAIN Layout /\ \A c : ~On(s, c, m)
    BY <2>1, FindSymOn, FindSymGood DEF Good
  <2>. HIDE DEF f
  <2>3. key.pressed = IF press THEN d.pressed \cup {f.code} ELSE d.pressed \ {f.code}
    <3>1. CASE press = TRUE
      <4>1. key = FakeKey(f.dpy, f.code, TRUE, s)
        BY <3>1
      <4>. HIDE DEF key
      <4>2. f.dpy \in Servers /\ f.dpy.pressed = d.pressed
        BY <2>2
      <4>3. key.pressed = f.dpy.pressed \cup {f.code}
        BY <4>1, <4>2, FakePressed
      <4>. QED  BY <3>1, <4>2, <4>3
    <3>2. CASE press = FALSE
      <4>1. key = FakeKey(f.dpy, f.code, FALSE, s)
        BY <3>2
      <4>. HIDE DEF key
      <4>2. f.dpy \in Servers /\ f.dpy.pressed = d.pressed
        BY <2>2
      <4>3. key.pressed = f.dpy.pressed \ {f.code}
        BY <4>1, <4>2, FakePressed
      <4>. QED  BY <3>2, <4>2, <4>3
    <3>. QED  BY <1>1, <3>1, <3>2
  <2>. HIDE DEF key
  <2>4. CASE f.group = "New"
    <3>1. KeysHeld(b, f.mut, f.dpy.pressed)
      <4>. SUFFICES ASSUME NEW c \in d.pressed
                    PROVE  \E j \in DOMAIN a.syms :
                             On(a.syms[j], c, f.mut) /\ IF press THEN j < index ELSE index <= j
        BY <1>5, <2>2 DEF KeysHeld
      <4>1. PICK j \in DOMAIN a.syms : On(a.syms[j], c, m) /\ IF press THEN j < index ELSE index <= j
        BY <1>3
      <4>2. a.syms[j] \in DOMAIN Layout
        BY <2>1, <2>2, <2>4, <4>1 DEF OneSpare
      <4>. QED  BY <4>1, <4>2 DEF On
    <3>. QED  BY <1>2, <1>5, <1>7, <1>9, <2>4, <3>1 DEF Going, Eased, ActHeld
  <2>5. CASE f.group # "New"
    <3>1. KeysHeld(e, m, key.pressed)
      <4>. SUFFICES ASSUME NEW c \in key.pressed
                    PROVE  \E j \in DOMAIN a.syms :
                             On(a.syms[j], c, m) /\ IF press THEN j < index + 1 ELSE index + 1 <= j
        BY <1>6 DEF KeysHeld
      <4>1. CASE press /\ c = f.code
        BY <1>1, <2>1, <2>2, <2>5, <4>1
      <4>2. CASE c \in d.pressed /\ (press \/ c # f.code)
        <5>1. PICK j \in DOMAIN a.syms : On(a.syms[j], c, m) /\ IF press THEN j < index ELSE index <= j
          BY <1>3, <4>2
        <5>2. ~press => j # index
          BY <2>2, <2>5, <4>2, <5>1
        <5>3. IF press THEN j < index + 1 ELSE index + 1 <= j
          BY <1>0, <1>1, <5>1, <5>2
        <5>. QED  BY <5>1, <5>3
      <4>. QED  BY <2>3, <4>1, <4>2
    <3>. QED  BY <1>2, <1>6, <1>7, <1>9, <2>2, <2>5, <3>1 DEF Going, Eased, ActHeld
  <2>. QED  BY <2>4, <2>5
<1>. QED  BY <1>8, <1>9

LEMMA RunHeld ==
  ASSUME NEW m, NEW d, NEW exact \in BOOLEAN, Good(m, d, exact), NEW a \in Runs,
         ActHeld(a, m, d.pressed)
  PROVE  Eased(Run(a, m, d), d)
<1>1. CASE a.kind = "text"
  BY <1>1, RunTextHeld DEF Run, ActHeld
<1>2. CASE a.kind = "keys"
  BY <1>2, RunKeysHeld DEF Run, ActHeld
<1>3. CASE a.kind = "mouse"
  <2>. DEFINE b == [a EXCEPT !.pressing = FALSE]
  <2>1. a.n \in Buttons /\ a.pressing \in BOOLEAN /\ d \in Servers /\ ClickHeld(a, d.pressed)
    BY <1>3 DEF Runs, RunAct, Good, ActHeld
  <2>2. b \in Runs /\ b.kind = "mouse" /\ ~b.pressing /\ b.n = a.n
    BY <1>3 DEF Runs, RunAct
  <2>3. FakeButton(d, a.n, a.pressing).pressed = IF a.pressing THEN d.pressed \cup {a.n} ELSE d.pressed \ {a.n}
    BY <2>1 DEF FakeButton, Servers
  <2>4. Run(a, m, d) = RunClick(a, m, d)
    BY <1>3 DEF Run
  <2>5. b # NoAct
    BY <2>2, RunIsAct
  <2>6. CASE a.pressing
    <3>1. Run(a, m, d) = Going(b, m, FakeButton(d, a.n, a.pressing))
      BY <2>4, <2>6 DEF RunClick
    <3>2. ClickHeld(b, FakeButton(d, a.n, a.pressing).pressed)
      BY <2>1, <2>2, <2>3, <2>6 DEF ClickHeld
    <3>. HIDE DEF b
    <3>. QED  BY <2>2, <2>5, <3>1, <3>2 DEF Going, Eased, ActHeld, OneSpare
  <2>7. CASE ~a.pressing
    <3>1. Run(a, m, d) = Finished(m, FakeButton(d, a.n, a.pressing))
      BY <2>4, <2>7 DEF RunClick
    <3>2. FakeButton(d, a.n, a.pressing).pressed = {}
      BY <2>1, <2>3, <2>7 DEF ClickHeld
    <3>. QED  BY <2>1, <3>1, <3>2 DEF Finished, Going, Eased, ClickHeld
  <2>. QED  BY <2>6, <2>7
<1>. QED  BY <1>1, <1>2, <1>3 DEF Runs, RunAct

LEMMA BegunHeld ==
  ASSUME Tidy, NEW a \in Actions, NEW m
  PROVE  ActHeld(Begun(a), m, {})
  BY DEF Tidy, Begun, ActHeld, OneSpare, TextHeld, KeysHeld, ClickHeld

\* An application may see a key released before kseqi comes to it.
LEMMA HeldLess ==
  ASSUME NEW a, NEW m, NEW held, NEW less \in SUBSET held, ActHeld(a, m, held)
  PROVE  ActHeld(a, m, less)
  BY DEF ActHeld, TextHeld, KeysHeld, ClickHeld

Releasing ==
  /\ acting # NoAct => ActHeld(acting, mutSyms, dpy.pressed)
  /\ acting = NoAct => \A c \in dpy.pressed : Up(replay, c, 0)
  /\ Ends(replay)

\* The queue of keys grows, or one is taken.
LEMMA EndsGrows ==
  ASSUME NEW q \in Seq(KeyChange), NEW s \in Seq(KeyChange), Ends(q), Ends(s)
  PROVE  Ends(q \o s) /\ \A c : Up(q, c, 0) => Up(q \o s, c, 0)
<1>. DEFINE t == q \o s
<1>1. /\ Len(q) \in Nat /\ Len(s) \in Nat /\ DOMAIN q = 1 .. Len(q) /\ DOMAIN s = 1 .. Len(s)
      /\ DOMAIN t = 1 .. Len(q) + Len(s)
      /\ \A j \in 1 .. Len(q) : t[j] = q[j]
      /\ \A j \in 1 .. Len(s) : t[Len(q) + j] = s[j]
  OBVIOUS
<1>. HIDE DEF t
<1>2. ASSUME NEW c, NEW i, Up(q, c, i) PROVE Up(t, c, i)
  <2>1. PICK j \in DOMAIN q : i < j /\ q[j].code = c /\ ~q[j].press
    BY <1>2 DEF Up
  <2>2. j \in DOMAIN t /\ t[j] = q[j]
    BY <1>1
  <2>. QED  BY <2>1, <2>2 DEF Up
<1>3. ASSUME NEW c, NEW i \in DOMAIN s, Up(s, c, i) PROVE Up(t, c, Len(q) + i)
  <2>1. PICK j \in DOMAIN s : i < j /\ s[j].code = c /\ ~s[j].press
    BY <1>3 DEF Up
  <2>2. Len(q) + j \in DOMAIN t /\ t[Len(q) + j] = s[j] /\ Len(q) + i < Len(q) + j
    BY <1>1, <2>1
  <2>. QED  BY <2>1, <2>2 DEF Up
<1>4. ASSUME NEW i \in DOMAIN t, t[i].press PROVE Up(t, t[i].code, i)
  <2>1. CASE i \in DOMAIN q
    BY <1>1, <1>2, <1>4, <2>1 DEF Ends
  <2>2. CASE i \notin DOMAIN q
    <3>1. PICK j \in DOMAIN s : i = Len(q) + j /\ t[i] = s[j]
      <4>1. i - Len(q) \in 1 .. Len(s) /\ i = Len(q) + (i - Len(q))
        BY <1>1, <2>2
      <4>. QED  BY <1>1, <4>1
    <3>. QED  BY <1>3, <1>4, <3>1 DEF Ends
  <2>. QED  BY <2>1, <2>2
<1>. QED  BY <1>2, <1>4 DEF Ends, t

LEMMA EndsTaken ==
  ASSUME NEW q \in Seq(KeyChange), q # <<>>, Ends(q)
  PROVE  /\ Ends(Tail(q))
         /\ \A c : Up(q, c, 0) /\ (Head(q).press \/ c # Head(q).code) => Up(Tail(q), c, 0)
         /\ Head(q).press => Up(Tail(q), Head(q).code, 0)
<1>. DEFINE t == Tail(q)
<1>1. /\ Len(q) \in Nat \ {0} /\ DOMAIN q = 1 .. Len(q) /\ DOMAIN t = 1 .. Len(q) - 1
      /\ Head(q) = q[1] /\ \A j \in 1 .. Len(q) - 1 : t[j] = q[j + 1]
  OBVIOUS
<1>. HIDE DEF t
<1>2. ASSUME NEW c, NEW i \in Nat, Up(q, c, i + 1) PROVE Up(t, c, i)
  <2>1. PICK j \in DOMAIN q : i + 1 < j /\ q[j].code = c /\ ~q[j].press
    BY <1>2 DEF Up
  <2>2. j - 1 \in DOMAIN t /\ t[j - 1] = q[j] /\ i < j - 1
    <3>1. j - 1 \in 1 .. Len(q) - 1 /\ (j - 1) + 1 = j /\ i < j - 1
      BY <1>1, <2>1
    <3>. QED  BY <1>1, <3>1
  <2>. QED  BY <2>1, <2>2 DEF Up
<1>3. Ends(t)
  <2>. SUFFICES ASSUME NEW i \in DOMAIN t, t[i].press PROVE Up(t, t[i].code, i)
    BY DEF Ends
  <2>1. i \in Nat /\ i + 1 \in DOMAIN q /\ t[i] = q[i + 1]
    BY <1>1
  <2>. QED  BY <1>2, <2>1 DEF Ends
<1>4. ASSUME NEW c, Up(q, c, 0), Head(q).press \/ c # Head(q).code PROVE Up(t, c, 0)
  <2>1. PICK j \in DOMAIN q : 0 < j /\ q[j].code = c /\ ~q[j].press
    BY <1>4 DEF Up
  <2>2. j # 1
    BY <1>1, <1>4, <2>1
  <2>3. 0 + 1 < j
    BY <1>1, <2>2
  <2>4. Up(q, c, 0 + 1)
    BY <2>1, <2>3 DEF Up
  <2>. QED  BY <1>2, <2>4
<1>5. Head(q).press => Up(t, Head(q).code, 0)
  <2>1. Head(q).press => Up(q, Head(q).code, 0 + 1)
    BY <1>1 DEF Ends
  <2>. QED  BY <1>2, <2>1
<1>. QED  BY <1>3, <1>4, <1>5 DEF t

\* What proc has before it replays a key or begins an action.
LEMMA ProcHeld ==
  ASSUME Tidy, XInv, Releasing, Proc
  PROVE  \E r :
    /\ Good(r.mut, r.dpy, ~replug) /\ running
    /\ r.act = NoAct => \A c \in r.dpy.pressed : acting = NoAct /\ Up(replay, c, 0)
    /\ r.act = NoAct /\ acting # NoAct => \A c \in dpy.pressed : c \in Buttons
    /\ \/ /\ r.act # NoAct /\ acting' = r.act /\ mutSyms' = r.mut /\ dpy' = r.dpy
          /\ ActHeld(r.act, r.mut, r.dpy.pressed) /\ UNCHANGED <<replay, did>>
       \/ r.act = NoAct /\ Replay(r.dpy) /\ mutSyms' = r.mut
       \/ r.act = NoAct /\ Begin(r.mut, r.dpy) /\ (acting = NoAct => r.dpy = dpy)
<1>. DEFINE r == IF acting = NoAct THEN Finished(mutSyms, dpy) ELSE Run(acting, mutSyms, dpy)
<1>1. running /\ Good(mutSyms, dpy, ~replug)
  BY DEF Proc, XInv, Good
<1>2. \/ r.act # NoAct /\ Act(acting, mutSyms, dpy, TRUE) /\ UNCHANGED <<acts, replay, did>>
      \/ r.act = NoAct /\ Replay(r.dpy) /\ mutSyms' = r.mut
      \/ r.act = NoAct /\ Begin(r.mut, r.dpy)
  BY DEF Proc
<1>3. CASE acting = NoAct
  <2>1. r.act = NoAct /\ r.mut = mutSyms /\ r.dpy = dpy
    BY <1>3 DEF Finished, Going
  <2>. HIDE DEF r
  <2>. QED  BY <1>1, <1>2, <1>3, <2>1 DEF Releasing
<1>4. CASE acting # NoAct
  <2>1. acting \in Runs /\ ActHeld(acting, mutSyms, dpy.pressed) /\ r = Run(acting, mutSyms, dpy)
    BY <1>4 DEF XInv, Releasing
  <2>2. Outcome(r, ~replug) /\ Eased(r, dpy)
    BY <1>1, <2>1, RunGood, RunHeld
  <2>3. Act(acting, mutSyms, dpy, TRUE) => acting' = r.act /\ mutSyms' = r.mut /\ dpy' = r.dpy
    BY <2>1 DEF Act
  <2>. HIDE DEF r
  <2>. QED  BY <1>1, <1>2, <1>4, <2>2, <2>3 DEF Outcome, Eased
<1>. QED  BY <1>3, <1>4

LEMMA ProcReleasing == ASSUME Tidy, XInv, Releasing, Proc PROVE Releasing'
<1>1. PICK r :
        /\ Good(r.mut, r.dpy, ~replug)
        /\ r.act = NoAct => \A c \in r.dpy.pressed : acting = NoAct /\ Up(replay, c, 0)
        /\ \/ /\ r.act # NoAct /\ acting' = r.act /\ mutSyms' = r.mut /\ dpy' = r.dpy
              /\ ActHeld(r.act, r.mut, r.dpy.pressed) /\ UNCHANGED <<replay, did>>
           \/ r.act = NoAct /\ Replay(r.dpy) /\ mutSyms' = r.mut
           \/ r.act = NoAct /\ Begin(r.mut, r.dpy)
  BY ProcHeld
<1>2. CASE /\ r.act # NoAct /\ acting' = r.act /\ mutSyms' = r.mut /\ dpy' = r.dpy
           /\ ActHeld(r.act, r.mut, r.dpy.pressed) /\ UNCHANGED <<replay, did>>
  BY <1>2 DEF Releasing
<1>3. CASE r.act = NoAct /\ Replay(r.dpy)
  <2>1. /\ replay \in Seq(KeyChange) /\ replay # <<>> /\ Ends(replay)
        /\ replay' = Tail(replay) /\ acting' = NoAct
        /\ dpy' = FakeKey(r.dpy, Head(replay).code, Head(replay).press, NoSym)
    BY <1>3 DEF Replay, XInv, QueuesTyped, Releasing
  <2>2. r.dpy \in Servers /\ Head(replay).press \in BOOLEAN
    <3>1. Head(replay) \in KeyChange
      BY <2>1
    <3>. QED  BY <1>1, <3>1 DEF Good, KeyChange
  <2>3. dpy'.pressed = IF Head(replay).press THEN r.dpy.pressed \cup {Head(replay).code}
                                             ELSE r.dpy.pressed \ {Head(replay).code}
    <3>1. CASE Head(replay).press = TRUE
      <4>1. dpy' = FakeKey(r.dpy, Head(replay).code, TRUE, NoSym)
        BY <2>1, <3>1
      <4>2. dpy'.pressed = r.dpy.pressed \cup {Head(replay).code}
        BY <2>2, <4>1, FakePressed
      <4>. QED  BY <3>1, <4>2
    <3>2. CASE Head(replay).press = FALSE
      <4>1. dpy' = FakeKey(r.dpy, Head(replay).code, FALSE, NoSym)
        BY <2>1, <3>2
      <4>2. dpy'.pressed = r.dpy.pressed \ {Head(replay).code}
        BY <2>2, <4>1, FakePressed
      <4>. QED  BY <3>2, <4>2
    <3>. QED  BY <2>2, <3>1, <3>2
  <2>4. \A c \in dpy'.pressed : Up(Tail(replay), c, 0)
    BY <1>1, <1>3, <2>1, <2>3, EndsTaken
  <2>. QED  BY <2>1, <2>4, EndsTaken DEF Releasing
<1>4. CASE r.act = NoAct /\ Begin(r.mut, r.dpy)
  <2>1. replay = <<>> /\ replay' = <<>>
    BY <1>4 DEF Begin
  <2>2. r.dpy.pressed = {}
    BY <1>1, <1>4, <2>1 DEF Up
  <2>3. PICK n \in 0 .. Len(acts) :
          IF Slow(n) THEN Act(Begun(acts[n]), r.mut, r.dpy, FALSE)
                     ELSE acting' = NoAct /\ mutSyms' = r.mut /\ dpy' = r.dpy
    BY <1>4 DEF Begin
  <2>4. Ends(replay')
    BY <2>1 DEF Ends
  <2>5. CASE Slow(n)
    <3>1. acts[n] \in Actions /\ ~AtOnce(acts[n])
      BY <2>5 DEF Slow, XInv, QueuesTyped
    <3>. DEFINE a == Begun(acts[n])
                q == Run(a, r.mut, r.dpy)
    <3>2. a \in Runs /\ ActHeld(a, r.mut, r.dpy.pressed)
      BY <2>2, <3>1, BegunGood, BegunHeld
    <3>3. Eased(q, r.dpy)
      BY <1>1, <3>2, RunHeld
    <3>4. acting' = q.act /\ mutSyms' = q.mut /\ dpy' = q.dpy
      BY <2>3, <2>5 DEF Act
    <3>. HIDE DEF q
    <3>. QED  BY <2>4, <3>3, <3>4 DEF Eased, Releasing
  <2>6. CASE ~Slow(n)
    BY <2>2, <2>3, <2>4, <2>6 DEF Releasing
  <2>. QED  BY <2>5, <2>6
<1>. QED  BY <1>1, <1>2, <1>3, <1>4

LEMMA NextReleasing == ASSUME Tidy, XInv, Releasing, [Next]_vars PROVE Releasing'
<1>1. CASE Proc
  BY <1>1, ProcReleasing
<1>2. CASE Elapse \/ OnDevChange \/ Quit \/ Plug \/ AppRead \/ UNCHANGED vars
  <2>1. UNCHANGED <<acting, mutSyms, replay>>
    BY <1>2 DEF Elapse, OnDevChange, Quit, Plug, AppRead, vars, queueVars
  <2>2. dpy'.pressed = dpy.pressed
    BY <1>2 DEF Elapse, OnDevChange, Affirm, Quit, RemapAll, Plug, AppRead, vars, XInv, Servers
  <2>. QED  BY <2>1, <2>2 DEF Releasing
<1>3. CASE NotRecognise \/ \E l \in Lines : Recognise(l)
  <2>1. Unpress /\ UNCHANGED <<acting, mutSyms>>
    BY <1>3 DEF NotRecognise, Recognise
  <2>2. dpy'.pressed \subseteq dpy.pressed
    BY <2>1 DEF Unpress, XInv, Servers
  <2>3. replay' = replay \/ \E s \in Unmatched : replay' = replay \o s
    BY <1>3 DEF NotRecognise, Recognise, AddUnmatch
  <2>4. Ends(replay') /\ \A c : Up(replay, c, 0) => Up(replay', c, 0)
    <3>1. CASE replay' = replay
      BY <3>1 DEF Releasing
    <3>2. CASE \E s \in Unmatched : replay' = replay \o s
      <4>1. PICK s \in Unmatched : replay' = replay \o s
        BY <3>2
      <4>2. replay \in Seq(KeyChange) /\ s \in Seq(KeyChange) /\ Ends(replay) /\ Ends(s)
        BY XdoAssumption DEF XInv, QueuesTyped, Releasing, Tidy
      <4>. QED  BY <4>1, <4>2, EndsGrows
    <3>. QED  BY <2>3, <3>1, <3>2
  <2>. QED  BY <2>1, <2>2, <2>4, HeldLess DEF Releasing
<1>. QED  BY <1>1, <1>2, <1>3 DEF Next, Calls

LEMMA ReleasingInvariant == ASSUME Tidy PROVE Spec => [](XInv /\ Releasing)
<1>1. Init => Releasing
  BY DEF Init, Releasing, Ends
<1>2. XInv /\ Releasing /\ [Next]_vars => (XInv /\ Releasing)'
  BY NextXInv, NextReleasing
<1>. QED  BY InitXInv, <1>1, <1>2, PTL DEF Spec

\* An action lets go of what it presses, Shift included, and keys typed again
\* are released, so that nothing is down when all is done, whichever requests
\* to release keys come in between (RunAct::proc, dispatch.rs:132-202).
THEOREM Releases == ASSUME Tidy PROVE Spec => []AllReleased
<1>1. Releasing => AllReleased
  <2>. SUFFICES ASSUME Releasing, Idle PROVE dpy.pressed = {}
    BY DEF AllReleased
  <2>1. acting = NoAct /\ replay = <<>>
    BY DEF Idle
  <2>. QED  BY <2>1 DEF Releasing, Up
<1>. QED  BY <1>1, ReleasingInvariant, PTL

\* Keys typed again and actions do not mix (Xdo::proc, dispatch.rs:82-100).
THEOREM KeptApart == ASSUME Tidy PROVE Spec => Apart
<1>. DEFINE A == /\ did' # did => dpy.pressed \cap Codes = {}
                 /\ acting # NoAct /\ Len(replay') < Len(replay) =>
                      acting' = NoAct /\ dpy.pressed \cap Codes = {}
<1>1. XInv /\ Releasing /\ [Next]_vars => [A]_vars
  <2>. SUFFICES ASSUME XInv, Releasing, [Next]_vars PROVE A
    OBVIOUS
  <2>1. CASE Proc
    <3>1. PICK r :
            /\ r.act = NoAct => \A c \in r.dpy.pressed : acting = NoAct /\ Up(replay, c, 0)
            /\ r.act = NoAct /\ acting # NoAct => \A c \in dpy.pressed : c \in Buttons
            /\ \/ UNCHANGED <<replay, did>>
               \/ r.act = NoAct /\ Replay(r.dpy)
               \/ r.act = NoAct /\ Begin(r.mut, r.dpy) /\ (acting = NoAct => r.dpy = dpy)
      BY <2>1, ProcHeld
    <3>2. r.act = NoAct /\ acting # NoAct => dpy.pressed \cap Codes = {}
      BY <3>1 DEF Tidy
    <3>3. CASE UNCHANGED <<replay, did>>
      BY <3>3 DEF XInv, QueuesTyped
    <3>4. CASE r.act = NoAct /\ Replay(r.dpy)
      BY <3>2, <3>4 DEF Replay
    <3>5. CASE r.act = NoAct /\ Begin(r.mut, r.dpy) /\ (acting = NoAct => r.dpy = dpy)
      <4>1. replay = <<>> /\ replay' = replay
        BY <3>5 DEF Begin
      <4>2. acting = NoAct => dpy.pressed = {}
        BY <3>1, <3>5, <4>1 DEF Up
      <4>. QED  BY <3>2, <3>5, <4>1, <4>2 DEF XInv, QueuesTyped
    <3>. QED  BY <3>1, <3>3, <3>4, <3>5
  <2>2. CASE ~Proc
    <3>1. did' = did
      BY <2>2 DEF Next, Calls, Elapse, Recognise, NotRecognise, OnDevChange, Quit, Plug, AppRead, vars
    <3>2. replay' = replay \/ \E s \in Unmatched : replay' = replay \o s
      BY <2>2 DEF Next, Calls, Elapse, Recognise, NotRecognise, OnDevChange, Quit, Plug, AppRead, vars,
         queueVars, AddUnmatch
    <3>3. ~(Len(replay') < Len(replay))
      <4>1. replay \in Seq(KeyChange) /\ \A s \in Unmatched : s \in Seq(KeyChange)
        BY XdoAssumption DEF XInv, QueuesTyped
      <4>2. \A s \in Unmatched : ~(Len(replay \o s) < Len(replay))
        BY <4>1
      <4>3. ~(Len(replay) < Len(replay))
        BY <4>1
      <4>. QED  BY <3>2, <4>2, <4>3
    <3>. QED  BY <3>1, <3>3
  <2>. QED  BY <2>1, <2>2
<1>2. Spec => [][A]_vars
  <2>. HIDE DEF A
  <2>. QED  BY <1>1, ReleasingInvariant, PTL DEF Spec
<1>. QED  BY <1>2 DEF Apart

-----------------------------------------------------------------------------
(* The order of actions *)

\* Induction over numbers is by the least one that is an exception.
LEMMA LeastNat ==
  ASSUME NEW B \in SUBSET Nat, B # {}
  PROVE  \E n \in B : \A k \in Nat : k < n => k \notin B
<1>1. \E n \in B : \A k \in B : <<k, n>> \notin OpToRel(<, Nat)
  BY NatLessThanWellFounded, WFMin, Zenon
<1>2. \E n \in B : \A k \in B : ~(k < n)
  BY <1>1, Zenon DEF OpToRel
<1>. QED  BY <1>2

\* What Asked computes, line by line; it is what it is defined to be,
Nothing == [out |-> <<>>, last |-> <<>>]

Computes(f, ls, n) ==
  f = [i \in 0 .. n |-> IF i = 0 THEN Nothing ELSE Ask(f[i - 1], ls[i])]

LEMMA ComputesExists ==
  ASSUME NEW ls, NEW n \in Nat
  PROVE  \E f : Computes(f, ls, n)
<1>. DEFINE B == {i \in Nat : ~ \E f : Computes(f, ls, i)}
<1>1. ASSUME B # {} PROVE FALSE
  <2>1. PICK i \in B : \A k \in Nat : k < i => k \notin B
    BY <1>1, LeastNat
  <2>2. CASE i = 0
    <3>1. Computes([j \in 0 .. 0 |-> Nothing], ls, 0)
      BY DEF Computes
    <3>. QED  BY <2>1, <2>2, <3>1
  <2>3. CASE i # 0
    <3>1. i - 1 \in Nat /\ i - 1 < i /\ i \in Nat
      BY <2>1, <2>3
    <3>2. PICK f : Computes(f, ls, i - 1)
      BY <2>1, <3>1
    <3>. DEFINE g == [j \in 0 .. i |-> IF j = i THEN Ask(f[i - 1], ls[i]) ELSE f[j]]
    <3>3. \A j \in 0 .. i - 1 : f[j] = IF j = 0 THEN Nothing ELSE Ask(f[j - 1], ls[j])
      BY <3>2 DEF Computes
    <3>4. \A j \in 0 .. i : j # i => j \in 0 .. i - 1
      BY <3>1
    <3>5. \A j \in 0 .. i : j # 0 => j - 1 \in 0 .. i /\ j - 1 # i
      BY <3>1
    <3>6. \A j \in 0 .. i : j # 0 => g[j - 1] = f[j - 1]
      BY <3>5
    <3>7. \A j \in 0 .. i : g[j] = IF j = 0 THEN Nothing ELSE Ask(g[j - 1], ls[j])
      <4>. SUFFICES ASSUME NEW j \in 0 .. i
                    PROVE g[j] = IF j = 0 THEN Nothing ELSE Ask(g[j - 1], ls[j])
        OBVIOUS
      <4>1. CASE j = i
        BY <2>3, <3>6, <4>1
      <4>2. CASE j # i
        BY <3>3, <3>4, <3>6, <4>2
      <4>. QED  BY <4>1, <4>2
    <3>8. g = [j \in 0 .. i |-> g[j]]
      OBVIOUS
    <3>. HIDE DEF g
    <3>9. Computes(g, ls, i)
      BY <3>7, <3>8 DEF Computes
    <3>. QED  BY <2>1, <3>9
  <2>. QED  BY <2>2, <2>3
<1>. QED  BY <1>1

\* and the same of two logs as far as they are the same.
LEMMA ComputesSame ==
  ASSUME NEW ls, NEW ms, NEW n \in Nat, NEW f, Computes(f, ls, n),
         NEW m \in Nat, NEW g, Computes(g, ms, m), n <= m,
         \A i \in 1 .. n : ls[i] = ms[i]
  PROVE  \A i \in 0 .. n : f[i] = g[i]
<1>. DEFINE B == {i \in Nat : i <= n /\ f[i] # g[i]}
<1>0. /\ \A i \in 0 .. n : f[i] = IF i = 0 THEN Nothing ELSE Ask(f[i - 1], ls[i])
      /\ \A i \in 0 .. m : g[i] = IF i = 0 THEN Nothing ELSE Ask(g[i - 1], ms[i])
  BY DEF Computes
<1>1. ASSUME B # {} PROVE FALSE
  <2>1. PICK i \in B : \A k \in Nat : k < i => k \notin B
    BY <1>1, LeastNat
  <2>2. i \in 0 .. n /\ i \in 0 .. m
    BY <2>1
  <2>3. CASE i = 0
    BY <1>0, <2>1, <2>2, <2>3
  <2>4. CASE i # 0
    <3>1. i - 1 \in Nat /\ i - 1 < i /\ i - 1 <= n /\ i \in 1 .. n
      BY <2>2, <2>4
    <3>2. f[i - 1] = g[i - 1]
      BY <2>1, <3>1
    <3>3. f[i] = Ask(f[i - 1], ls[i]) /\ g[i] = Ask(g[i - 1], ms[i]) /\ ls[i] = ms[i]
      BY <1>0, <2>2, <2>4, <3>1
    <3>. QED  BY <2>1, <3>2, <3>3
  <2>. QED  BY <2>3, <2>4
<1>. QED  BY <1>1

LEMMA AskedIs ==
  ASSUME NEW ls, Len(ls) \in Nat
  PROVE  \E f : Computes(f, ls, Len(ls)) /\ Asked(ls) = f[Len(ls)]
<1>. DEFINE P(f) == f = [n \in 0 .. Len(ls) |->
                           IF n = 0 THEN [out |-> <<>>, last |-> <<>>] ELSE Ask(f[n - 1], ls[n])]
<1>1. \E f : P(f)
  BY ComputesExists DEF Computes, Nothing
<1>2. P(CHOOSE f : P(f))
  BY <1>1
<1>3. Asked(ls) = (CHOOSE f : P(f))[Len(ls)]
  BY DEF Asked
<1>4. Computes(CHOOSE f : P(f), ls, Len(ls))
  BY <1>2 DEF Computes, Nothing
<1>. QED  BY <1>3, <1>4

LEMMA AskedNone == Asked(<<>>) = [out |-> <<>>, last |-> <<>>]
<1>1. Len(<<>>) = 0 /\ Len(<<>>) \in Nat
  OBVIOUS
<1>2. PICK f : Computes(f, <<>>, 0) /\ Asked(<<>>) = f[0]
  BY <1>1, AskedIs
<1>. QED  BY <1>2 DEF Computes, Nothing

LEMMA AskedMore ==
  ASSUME NEW S, NEW ls \in Seq(S), NEW l \in S
  PROVE  Asked(Append(ls, l)) = Ask(Asked(ls), l)
<1>. DEFINE n == Len(ls)
            ms == Append(ls, l)
<1>1. /\ n \in Nat /\ Len(ms) = n + 1 /\ n + 1 \in Nat /\ n <= n + 1
      /\ ms[n + 1] = l /\ \A i \in 1 .. n : ls[i] = ms[i]
  OBVIOUS
<1>2. PICK f : Computes(f, ls, n) /\ Asked(ls) = f[n]
  BY <1>1, AskedIs
<1>. HIDE DEF ms
<1>3. PICK g : Computes(g, ms, n + 1) /\ Asked(ms) = g[n + 1]
  BY <1>1, AskedIs
<1>. HIDE DEF n
<1>4. \A i \in 0 .. n : f[i] = g[i]
  BY <1>1, <1>2, <1>3, ComputesSame
<1>5. g[n + 1] = Ask(g[n], ms[n + 1])
  <2>1. n + 1 \in 0 .. n + 1 /\ n + 1 # 0 /\ (n + 1) - 1 = n
    BY <1>1
  <2>2. \A i \in 0 .. n + 1 : g[i] = IF i = 0 THEN Nothing ELSE Ask(g[i - 1], ms[i])
    BY <1>3 DEF Computes
  <2>. QED  BY <2>1, <2>2
<1>6. n \in 0 .. n
  BY <1>1
<1>. QED  BY <1>1, <1>2, <1>3, <1>4, <1>5, <1>6 DEF ms

-----------------------------------------------------------------------------
(* Repeated is what repeat stands for. *)

LEMMA Rest ==
  ASSUME NEW L \in Nat \ {0}, NEW k \in Nat, NEW r \in 0 .. L - 1
  PROVE  (k * L + r) % L = r
  OBVIOUS

\* n copies of a sequence, one after another.
Copies(q, n) == [i \in 1 .. n * Len(q) |-> q[((i - 1) % Len(q)) + 1]]

LEMMA CopiesMore ==
  ASSUME NEW S, NEW q \in Seq(S), NEW n \in Nat
  PROVE  /\ Copies(q, n) \in Seq(S) /\ Len(Copies(q, n)) = n * Len(q)
         /\ Copies(q, n + 1) = Copies(q, n) \o q
<1>. DEFINE L == Len(q)
<1>1. L \in Nat /\ n * L \in Nat /\ (n + 1) * L = n * L + L
  OBVIOUS
<1>2. \A i \in Nat : i >= 1 /\ L # 0 => ((i - 1) % L) + 1 \in 1 .. L
  BY <1>1
<1>3. ASSUME NEW k \in Nat, NEW i \in 1 .. k * L
      PROVE  i \in Nat /\ i >= 1 /\ L # 0
  <2>1. i \in Nat /\ i >= 1 /\ i <= k * L
    BY <1>1
  <2>2. L = 0 => k * L = 0
    OBVIOUS
  <2>. QED  BY <2>1, <2>2
<1>4. ASSUME NEW k \in Nat PROVE Copies(q, k) \in Seq(S) /\ Len(Copies(q, k)) = k * L
  <2>1. k * L \in Nat
    BY <1>1
  <2>2. \A i \in 1 .. k * L : q[((i - 1) % L) + 1] \in S
    BY <1>2, <1>3
  <2>. HIDE DEF L
  <2>3. \A i \in 1 .. k * L : Copies(q, k)[i] \in S
    BY <2>2 DEF Copies, L
  <2>. QED  BY <2>1, <2>3 DEF Copies, L
<1>5. ASSUME NEW i \in 1 .. (n + 1) * L
      PROVE  Copies(q, n + 1)[i] = (Copies(q, n) \o q)[i]
  <2>0. i \in Nat /\ i >= 1 /\ L # 0 /\ i <= n * L + L
    BY <1>1, <1>3
  <2>1. Copies(q, n + 1)[i] = q[((i - 1) % L) + 1]
    BY DEF Copies
  <2>2. CASE i <= n * L
    <3>1. i \in 1 .. n * L
      BY <1>1, <2>0, <2>2
    <3>2. (Copies(q, n) \o q)[i] = Copies(q, n)[i]
      BY <1>1, <1>4, <3>1
    <3>3. Copies(q, n)[i] = q[((i - 1) % L) + 1]
      BY <3>1 DEF Copies
    <3>. QED  BY <2>1, <3>2, <3>3
  <2>3. CASE i > n * L
    <3>. DEFINE r == i - 1 - n * L
    <3>1. r \in 0 .. L - 1 /\ i - 1 = n * L + r /\ L \in Nat \ {0}
      BY <1>1, <2>0, <2>3
    <3>2. (i - 1) % L = r
      <4>. HIDE DEF L, r
      <4>. QED  BY <3>1, Rest
    <3>3. (Copies(q, n) \o q)[i] = q[i - n * L]
      <4>. DEFINE a == Copies(q, n)
                  N == n * L
      <4>1. a \in Seq(S) /\ Len(a) = N /\ N \in Nat /\ i > N /\ i <= N + L
        BY <1>1, <1>4, <2>0, <2>3
      <4>. HIDE DEF a, N
      <4>2. (a \o q)[i] = q[i - N]
        BY <1>1, <2>0, <4>1
      <4>. QED  BY <4>2 DEF a, N
    <3>4. r + 1 = i - n * L
      BY <1>1, <2>0
    <3>. QED  BY <2>1, <3>2, <3>3, <3>4
  <2>4. i <= n * L \/ i > n * L
    BY <1>1, <2>0
  <2>. QED  BY <2>2, <2>3, <2>4
<1>6. Copies(q, n + 1) \in Seq(S) /\ Len(Copies(q, n + 1)) = (n + 1) * L
      /\ Copies(q, n) \in Seq(S) /\ Len(Copies(q, n)) = n * L
  <2>1. n + 1 \in Nat
    OBVIOUS
  <2>. QED  BY <1>4, <2>1
<1>7. (Copies(q, n) \o q) \in Seq(S) /\ Len(Copies(q, n) \o q) = (n + 1) * L
  BY <1>1, <1>6
<1>8. Copies(q, n + 1) = Copies(q, n) \o q
  <2>. DEFINE a == Copies(q, n + 1)
              b == Copies(q, n) \o q
              N == (n + 1) * L
  <2>1. a \in Seq(S) /\ b \in Seq(S) /\ Len(a) = N /\ Len(b) = N
    BY <1>6, <1>7
  <2>2. \A i \in 1 .. N : a[i] = b[i]
    BY <1>5
  <2>. HIDE DEF a, b, N
  <2>3. a = b
    BY <2>1, <2>2
  <2>. QED  BY <2>3 DEF a, b
<1>. QED  BY <1>6, <1>8

LEMMA FlattenCopies ==
  ASSUME NEW S, NEW q \in Seq(S), NEW n \in Nat
  PROVE  FlattenSeq([i \in 1 .. n |-> q]) = Copies(q, n)
<1>. DEFINE seqs == [i \in 1 .. n |-> q]
<1>1. Len(seqs) = n
  OBVIOUS
<1>2. CASE n = 0
  <2>1. Copies(q, n) = <<>> /\ seqs = <<>>
    BY <1>2 DEF Copies
  <2>. QED  BY <1>1, <1>2, <2>1 DEF FlattenSeq
<1>3. CASE n # 0
  <2>. DEFINE P(f) == f = [i \in 1 .. Len(seqs) |->
                             IF i = 1 THEN seqs[i] ELSE f[i - 1] \o seqs[i]]
              g == [i \in 1 .. n |-> Copies(q, i)]
              h == CHOOSE f : P(f)
  <2>1. FlattenSeq(seqs) = h[n]
    BY <1>1, <1>3 DEF FlattenSeq
  <2>2. Copies(q, 1) = q
    <3>1. Copies(q, 0) = <<>> /\ 0 \in Nat /\ 0 + 1 = 1
      BY DEF Copies
    <3>2. Copies(q, 0 + 1) = <<>> \o q
      BY <3>1, CopiesMore
    <3>. QED  BY <3>1, <3>2
  <2>3. \A i \in 1 .. n : i # 1 => i - 1 \in 1 .. n /\ i - 1 \in Nat /\ (i - 1) + 1 = i
    OBVIOUS
  <2>4. \A i \in 1 .. n : i # 1 => Copies(q, i) = Copies(q, i - 1) \o q
    <3>. SUFFICES ASSUME NEW i \in 1 .. n, i # 1 PROVE Copies(q, i) = Copies(q, i - 1) \o q
      OBVIOUS
    <3>1. Copies(q, (i - 1) + 1) = Copies(q, i - 1) \o q
      BY <2>3, CopiesMore
    <3>. QED  BY <2>3, <3>1
  <2>5. P(g)
    <3>1. \A i \in 1 .. n : g[i] = IF i = 1 THEN q ELSE g[i - 1] \o q
      BY <2>2, <2>3, <2>4
    <3>. HIDE DEF g
    <3>2. \A i \in 1 .. n : seqs[i] = q
      OBVIOUS
    <3>3. g = [i \in 1 .. n |-> g[i]]
      BY DEF g
    <3>. QED  BY <1>1, <3>1, <3>2, <3>3
  <2>6. P(h)
    BY <2>5
  <2>7. \A i \in 1 .. n : h[i] = IF i = 1 THEN q ELSE h[i - 1] \o q
    <3>. HIDE DEF h
    <3>. QED  BY <1>1, <2>6
  <2>. HIDE DEF P, h
  <2>. DEFINE B == {i \in Nat : i \in 1 .. n /\ h[i] # Copies(q, i)}
  <2>8. ASSUME B # {} PROVE FALSE
    <3>1. PICK i \in B : \A k \in Nat : k < i => k \notin B
      BY <2>8, LeastNat
    <3>2. CASE i = 1
      BY <2>2, <2>7, <3>1, <3>2
    <3>3. CASE i # 1
      <4>1. i - 1 \in 1 .. n /\ i - 1 \in Nat /\ i - 1 < i
        BY <3>1, <3>3
      <4>2. h[i - 1] = Copies(q, i - 1)
        BY <3>1, <4>1
      <4>3. h[i] = h[i - 1] \o q /\ Copies(q, i) = Copies(q, i - 1) \o q
        BY <2>4, <2>7, <3>1, <3>3
      <4>. QED  BY <3>1, <4>2, <4>3
    <3>. QED  BY <3>2, <3>3
  <2>. QED  BY <1>3, <2>1, <2>8
<1>. QED  BY <1>2, <1>3

\* The queue holds what is asked for and not begun, and last_add the line
\* that repeat would repeat.
OrderInv ==
  /\ XInv /\ lines \in Seq(Lines)
  /\ Asked(lines) = [out |-> did \o acts, last |-> lastAdd]

\* One sequence after another.
LEMMA Associative ==
  ASSUME NEW S, NEW a \in Seq(S), NEW b \in Seq(S), NEW c \in Seq(S)
  PROVE  a \o (b \o c) = (a \o b) \o c
  OBVIOUS

LEMMA ProcOrder == ASSUME XInv, Proc PROVE did' \o acts' = did \o acts
<1>1. acts \in Seq(Actions) /\ did \in Seq(Actions) /\ Len(acts) \in Nat
  BY DEF XInv, QueuesTyped
<1>2. \/ UNCHANGED <<acts, did>>
      \/ \E n \in 0 .. Len(acts) : /\ acts' = SubSeq(acts, n + 1, Len(acts))
                                   /\ did' = did \o SubSeq(acts, 1, n)
  BY DEF Proc, Replay, Begin
<1>3. ASSUME NEW n \in 0 .. Len(acts)
      PROVE  (did \o SubSeq(acts, 1, n)) \o SubSeq(acts, n + 1, Len(acts)) = did \o acts
  <2>. DEFINE a == SubSeq(acts, 1, n)
              b == SubSeq(acts, n + 1, Len(acts))
  <2>1. a \in Seq(Actions) /\ b \in Seq(Actions) /\ Len(a) = n /\ Len(b) = Len(acts) - n
    BY <1>1
  <2>2. (\A i \in 1 .. n : a[i] = acts[i]) /\ \A i \in 1 .. Len(acts) - n : b[i] = acts[i + n]
    BY <1>1
  <2>. HIDE DEF a, b
  <2>3. a \o b = acts
    <3>1. (a \o b) \in Seq(Actions) /\ Len(a \o b) = Len(acts)
      <4>1. (a \o b) \in Seq(Actions)
        BY <2>1
      <4>2. Len(a \o b) = Len(a) + Len(b)
        BY <2>1
      <4>3. n + (Len(acts) - n) = Len(acts)
        BY <1>1
      <4>. QED  BY <2>1, <4>1, <4>2, <4>3
    <3>2. ASSUME NEW i \in 1 .. Len(acts) PROVE (a \o b)[i] = acts[i]
      <4>1. CASE i <= n
        BY <1>1, <2>1, <2>2, <4>1
      <4>2. CASE i > n
        <5>1. i - n \in 1 .. Len(acts) - n /\ (i - n) + n = i
          BY <1>1, <4>2
        <5>2. (a \o b)[i] = b[i - n]
          BY <1>1, <2>1, <4>2
        <5>. QED  BY <2>2, <5>1, <5>2
      <4>3. n \in Int /\ i \in Int
        BY <1>1
      <4>4. i <= n \/ i > n
        BY <4>3
      <4>. QED  BY <4>1, <4>2, <4>4
    <3>. DEFINE ab == a \o b
    <3>3. ab \in Seq(Actions) /\ Len(ab) = Len(acts) /\ \A i \in 1 .. Len(acts) : ab[i] = acts[i]
      BY <3>1, <3>2
    <3>. HIDE DEF ab
    <3>4. ab = acts
      BY <1>1, <3>3
    <3>. QED  BY <3>4 DEF ab
  <2>4. (did \o a) \o b = did \o (a \o b)
    BY <1>1, <2>1
  <2>. QED  BY <2>3, <2>4 DEF a, b
<1>. QED  BY <1>2, <1>3

LEMMA RecogniseOrder ==
  ASSUME OrderInv, NEW l \in Lines, Recognise(l)
  PROVE  Asked(lines') = [out |-> did' \o acts', last |-> lastAdd']
<1>1. Asked(lines') = Ask(Asked(lines), l)
  BY AskedMore DEF OrderInv, Recognise
<1>2. acts \in Seq(Actions) /\ did \in Seq(Actions) /\ lastAdd \in Seq(Actions)
  BY DEF OrderInv, XInv, QueuesTyped
<1>3. l \in Seq(Actions) /\ l # <<>> /\ Head(l) \in Actions /\ Tail(l) \in Seq(Actions)
      /\ Head(l).n \in Nat
  <2>1. l \in Seq(Actions) /\ l # <<>>
    BY XdoAssumption
  <2>2. Head(l) \in Actions /\ Tail(l) \in Seq(Actions)
    BY <2>1
  <2>. QED  BY <2>1, <2>2, XdoAssumption
<1>4. did' = did
  BY DEF Recognise
<1>5. CASE Head(l).kind = "repeat"
  <2>. DEFINE c == Copies(lastAdd, Head(l).n)
  <2>1. c \in Seq(Actions) /\ FlattenSeq([i \in 1 .. Head(l).n |-> lastAdd]) = c
    BY <1>2, <1>3, CopiesMore, FlattenCopies
  <2>2. Repeated(Head(l).n) = c
    BY DEF Repeated, Copies
  <2>. HIDE DEF c
  <2>3. acts' = acts \o c \o Tail(l) /\ lastAdd' = lastAdd
    BY <1>5, <2>2 DEF Recognise, AddActs
  <2>4. did \o (acts \o c \o Tail(l)) = (did \o acts) \o c \o Tail(l)
    <3>1. acts \o c \in Seq(Actions) /\ did \o acts \in Seq(Actions)
      BY <1>2, <2>1
    <3>2. did \o ((acts \o c) \o Tail(l)) = (did \o (acts \o c)) \o Tail(l)
      <4>. DEFINE ac == acts \o c
      <4>1. ac \in Seq(Actions) /\ Tail(l) \in Seq(Actions)
        BY <1>3, <3>1
      <4>. HIDE DEF ac
      <4>2. did \o (ac \o Tail(l)) = (did \o ac) \o Tail(l)
        BY <1>2, <4>1, Associative
      <4>. QED  BY <4>2 DEF ac
    <3>3. did \o (acts \o c) = (did \o acts) \o c
      BY <1>2, <2>1, Associative
    <3>. QED  BY <3>2, <3>3
  <2>5. Ask(Asked(lines), l) = [out |-> (did \o acts) \o c \o Tail(l), last |-> lastAdd]
    <3>1. Asked(lines).out = did \o acts /\ Asked(lines).last = lastAdd
      BY DEF OrderInv
    <3>2. Ask(Asked(lines), l) =
            [out |-> Asked(lines).out \o FlattenSeq([i \in 1 .. Head(l).n |-> Asked(lines).last])
                       \o Tail(l),
             last |-> Asked(lines).last]
      BY <1>5 DEF Ask
    <3>3. [i \in 1 .. Head(l).n |-> Asked(lines).last] = [i \in 1 .. Head(l).n |-> lastAdd]
      BY <3>1
    <3>. QED  BY <2>1, <3>1, <3>2, <3>3
  <2>. QED  BY <1>1, <1>4, <2>3, <2>4, <2>5
<1>6. CASE Head(l).kind # "repeat"
  <2>1. acts' = acts \o l /\ lastAdd' = l
    BY <1>6 DEF Recognise, AddActs
  <2>2. did \o (acts \o l) = (did \o acts) \o l
    BY <1>2, <1>3
  <2>3. Ask(Asked(lines), l) = [out |-> (did \o acts) \o l, last |-> l]
    BY <1>6 DEF OrderInv, Ask
  <2>. QED  BY <1>1, <1>4, <2>1, <2>2, <2>3
<1>. QED  BY <1>5, <1>6

LEMMA NextOrder == OrderInv /\ [Next]_vars => OrderInv'
<1>. SUFFICES ASSUME OrderInv, [Next]_vars PROVE OrderInv'
  OBVIOUS
<1>0. XInv /\ XInv'
  BY NextXInv DEF OrderInv
<1>1. CASE Proc
  <2>1. lastAdd' = lastAdd /\ lines' = lines
    BY <1>1 DEF Proc, histVars
  <2>. QED  BY <1>0, <1>1, <2>1, ProcOrder DEF OrderInv
<1>2. ASSUME NEW l \in Lines, Recognise(l) PROVE OrderInv'
  <2>1. lines' \in Seq(Lines)
    BY <1>2 DEF OrderInv, Recognise
  <2>. QED  BY <1>0, <1>2, <2>1, RecogniseOrder DEF OrderInv
<1>3. CASE UNCHANGED <<acts, did, lastAdd, lines>>
  BY <1>0, <1>3 DEF OrderInv
<1>4. CASE Elapse \/ NotRecognise \/ OnDevChange \/ Quit \/ Plug \/ AppRead \/ UNCHANGED vars
  BY <1>3, <1>4 DEF Elapse, NotRecognise, OnDevChange, Quit, Plug, AppRead, vars, queueVars, histVars
<1>. QED  BY <1>1, <1>2, <1>4 DEF Next, Calls

\* Actions are begun in the order in which their sequences were recognised,
\* none is lost or performed twice, and repeat performs the line it should as
\* often as it says, whatever the lines and however many of them are queued
\* (add_acts and proc, dispatch.rs:51-115).
THEOREM InOrderThm == Spec => []InOrder
<1>1. Init => OrderInv
  BY InitXInv, AskedNone DEF Init, OrderInv
<1>2. OrderInv => InOrder
  BY DEF OrderInv, InOrder
<1>. QED  BY <1>1, <1>2, NextOrder, PTL DEF Spec

-----------------------------------------------------------------------------
(* What the application reads.  Each press it has yet to read means what it *)
(* was typed for, because its keycode is mapped again only after 2 N more  *)
(* messages, for N spare keycodes, and kseqi goes on after a pause only    *)
(* when there are fewer.                                                   *)

\* No symbol of the action is on ShiftKey, and none that `key` types needs Shift.
Plain(a) ==
  \A i \in DOMAIN a.syms : a.syms[i] \in DOMAIN Layout =>
       /\ Layout[a.syms[i]].code # ShiftKey
       /\ a.kind = "keys" => ~Layout[a.syms[i]].shift

\* A keyboard tells its symbols apart; Shift is a key of its own, which no
\* action presses as such; `key` has no symbols that need Shift; and there
\* are enough spare keycodes for an application that is so far behind.
Legible ==
  /\ Tidy
  /\ MaxPlugs = 0 /\ Lag < 2 * Len(Spare)
  /\ Layout \in Injection(DOMAIN Layout, [code: Codes, shift: BOOLEAN])
  /\ ShiftKey \notin SpareCodes
  /\ \A a \in Actions : Plain(a)

\* The press at i of q is to mean something, and is read after another map.
Wanted(q, i) == q[i] # MappingNotify /\ q[i].want # NoSym

Behind(q, i) == \E j \in DOMAIN q : j < i /\ q[j] = MappingNotify

\* The keycode that is the p-th to be mapped from now on.
Due(m, p) == m[IF p < Len(m) THEN p + 1 ELSE 1].code

\* The symbol of the next key is mapped to a keycode, and the key to come.
Pending(a, m) ==
  /\ a # NoAct /\ a.kind \in {"text", "keys"} /\ a.pressing
  /\ a.index <= Len(a.syms) /\ a.syms[a.index] \notin DOMAIN Layout
  /\ Head(m).sym = a.syms[a.index]

\* Each press has the messages behind it that the keycodes mapped since have
\* cost, two for each, but for one message that is about to follow.
Spaced(m, q, pending) ==
  \A p \in 1 .. Len(m), i \in DOMAIN q :
    Wanted(q, i) /\ Behind(q, i) /\ q[i].code = Due(m, p) =>
      Len(q) - i >= 2 * (Len(m) - p) - (IF pending THEN 1 ELSE 0)

\* Nothing is lost if the next keycode is mapped now.
Clear(m, q) ==
  \A i \in DOMAIN q : Wanted(q, i) /\ Behind(q, i) => q[i].code # Due(m, 1)

\* A press says what it is to say, by the map that will be there.
Says(e, kmap, lost) ==
  \/ e.code \in SpareCodes /\ kmap[e.code] = e.want
  \/ /\ e.code \notin SpareCodes
     /\ e.want \in DOMAIN Layout /\ e.code = Layout[e.want].code
     /\ e.shift = Layout[e.want].shift \/ (lost /\ ~e.shift)

Right(q, kmap, app, lost) ==
  /\ \A i \in DOMAIN q : Wanted(q, i) => Says(q[i], IF Behind(q, i) THEN kmap ELSE app, lost)
  /\ (\A j \in DOMAIN q : q[j] # MappingNotify) => app = kmap

\* find_sym would answer with no keycode mapped anew.
Has(s, m) == s \in DOMAIN Layout \/ Head(m).sym = s

\* What an action has typed it will find again.
Steady(a, m) ==
  /\ a.kind = "text" /\ ~a.pressing /\ a.index <= Len(a.syms) => Has(a.syms[a.index], m)
  /\ a.kind = "keys" => \A j \in DOMAIN a.syms : ~a.pressing \/ j < a.index => Has(a.syms[j], m)

\* The next step of an action is neither its end nor maps a keycode.
Ready(a, m) ==
  /\ a # NoAct
  /\ \/ a.kind = "text" /\ a.index <= Len(a.syms) /\ Has(a.syms[a.index], m)
     \/ /\ a.kind = "keys" /\ a.pressing /\ a.syms # <<>>
        /\ \A j \in DOMAIN a.syms : Has(a.syms[j], m)

Readable(a, m, d, app, lost) ==
  /\ Spaced(m, d.inbox, Pending(a, m))
  /\ Right(d.inbox, d.kmap, app, lost)
  /\ a # NoAct => /\ Steady(a, m) /\ Plain(a)
                  /\ a.kind = "text" /\ a.shifted /\ ~lost => ShiftKey \in d.pressed

Typing ==
  /\ plugs = 0 /\ ~replug
  /\ running => /\ Readable(acting, mutSyms, dpy, appMap, loosed)
                /\ ~paused => Clear(mutSyms, dpy.inbox) \/ Ready(acting, mutSyms)

\* A message more, or less.
LEMMA Queued ==
  ASSUME NEW q \in Seq(Msgs), NEW e \in Msgs
  PROVE  LET t == Append(q, e) IN
         /\ t \in Seq(Msgs) /\ Len(q) \in Nat /\ Len(t) = Len(q) + 1
         /\ DOMAIN q = 1 .. Len(q) /\ DOMAIN t = 1 .. Len(q) + 1
         /\ \A i \in DOMAIN q : t[i] = q[i] /\ (Wanted(t, i) <=> Wanted(q, i))
                                /\ (Behind(t, i) <=> Behind(q, i))
         /\ t[Len(q) + 1] = e
         /\ Behind(t, Len(q) + 1) <=> \E j \in DOMAIN q : q[j] = MappingNotify
<1>. DEFINE t == Append(q, e)
<1>1. /\ t \in Seq(Msgs) /\ Len(q) \in Nat /\ Len(t) = Len(q) + 1
      /\ DOMAIN q = 1 .. Len(q) /\ DOMAIN t = 1 .. Len(q) + 1
      /\ \A i \in 1 .. Len(q) : t[i] = q[i]
      /\ t[Len(q) + 1] = e
  OBVIOUS
<1>. HIDE DEF t
<1>2. ASSUME NEW i \in 1 .. Len(q) PROVE Behind(t, i) <=> Behind(q, i)
  <2>1. \A j \in 1 .. Len(q) + 1 : j < i => j \in 1 .. Len(q) /\ t[j] = q[j]
    BY <1>1
  <2>. QED  BY <1>1, <2>1 DEF Behind
<1>3. \A i \in 1 .. Len(q) : Wanted(t, i) <=> Wanted(q, i)
  BY <1>1 DEF Wanted
<1>4. Behind(t, Len(q) + 1) <=> \E j \in DOMAIN q : q[j] = MappingNotify
  <2>1. \A j \in 1 .. Len(q) + 1 : j < Len(q) + 1 <=> j \in 1 .. Len(q)
    BY <1>1
  <2>2. \A j \in 1 .. Len(q) : j \in 1 .. Len(q) + 1
    BY <1>1
  <2>. QED  BY <1>1, <2>1, <2>2 DEF Behind
<1>5. /\ t \in Seq(Msgs) /\ Len(q) \in Nat /\ Len(t) = Len(q) + 1
      /\ DOMAIN q = 1 .. Len(q) /\ DOMAIN t = 1 .. Len(q) + 1
      /\ \A i \in DOMAIN q : t[i] = q[i] /\ (Wanted(t, i) <=> Wanted(q, i))
                             /\ (Behind(t, i) <=> Behind(q, i))
      /\ t[Len(q) + 1] = e
      /\ Behind(t, Len(q) + 1) <=> \E j \in DOMAIN q : q[j] = MappingNotify
  BY <1>1, <1>2, <1>3, <1>4
<1>. QED  BY <1>5 DEF t

LEMMA Unqueued ==
  ASSUME NEW q \in Seq(Msgs), q # <<>>
  PROVE  LET t == Tail(q) IN
         /\ Len(q) \in Nat /\ Len(t) = Len(q) - 1
         /\ DOMAIN q = 1 .. Len(q) /\ DOMAIN t = 1 .. Len(q) - 1 /\ 1 \in DOMAIN q
         /\ \A i \in DOMAIN t : /\ i + 1 \in DOMAIN q /\ t[i] = q[i + 1]
                                /\ Wanted(t, i) <=> Wanted(q, i + 1)
                                /\ Behind(q, i + 1) <=> Behind(t, i) \/ Head(q) = MappingNotify
<1>. DEFINE t == Tail(q)
<1>1. /\ Len(q) \in Nat /\ Len(t) = Len(q) - 1
      /\ DOMAIN q = 1 .. Len(q) /\ DOMAIN t = 1 .. Len(q) - 1 /\ 1 \in 1 .. Len(q)
      /\ \A i \in 1 .. Len(q) - 1 : i + 1 \in 1 .. Len(q) /\ t[i] = q[i + 1]
      /\ Head(q) = q[1]
  OBVIOUS
<1>. HIDE DEF t
<1>2. ASSUME NEW i \in 1 .. Len(q) - 1
      PROVE  Behind(q, i + 1) <=> Behind(t, i) \/ Head(q) = MappingNotify
  <2>1. ASSUME Behind(q, i + 1), Head(q) # MappingNotify PROVE Behind(t, i)
    <3>1. PICK j \in 1 .. Len(q) : j < i + 1 /\ q[j] = MappingNotify
      BY <1>1, <2>1 DEF Behind
    <3>2. j # 1
      BY <1>1, <2>1, <3>1
    <3>3. j - 1 \in 1 .. Len(q) - 1 /\ j - 1 < i /\ (j - 1) + 1 = j
      BY <1>1, <3>1, <3>2
    <3>4. t[j - 1] = q[j]
      BY <1>1, <3>3
    <3>. QED  BY <1>1, <3>1, <3>3, <3>4 DEF Behind
  <2>2. ASSUME Behind(t, i) PROVE Behind(q, i + 1)
    <3>1. PICK j \in 1 .. Len(q) - 1 : j < i /\ t[j] = MappingNotify
      BY <1>1, <2>2 DEF Behind
    <3>2. j + 1 \in 1 .. Len(q) /\ j + 1 < i + 1 /\ q[j + 1] = MappingNotify
      BY <1>1, <3>1
    <3>. QED  BY <1>1, <3>2 DEF Behind
  <2>3. ASSUME Head(q) = MappingNotify PROVE Behind(q, i + 1)
    <3>1. 1 \in 1 .. Len(q) /\ 1 < i + 1
      BY <1>1
    <3>. QED  BY <1>1, <2>3, <3>1 DEF Behind
  <2>. QED  BY <2>1, <2>2, <2>3
<1>3. \A i \in 1 .. Len(q) - 1 : Wanted(t, i) <=> Wanted(q, i + 1)
  BY <1>1 DEF Wanted
<1>4. /\ Len(q) \in Nat /\ Len(t) = Len(q) - 1
      /\ DOMAIN q = 1 .. Len(q) /\ DOMAIN t = 1 .. Len(q) - 1 /\ 1 \in DOMAIN q
      /\ \A i \in DOMAIN t : /\ i + 1 \in DOMAIN q /\ t[i] = q[i + 1]
                             /\ Wanted(t, i) <=> Wanted(q, i + 1)
                             /\ Behind(q, i + 1) <=> Behind(t, i) \/ Head(q) = MappingNotify
  BY <1>1, <1>2, <1>3
<1>. QED  BY <1>4 DEF t

\* Every spare keycode falls due, and one at a time.
LEMMA DueOnce ==
  ASSUME NEW m, Lists(m)
  PROVE  /\ Len(m) \in Nat \ {0}
         /\ \A p \in 1 .. Len(m) : Due(m, p) \in SpareCodes
         /\ \A p, r \in 1 .. Len(m) : Due(m, p) = Due(m, r) => p = r
         /\ Due(m, Len(m)) = Head(m).code
<1>. DEFINE n == Len(m)
            at(p) == IF p < n THEN p + 1 ELSE 1
<1>1. n \in Nat \ {0} /\ m \in Seq(Memory)
  BY SpareSome DEF Lists
<1>2. /\ \A p \in 1 .. n : at(p) \in 1 .. n
      /\ \A p, r \in 1 .. n : at(p) = at(r) => p = r
      /\ at(n) = 1
  BY <1>1
<1>3. \A p : Due(m, p) = m[at(p)].code
  BY DEF Due
<1>4. Head(m) = m[1]
  BY <1>1
<1>. HIDE DEF at
<1>5. \A p \in 1 .. n : Due(m, p) \in SpareCodes
  BY <1>2, <1>3, PlaceGood
<1>6. \A p, r \in 1 .. n : Due(m, p) = Due(m, r) => p = r
  <2>1. \A i, j \in 1 .. n : m[i].code = m[j].code => i = j
    BY DEF Lists
  <2>. QED  BY <1>2, <1>3, <2>1
<1>7. Due(m, n) = Head(m).code
  BY <1>2, <1>3, <1>4
<1>. QED  BY <1>1, <1>5, <1>6, <1>7

\* How far a press is from the end of the queue, and by which map it is read.
LEMMA SpacedPress ==
  ASSUME NEW m, Lists(m), NEW q \in Seq(Msgs), NEW e \in Msgs,
         NEW was, NEW is, Spaced(m, q, was),
         e # MappingNotify,
         e.want # NoSym /\ e.code \in SpareCodes => e.code = Head(m).code
  PROVE  Spaced(m, Append(q, e), is)
<1>. DEFINE t == Append(q, e)
            n == Len(m)
            N == Len(q)
<1>1. /\ N \in Nat /\ Len(t) = N + 1 /\ DOMAIN q = 1 .. N /\ DOMAIN t = 1 .. N + 1
      /\ \A i \in DOMAIN q : t[i] = q[i] /\ (Wanted(t, i) <=> Wanted(q, i))
                             /\ (Behind(t, i) <=> Behind(q, i))
      /\ t[N + 1] = e
  BY Queued
<1>2. /\ n \in Nat \ {0} /\ Due(m, n) = Head(m).code
      /\ \A p \in 1 .. n : Due(m, p) \in SpareCodes
      /\ \A p, r \in 1 .. n : Due(m, p) = Due(m, r) => p = r
  BY DueOnce
<1>. HIDE DEF t, n, N
<1>. SUFFICES ASSUME NEW p \in 1 .. n, NEW i \in DOMAIN t,
                     Wanted(t, i), Behind(t, i), t[i].code = Due(m, p)
              PROVE  Len(t) - i >= 2 * (n - p) - (IF is THEN 1 ELSE 0)
  BY DEF Spaced, t, n
<1>3. CASE i \in DOMAIN q
  <2>1. N - i >= 2 * (n - p) - (IF was THEN 1 ELSE 0)
    BY <1>1, <1>3 DEF Spaced, n, N
  <2>2. (IF was THEN 1 ELSE 0) <= 1 /\ (IF is THEN 1 ELSE 0) >= 0
        /\ (IF was THEN 1 ELSE 0) \in Int /\ (IF is THEN 1 ELSE 0) \in Int
    OBVIOUS
  <2>. QED  BY <1>1, <1>2, <1>3, <2>1, <2>2
<1>4. CASE i \notin DOMAIN q
  <2>1. i = N + 1 /\ t[i] = e
    BY <1>1, <1>4
  <2>2. e.want # NoSym /\ e.code = Due(m, p)
    BY <2>1 DEF Wanted
  <2>3. Due(m, p) = Due(m, n) /\ n \in 1 .. n
    BY <1>2, <2>2
  <2>4. p = n
    BY <1>2, <2>3
  <2>. QED  BY <1>1, <1>2, <2>1, <2>4
<1>. QED  BY <1>3, <1>4

LEMMA SpacedLess ==
  ASSUME NEW m, NEW q, NEW was, NEW is, Spaced(m, q, was), was => is, Len(m) \in Nat, Len(q) \in Nat,
         DOMAIN q = 1 .. Len(q)
  PROVE  Spaced(m, q, is)
<1>. SUFFICES ASSUME NEW p \in 1 .. Len(m), NEW i \in DOMAIN q,
                     Wanted(q, i), Behind(q, i), q[i].code = Due(m, p)
              PROVE  Len(q) - i >= 2 * (Len(m) - p) - (IF is THEN 1 ELSE 0)
  BY DEF Spaced
<1>1. Len(q) - i >= 2 * (Len(m) - p) - (IF was THEN 1 ELSE 0)
  BY DEF Spaced
<1>2. CASE is
  BY <1>1, <1>2
<1>3. CASE ~is
  BY <1>1, <1>3
<1>. QED  BY <1>2, <1>3

\* The keycode due is mapped, and comes last now.
Turned(m, t) ==
  /\ Len(t) = Len(m) /\ Due(t, Len(t)) = Due(m, 1)
  /\ \A p \in 1 .. Len(m) - 1 : Due(t, p) = Due(m, p + 1)

LEMMA SpacedRemap ==
  ASSUME NEW m, Lists(m), NEW t, Turned(m, t), NEW q \in Seq(Msgs), Spaced(m, q, FALSE)
  PROVE  Spaced(t, Append(q, MappingNotify), TRUE)
<1>. DEFINE u == Append(q, MappingNotify)
            n == Len(m)
            N == Len(q)
<1>1. /\ N \in Nat /\ Len(u) = N + 1 /\ DOMAIN q = 1 .. N /\ DOMAIN u = 1 .. N + 1
      /\ \A i \in DOMAIN q : u[i] = q[i] /\ (Wanted(u, i) <=> Wanted(q, i))
                             /\ (Behind(u, i) <=> Behind(q, i))
      /\ u[N + 1] = MappingNotify
  <2>1. MappingNotify \in Msgs
    BY DEF Msgs
  <2>. QED  BY <2>1, Queued
<1>2. n \in Nat \ {0}
  BY DueOnce
<1>. HIDE DEF u, n, N
<1>. SUFFICES ASSUME NEW p \in 1 .. n, NEW i \in DOMAIN u,
                     Wanted(u, i), Behind(u, i), u[i].code = Due(t, p)
              PROVE  Len(u) - i >= 2 * (n - p) - 1
  BY DEF Spaced, u, n, Turned
<1>3. i \in DOMAIN q
  <2>1. i # N + 1
    BY <1>1 DEF Wanted
  <2>. QED  BY <1>1, <2>1
<1>4. CASE p = n
  BY <1>1, <1>2, <1>3, <1>4
<1>5. CASE p # n
  <2>1. p \in 1 .. n - 1 /\ p + 1 \in 1 .. n
    BY <1>2, <1>5
  <2>2. q[i].code = Due(m, p + 1) /\ Wanted(q, i) /\ Behind(q, i)
    BY <1>1, <1>3, <2>1 DEF Turned, n
  <2>3. N - i >= 2 * (n - (p + 1)) - 0
    BY <1>3, <2>1, <2>2 DEF Spaced, n, N
  <2>. QED  BY <1>1, <1>2, <1>3, <2>3
<1>. QED  BY <1>4, <1>5

LEMMA SpacedRead ==
  ASSUME NEW m, Lists(m), NEW q \in Seq(Msgs), q # <<>>, NEW is, Spaced(m, q, is)
  PROVE  Spaced(m, Tail(q), is) /\ (Clear(m, q) => Clear(m, Tail(q)))
<1>. DEFINE t == Tail(q)
<1>1. /\ Len(q) \in Nat /\ Len(t) = Len(q) - 1
      /\ DOMAIN q = 1 .. Len(q) /\ DOMAIN t = 1 .. Len(q) - 1
      /\ \A i \in DOMAIN t : /\ i + 1 \in DOMAIN q /\ t[i] = q[i + 1]
                             /\ Wanted(t, i) <=> Wanted(q, i + 1)
                             /\ Behind(q, i + 1) <=> Behind(t, i) \/ Head(q) = MappingNotify
  BY Unqueued
<1>2. Len(m) \in Nat
  BY DueOnce
<1>. HIDE DEF t
<1>3. Spaced(m, t, is)
  <2>. SUFFICES ASSUME NEW p \in 1 .. Len(m), NEW i \in DOMAIN t,
                       Wanted(t, i), Behind(t, i), t[i].code = Due(m, p)
                PROVE  Len(t) - i >= 2 * (Len(m) - p) - (IF is THEN 1 ELSE 0)
    BY DEF Spaced
  <2>1. i + 1 \in DOMAIN q /\ Wanted(q, i + 1) /\ Behind(q, i + 1) /\ q[i + 1].code = Due(m, p)
    BY <1>1
  <2>2. Len(q) - (i + 1) >= 2 * (Len(m) - p) - (IF is THEN 1 ELSE 0)
    BY <2>1 DEF Spaced
  <2>3. Len(q) - (i + 1) = Len(t) - i
    BY <1>1
  <2>. QED  BY <2>2, <2>3
<1>4. Clear(m, q) => Clear(m, t)
  BY <1>1 DEF Clear
<1>. QED  BY <1>3, <1>4 DEF t

LEMMA ClearPress ==
  ASSUME NEW m, NEW q \in Seq(Msgs), NEW e \in Msgs, Clear(m, q),
         e # MappingNotify /\ e.want # NoSym => e.code # Due(m, 1)
  PROVE  Clear(m, Append(q, e))
<1>. DEFINE t == Append(q, e)
<1>1. /\ Len(q) \in Nat /\ DOMAIN q = 1 .. Len(q) /\ DOMAIN t = 1 .. Len(q) + 1
      /\ \A i \in DOMAIN q : t[i] = q[i] /\ (Wanted(t, i) <=> Wanted(q, i))
                             /\ (Behind(t, i) <=> Behind(q, i))
      /\ t[Len(q) + 1] = e
  BY Queued
<1>. HIDE DEF t
<1>2. ASSUME NEW i \in DOMAIN t, Wanted(t, i), Behind(t, i) PROVE t[i].code # Due(m, 1)
  <2>1. CASE i \in DOMAIN q
    BY <1>1, <1>2, <2>1 DEF Clear
  <2>2. CASE i \notin DOMAIN q
    <3>1. i = Len(q) + 1
      BY <1>1, <2>2
    <3>. QED  BY <1>1, <1>2, <3>1 DEF Wanted
  <2>. QED  BY <2>1, <2>2
<1>. QED  BY <1>2 DEF Clear, t

\* With fewer messages than two for each spare keycode, and none to come for
\* the keycode mapped last, nothing is mapped too soon.
LEMMA ClearBehind ==
  ASSUME NEW m, Lists(m), NEW q \in Seq(Msgs), Spaced(m, q, FALSE), Len(q) < 2 * Len(Spare)
  PROVE  Clear(m, q)
<1>1. Len(m) = Len(Spare) /\ Len(m) \in Nat \ {0}
  BY DueOnce DEF Lists
<1>. SUFFICES ASSUME NEW i \in DOMAIN q, Wanted(q, i), Behind(q, i), q[i].code = Due(m, 1) PROVE FALSE
  BY DEF Clear
<1>2. Len(q) \in Nat /\ i \in 1 .. Len(q)
  OBVIOUS
<1>3. i >= 2
  BY <1>2 DEF Behind
<1>4. Len(q) - i >= 2 * (Len(m) - 1) - 0
  BY <1>1 DEF Spaced
<1>. QED  BY <1>1, <1>2, <1>3, <1>4

\* What the presses say.
LEMMA RightPress ==
  ASSUME NEW q \in Seq(Msgs), NEW e \in Msgs, NEW kmap, NEW app, NEW lost,
         Right(q, kmap, app, lost), e # MappingNotify, e.want # NoSym => Says(e, kmap, lost)
  PROVE  Right(Append(q, e), kmap, app, lost)
<1>. DEFINE t == Append(q, e)
            map(b) == IF b THEN kmap ELSE app
<1>1. /\ Len(q) \in Nat /\ DOMAIN q = 1 .. Len(q) /\ DOMAIN t = 1 .. Len(q) + 1
      /\ \A i \in DOMAIN q : t[i] = q[i] /\ (Wanted(t, i) <=> Wanted(q, i))
                             /\ (Behind(t, i) <=> Behind(q, i))
      /\ t[Len(q) + 1] = e
      /\ Behind(t, Len(q) + 1) <=> \E j \in DOMAIN q : q[j] = MappingNotify
  BY Queued
<1>. HIDE DEF t
<1>2. ASSUME NEW i \in DOMAIN t, Wanted(t, i) PROVE Says(t[i], map(Behind(t, i)), lost)
  <2>1. CASE i \in DOMAIN q
    <3>1. Says(q[i], map(Behind(q, i)), lost)
      BY <1>1, <1>2, <2>1 DEF Right
    <3>2. t[i] = q[i] /\ (Behind(t, i) <=> Behind(q, i))
      BY <1>1, <2>1
    <3>. QED  BY <3>1, <3>2
  <2>2. CASE i \notin DOMAIN q
    <3>1. i = Len(q) + 1 /\ t[i] = e
      BY <1>1, <2>2
    <3>2. Says(e, kmap, lost)
      BY <1>2, <3>1 DEF Wanted
    <3>3. map(Behind(t, i)) = kmap
      BY <1>1, <3>1 DEF Right
    <3>. QED  BY <3>1, <3>2, <3>3
  <2>. QED  BY <2>1, <2>2
<1>3. (\A j \in DOMAIN t : t[j] # MappingNotify) => app = kmap
  <2>1. \A j \in DOMAIN q : j \in DOMAIN t /\ t[j] = q[j]
    BY <1>1
  <2>. QED  BY <2>1 DEF Right
<1>. QED  BY <1>2, <1>3 DEF Right, t

LEMMA RightRemap ==
  ASSUME NEW m, Lists(m), NEW q \in Seq(Msgs), NEW kmap \in Kmaps, NEW app, NEW lost, NEW s,
         Right(q, kmap, app, lost), Clear(m, q)
  PROVE  Right(Append(q, MappingNotify), [kmap EXCEPT ![Due(m, 1)] = s], app, lost)
<1>. DEFINE t == Append(q, MappingNotify)
            k == [kmap EXCEPT ![Due(m, 1)] = s]
            map(b) == IF b THEN kmap ELSE app
            to(b) == IF b THEN k ELSE app
<1>1. /\ Len(q) \in Nat /\ DOMAIN q = 1 .. Len(q) /\ DOMAIN t = 1 .. Len(q) + 1
      /\ \A i \in DOMAIN q : t[i] = q[i] /\ (Wanted(t, i) <=> Wanted(q, i))
                             /\ (Behind(t, i) <=> Behind(q, i))
      /\ t[Len(q) + 1] = MappingNotify
  <2>1. MappingNotify \in Msgs
    BY DEF Msgs
  <2>. QED  BY <2>1, Queued
<1>2. \A c \in SpareCodes : c # Due(m, 1) => k[c] = kmap[c]
  BY DEF Kmaps
<1>. HIDE DEF t, k
<1>3. ASSUME NEW i \in DOMAIN t, Wanted(t, i) PROVE Says(t[i], to(Behind(t, i)), lost)
  <2>1. i # Len(q) + 1
    BY <1>1, <1>3 DEF Wanted
  <2>2. i \in DOMAIN q
    BY <1>1, <2>1
  <2>3. t[i] = q[i] /\ (Behind(t, i) <=> Behind(q, i)) /\ Wanted(q, i)
    BY <1>1, <1>3, <2>2
  <2>4. Says(q[i], map(Behind(q, i)), lost)
    BY <2>2, <2>3 DEF Right
  <2>5. CASE Behind(q, i)
    <3>1. q[i].code # Due(m, 1)
      BY <2>2, <2>3, <2>5 DEF Clear
    <3>2. Says(q[i], kmap, lost)
      BY <2>4, <2>5
    <3>3. Says(q[i], k, lost)
      BY <1>2, <3>1, <3>2 DEF Says
    <3>. QED  BY <2>3, <2>5, <3>3
  <2>6. CASE ~Behind(q, i)
    BY <2>3, <2>4, <2>6
  <2>. QED  BY <2>5, <2>6
<1>4. Len(q) + 1 \in DOMAIN t /\ t[Len(q) + 1] = MappingNotify
  BY <1>1
<1>. QED  BY <1>3, <1>4 DEF Right, t, k

LEMMA RightRead ==
  ASSUME NEW q \in Seq(Msgs), q # <<>>, NEW kmap, NEW app, NEW lost, Right(q, kmap, app, lost)
  PROVE  Right(Tail(q), kmap, IF Head(q) = MappingNotify THEN kmap ELSE app, lost)
<1>. DEFINE t == Tail(q)
            next == IF Head(q) = MappingNotify THEN kmap ELSE app
            map(b) == IF b THEN kmap ELSE app
            to(b) == IF b THEN kmap ELSE next
<1>1. /\ Len(q) \in Nat /\ Len(t) = Len(q) - 1
      /\ DOMAIN q = 1 .. Len(q) /\ DOMAIN t = 1 .. Len(q) - 1 /\ Head(q) = q[1]
      /\ \A i \in DOMAIN t : /\ i + 1 \in DOMAIN q /\ t[i] = q[i + 1]
                             /\ Wanted(t, i) <=> Wanted(q, i + 1)
                             /\ Behind(q, i + 1) <=> Behind(t, i) \/ Head(q) = MappingNotify
  BY Unqueued
<1>. HIDE DEF t
<1>2. ASSUME NEW i \in DOMAIN t, Wanted(t, i) PROVE Says(t[i], to(Behind(t, i)), lost)
  <2>1. Says(q[i + 1], map(Behind(q, i + 1)), lost)
    BY <1>1, <1>2 DEF Right
  <2>2. map(Behind(q, i + 1)) = to(Behind(t, i))
    BY <1>1
  <2>. QED  BY <1>1, <2>1, <2>2
<1>3. (\A j \in DOMAIN t : t[j] # MappingNotify) => next = kmap
  <2>. SUFFICES ASSUME \A j \in DOMAIN t : t[j] # MappingNotify, Head(q) # MappingNotify PROVE app = kmap
    OBVIOUS
  <2>1. ASSUME NEW j \in DOMAIN q PROVE q[j] # MappingNotify
    <3>1. CASE j = 1
      BY <1>1, <3>1
    <3>2. CASE j # 1
      <4>1. j - 1 \in DOMAIN t /\ (j - 1) + 1 = j
        BY <1>1, <3>2
      <4>2. t[j - 1] = q[j]
        BY <1>1, <4>1
      <4>. QED  BY <4>1, <4>2
    <3>. QED  BY <3>1, <3>2
  <2>. QED  BY <2>1 DEF Right
<1>. QED  BY <1>2, <1>3 DEF Right, t

\* Let go of Shift, a press may say less.
LEMMA RightLost ==
  ASSUME NEW q, NEW kmap, NEW app, NEW was, NEW is, was => is, Right(q, kmap, app, was)
  PROVE  Right(q, kmap, app, is)
<1>1. \A e, k : Says(e, k, was) => Says(e, k, is)
  BY DEF Says
<1>. QED  BY <1>1 DEF Right

\* The first press says what it is to say, by the map the application has.
LEMMA RightFirst ==
  ASSUME NEW q \in Seq(Msgs), q # <<>>, NEW kmap, NEW app, NEW lost, Right(q, kmap, app, lost),
         Head(q) # MappingNotify, Head(q).want # NoSym
  PROVE  Says(Head(q), app, lost)
<1>1. 1 \in DOMAIN q /\ Head(q) = q[1] /\ DOMAIN q = 1 .. Len(q)
  OBVIOUS
<1>2. Wanted(q, 1) /\ ~Behind(q, 1)
  BY <1>1 DEF Wanted, Behind
<1>. QED  BY <1>1, <1>2 DEF Right

\* find_sym maps the keycode that is due, and no other.
LEMMA FindSymNew ==
  ASSUME NEW m, Lists(m), NEW d, NEW s, FindSym(s, m, d).group = "New"
  PROVE  LET f == FindSym(s, m, d)
         IN /\ s \notin DOMAIN Layout /\ Head(m).sym # s
            /\ f.dpy = Remap(d, Due(m, 1), s) /\ Turned(m, f.mut) /\ Head(f.mut).sym = s
<1>. DEFINE f == FindSym(s, m, d)
            n == Len(m)
            r == Append(Tail(m), Head(m))
            t == [r EXCEPT ![1].sym = s]
<1>0. n \in Nat \ {0} /\ m \in Seq(Memory)
  BY DueOnce DEF Lists
<1>1. s \notin DOMAIN Layout /\ Head(m).sym # s
  BY DEF FindSym, Found
<1>2. f = Found(Head(r).code, "New", t, Remap(d, Head(r).code, s))
  BY <1>1 DEF FindSym
<1>3. r \in Seq(Memory) /\ Len(r) = n /\ Head(r) = r[1] /\ r[1] \in Memory
  <2>1. Head(m) \in Memory /\ Tail(m) \in Seq(Memory) /\ Len(Tail(m)) = n - 1
    BY <1>0
  <2>2. r \in Seq(Memory) /\ Len(r) = n
    BY <1>0, <2>1
  <2>. QED  BY <1>0, <2>2
<1>4. \A i \in 1 .. n : r[i] = m[IF i < n THEN i + 1 ELSE 1]
  BY <1>0
<1>. HIDE DEF r
<1>5. Head(r).code = Due(m, 1)
  BY <1>0, <1>3, <1>4 DEF Due
<1>6. /\ Len(t) = n /\ t \in Seq(Memory \cup {[r[1] EXCEPT !.sym = s]})
      /\ t[1] = [r[1] EXCEPT !.sym = s] /\ \A i \in 2 .. n : t[i] = r[i]
  BY <1>0, <1>3
<1>7. t[1].sym = s /\ t[1].code = r[1].code
  BY <1>3, <1>6 DEF Memory
<1>. HIDE DEF t
<1>8. Head(t) = t[1]
  BY <1>0, <1>6
<1>9. \A i \in 1 .. n : t[i].code = Due(m, i)
  <2>. TAKE i \in 1 .. n
  <2>1. t[i].code = r[i].code
    <3>1. CASE i = 1
      BY <1>7, <3>1
    <3>2. CASE i # 1
      <4>1. i \in 2 .. n
        BY <3>2
      <4>. QED  BY <1>6, <4>1
    <3>. QED  BY <3>1, <3>2
  <2>. QED  BY <1>4, <2>1 DEF Due
<1>10. Due(t, n) = Due(m, 1)
  BY <1>0, <1>6, <1>9 DEF Due
<1>11. ASSUME NEW p \in 1 .. n - 1 PROVE Due(t, p) = Due(m, p + 1)
  <2>1. p + 1 \in 1 .. n /\ p < n
    BY <1>0
  <2>2. Due(t, p) = t[p + 1].code
    BY <1>6, <2>1 DEF Due
  <2>. QED  BY <1>9, <2>1, <2>2
<1>12. Turned(m, t)
  BY <1>6, <1>10, <1>11 DEF Turned
<1>. QED  BY <1>1, <1>2, <1>5, <1>7, <1>8, <1>12 DEF Found

\* What it answers of a symbol it finds.
LEMMA FindSymOld ==
  ASSUME NEW m, Lists(m), NEW d, NEW s, FindSym(s, m, d).group # "New"
  PROVE  LET f == FindSym(s, m, d)
         IN /\ f.mut = m /\ f.dpy = d /\ Has(s, m)
            /\ s \in DOMAIN Layout => f.code = Layout[s].code
            /\ s \notin DOMAIN Layout => f.code = Head(m).code
            /\ f.group = "Shift" <=> (s \in DOMAIN Layout /\ Layout[s].shift)
<1>. DEFINE f == FindSym(s, m, d)
<1>1. CASE s \in DOMAIN Layout
  <2>1. f = Found(Layout[s].code, IF Layout[s].shift THEN "Shift" ELSE "Old", m, d)
    BY <1>1 DEF FindSym
  <2>. QED  BY <1>1, <2>1 DEF Found, Has
<1>2. CASE s \notin DOMAIN Layout /\ Head(m).sym = s
  <2>1. f = Found(Head(m).code, "Old", m, d)
    BY <1>2 DEF FindSym
  <2>. QED  BY <1>2, <2>1 DEF Found, Has
<1>3. CASE s \notin DOMAIN Layout /\ Head(m).sym # s
  <2>1. PICK c, t : f = Found(c, "New", t, Remap(d, c, s))
    BY <1>3 DEF FindSym
  <2>. QED  BY <2>1 DEF Found
<1>. QED  BY <1>1, <1>2, <1>3

\* A step of an action.
Reads(a, m, d, r, app, lost) ==
  /\ Readable(r.act, r.mut, r.dpy, app, lost)
  /\ r.act = NoAct => Clear(r.mut, r.dpy.inbox)
  /\ Clear(m, d.inbox) /\ a.pressing /\ (a.kind = "mouse" \/ a.index <= Len(a.syms)) =>
       Clear(r.mut, r.dpy.inbox) \/ Ready(r.act, r.mut)

\* A keycode is mapped, and then the symbol it is mapped to is to be pressed.
LEMMA ReadsRemap ==
  ASSUME NEW m, NEW d \in Servers, Lists(m), NEW a, NEW b, NEW s, NEW app, NEW lost,
         a # NoAct, Readable(a, m, d, app, lost), Clear(m, d.inbox), ~Pending(a, m),
         FindSym(s, m, d).group = "New",
         b # NoAct, Pending(b, FindSym(s, m, d).mut)
  PROVE  LET f == FindSym(s, m, d)
         IN Spaced(f.mut, f.dpy.inbox, Pending(b, f.mut)) /\ Right(f.dpy.inbox, f.dpy.kmap, app, lost)
<1>. DEFINE f == FindSym(s, m, d)
<1>1. f.dpy = Remap(d, Due(m, 1), s) /\ Turned(m, f.mut)
  BY FindSymNew
<1>. HIDE DEF f
<1>2. f.dpy.inbox = Append(d.inbox, MappingNotify) /\ f.dpy.kmap = [d.kmap EXCEPT ![Due(m, 1)] = s]
  BY <1>1 DEF Remap
<1>3. d.inbox \in Seq(Msgs) /\ d.kmap \in Kmaps
  BY DEF Servers
<1>4. Spaced(m, d.inbox, FALSE)
  <2>. DEFINE was == Pending(a, m)
  <2>1. Spaced(m, d.inbox, was) /\ (was => FALSE)
    BY DEF Readable
  <2>. HIDE DEF was
  <2>. QED  BY <2>1 DEF Spaced
<1>5. Spaced(f.mut, Append(d.inbox, MappingNotify), TRUE)
  BY <1>1, <1>3, <1>4, SpacedRemap
<1>6. Right(Append(d.inbox, MappingNotify), [d.kmap EXCEPT ![Due(m, 1)] = s], app, lost)
  BY <1>3, RightRemap DEF Readable
<1>7. Pending(b, f.mut)
  BY DEF f
<1>8. Spaced(f.mut, f.dpy.inbox, Pending(b, f.mut))
  <2>1. (TRUE => Pending(b, f.mut))
    BY <1>7
  <2>2. Append(d.inbox, MappingNotify) \in Seq(Msgs)
    BY <1>3 DEF Msgs
  <2>3. Len(Append(d.inbox, MappingNotify)) \in Nat
        /\ DOMAIN Append(d.inbox, MappingNotify) = 1 .. Len(Append(d.inbox, MappingNotify))
    BY <2>2
  <2>4. Len(f.mut) \in Nat
    BY <1>1, DueOnce DEF Turned
  <2>. QED  BY <1>2, <1>5, <2>1, <2>3, <2>4, SpacedLess, Zenon
<1>. QED  BY <1>2, <1>6, <1>8 DEF f

\* A key is pressed or released.
LEMMA ReadsKey ==
  ASSUME NEW m, NEW d \in Servers, Lists(m), NEW c \in Codes, NEW press \in BOOLEAN,
         NEW want \in Symbols, NEW app, NEW lost, NEW was, NEW is,
         Spaced(m, d.inbox, was), Right(d.inbox, d.kmap, app, lost),
         press => /\ want # NoSym => Says(Press(c, ShiftKey \in d.pressed, want), d.kmap, lost)
                  /\ want # NoSym /\ c \in SpareCodes => c = Head(m).code,
         ~press => (was => is)
  PROVE  LET e == FakeKey(d, c, press, want)
         IN /\ Spaced(m, e.inbox, is) /\ Right(e.inbox, e.kmap, app, lost) /\ e.kmap = d.kmap
            /\ Clear(m, d.inbox) /\ (press => c # Due(m, 1) \/ want = NoSym) => Clear(m, e.inbox)
<1>. DEFINE e == FakeKey(d, c, press, want)
            p == Press(c, ShiftKey \in d.pressed, want)
<1>1. d.inbox \in Seq(Msgs) /\ Len(m) \in Nat
  BY DueOnce DEF Servers
<1>2. CASE press
  <2>1. e.inbox = Append(d.inbox, p) /\ e.kmap = d.kmap
    BY <1>2 DEF FakeKey, Servers
  <2>2. p \in Msgs /\ p # MappingNotify /\ p.code = c /\ p.want = want
    BY DEF Press, Msgs, MappingNotify
  <2>. HIDE DEF p, e
  <2>3. Spaced(m, Append(d.inbox, p), is)
    BY <1>1, <1>2, <2>2, SpacedPress
  <2>4. Right(Append(d.inbox, p), d.kmap, app, lost)
    <3>1. p.want # NoSym => Says(p, d.kmap, lost)
      BY <1>2, <2>2 DEF p
    <3>. QED  BY <1>1, <2>2, <3>1, RightPress
  <2>5. Clear(m, d.inbox) /\ (c # Due(m, 1) \/ want = NoSym) => Clear(m, Append(d.inbox, p))
    BY <1>1, <2>2, ClearPress
  <2>. QED  BY <1>2, <2>1, <2>3, <2>4, <2>5 DEF e
<1>3. CASE ~press
  <2>1. e.inbox = d.inbox /\ e.kmap = d.kmap
    BY <1>3 DEF FakeKey, Servers
  <2>. HIDE DEF e
  <2>2. Spaced(m, d.inbox, is)
    <3>1. Len(d.inbox) \in Nat /\ DOMAIN d.inbox = 1 .. Len(d.inbox)
      BY <1>1
    <3>. QED  BY <1>1, <1>3, <3>1, SpacedLess
  <2>. QED  BY <2>1, <2>2 DEF e
<1>. QED  BY <1>2, <1>3

\* The keycodes of the keyboard are no spare ones, and what mut_syms lists
\* first is on its keycode.
LEMMA CodesApart ==
  ASSUME NEW m, NEW d, Good(m, d, TRUE)
  PROVE  /\ \A s \in DOMAIN Layout : Layout[s].code \notin SpareCodes
         /\ Head(m).code \in SpareCodes /\ d.kmap[Head(m).code] = Head(m).sym
<1>1. m \in Seq(Memory) /\ Len(m) \in Nat \ {0} /\ Head(m) = m[1] /\ 1 \in 1 .. Len(m)
  BY SpareSome DEF Good, Lists
<1>2. Head(m).code \in SpareCodes
  BY <1>1, PlaceGood DEF Good
<1>3. d.kmap[Head(m).code] = Head(m).sym
  BY <1>1 DEF Good, Agrees
<1>. QED  BY <1>2, <1>3, XdoAssumption

LEMMA SaysTyped ==
  ASSUME NEW m, NEW d, Good(m, d, TRUE), NEW s, NEW c, NEW shift, NEW lost,
         s \in DOMAIN Layout => c = Layout[s].code /\ (shift = Layout[s].shift \/ (lost /\ ~shift)),
         s \notin DOMAIN Layout => c = Head(m).code /\ Head(m).sym = s
  PROVE  Says(Press(c, shift, s), d.kmap, lost)
<1>. DEFINE e == Press(c, shift, s)
<1>1. e.code = c /\ e.shift = shift /\ e.want = s
  BY DEF Press
<1>. HIDE DEF e
<1>2. Says(e, d.kmap, lost)
  BY <1>1, CodesApart DEF Says
<1>. QED  BY <1>2 DEF e

LEMMA RunTextReads ==
  ASSUME Legible, NEW m, NEW d, Good(m, d, TRUE), NEW a \in Runs, a.kind = "text",
         TextHeld(a, m, d.pressed), NEW app, NEW lost, Readable(a, m, d, app, lost),
         Clear(m, d.inbox) \/ Ready(a, m)
  PROVE  Reads(a, m, d, RunText(a, m, d), app, lost)
<1>. DEFINE s == a.syms[a.index]
            f == FindSym(s, m, d)
            n == Len(a.syms)
<1>0. /\ a.syms \in Seq(Syms) /\ a.index \in Nat \ {0} /\ a.pressing \in BOOLEAN
      /\ a.shifted \in BOOLEAN /\ n \in Nat /\ d \in Servers /\ a # NoAct /\ Lists(m)
      /\ d.inbox \in Seq(Msgs)
  BY RunIsAct DEF Runs, RunAct, Good, Servers
<1>1. CASE a.index > n
  <2>1. ~Pending(a, m) /\ Clear(m, d.inbox)
    BY <1>0, <1>1 DEF Pending, Ready
  <2>2. Readable(NoAct, m, d, app, lost)
    <3>1. Spaced(m, d.inbox, Pending(NoAct, m))
      BY <2>1 DEF Readable, Spaced
    <3>. QED  BY <3>1 DEF Readable
  <2>. QED  BY <1>0, <1>1, <2>1, <2>2 DEF RunText, Finished, Going, Reads
<1>2. CASE ~(a.index > n)
  <2>. DEFINE b     == [a EXCEPT !.shifted = a.pressing]
              e     == [a EXCEPT !.pressing = ~@, !.index = IF a.pressing THEN @ ELSE @ + 1]
              shift == FakeKey(f.dpy, ShiftKey, a.pressing, NoSym)
              key   == FakeKey(f.dpy, f.code, a.pressing, s)
  <2>1. a.index <= n /\ s \in Syms /\ s # NoSym /\ s \in Symbols /\ a.index \in DOMAIN a.syms
        /\ NoSym \in Symbols /\ ShiftKey \in Codes
    BY <1>0, <1>2, XdoAssumption DEF Symbols, Codes
  <2>2. f.code \in Codes
    BY <2>1, FindSymGood
  <2>3. RunText(a, m, d) =
          IF f.group = "New" THEN Going(a, f.mut, f.dpy)
          ELSE IF f.group = "Shift" /\ a.pressing # a.shifted THEN Going(b, f.mut, shift)
          ELSE Going(e, f.mut, key)
    BY <1>2 DEF RunText
  <2>4. /\ b.kind = "text" /\ b.syms = a.syms /\ b.index = a.index /\ b.pressing = a.pressing
        /\ b.shifted = a.pressing /\ b \in Runs
        /\ e.kind = "text" /\ e.syms = a.syms /\ e.shifted = a.shifted /\ e.pressing = ~a.pressing
        /\ e.index = IF a.pressing THEN a.index ELSE a.index + 1
    BY DEF Runs, RunAct
  <2>5. e \in Runs
    <3>1. \A p \in BOOLEAN, i \in Nat \ {0} : [a EXCEPT !.pressing = p, !.index = i] \in Runs
      BY DEF Runs, RunAct
    <3>2. (IF a.pressing THEN a.index ELSE a.index + 1) \in Nat \ {0} /\ (~a.pressing) \in BOOLEAN
      BY <1>0
    <3>. QED  BY <3>1, <3>2
  <2>6. b # NoAct /\ e # NoAct
    BY <2>4, <2>5, RunIsAct
  <2>7. Plain(a) /\ Steady(a, m) /\ (a.shifted /\ ~lost => ShiftKey \in d.pressed)
    BY <1>0 DEF Readable
  <2>8. Plain(b) /\ Plain(e)
    <3>. HIDE DEF b, e
    <3>. QED  BY <2>4, <2>7 DEF Plain
  <2>9. Spaced(m, d.inbox, Pending(a, m)) /\ Right(d.inbox, d.kmap, app, lost)
    BY DEF Readable
  <2>. HIDE DEF b, e
  <2>10. CASE f.group = "New"
    <3>1. /\ s \notin DOMAIN Layout /\ Head(m).sym # s /\ Head(f.mut).sym = s
          /\ f.dpy = Remap(d, Due(m, 1), s)
      BY <1>0, <2>10, FindSymNew
    <3>. HIDE DEF f
    <3>2. ~Has(s, m)
      BY <3>1 DEF Has
    <3>3. a.pressing /\ ~Pending(a, m) /\ ~Ready(a, m)
      BY <1>0, <2>1, <2>7, <3>1, <3>2 DEF Steady, Pending, Ready
    <3>4. Clear(m, d.inbox) /\ Pending(a, f.mut) /\ Ready(a, f.mut) /\ Steady(a, f.mut)
      BY <1>0, <2>1, <3>1, <3>3 DEF Pending, Ready, Steady, Has
    <3>5. Spaced(f.mut, f.dpy.inbox, Pending(a, f.mut)) /\ Right(f.dpy.inbox, f.dpy.kmap, app, lost)
      BY <1>0, <2>10, <3>3, <3>4, ReadsRemap DEF f
    <3>6. f.dpy.pressed = d.pressed
      BY <3>1 DEF Remap
    <3>7. Readable(a, f.mut, f.dpy, app, lost)
      BY <2>7, <3>4, <3>5, <3>6 DEF Readable
    <3>8. RunText(a, m, d) = Going(a, f.mut, f.dpy)
      BY <2>3, <2>10
    <3>. QED  BY <1>0, <3>4, <3>7, <3>8 DEF Going, Reads
  <2>11. CASE f.group # "New"
    <3>1. /\ f.mut = m /\ f.dpy = d /\ Has(s, m)
          /\ s \in DOMAIN Layout => f.code = Layout[s].code
          /\ s \notin DOMAIN Layout => f.code = Head(m).code /\ Head(m).sym = s
          /\ f.group = "Shift" <=> (s \in DOMAIN Layout /\ Layout[s].shift)
      BY <1>0, <2>11, FindSymOld DEF Has
    <3>2. shift = FakeKey(d, ShiftKey, a.pressing, NoSym) /\ key = FakeKey(d, f.code, a.pressing, s)
      BY <3>1
    <3>. HIDE DEF f, shift, key
    <3>3. CASE f.group = "Shift" /\ a.pressing # a.shifted
      <4>1. s \in DOMAIN Layout
        BY <3>1, <3>3
      <4>2. Pending(a, m) <=> FALSE
        BY <4>1 DEF Pending
      <4>3. Spaced(m, shift.inbox, Pending(b, m)) /\ Right(shift.inbox, shift.kmap, app, lost)
        BY <1>0, <2>1, <2>9, <3>2, <4>2, ReadsKey
      <4>4. Steady(b, m) /\ Ready(b, m)
        BY <2>1, <2>4, <2>6, <3>1 DEF Steady, Ready
      <4>5. b.shifted => ShiftKey \in shift.pressed
        <5>. SUFFICES ASSUME a.pressing = TRUE PROVE ShiftKey \in shift.pressed
          BY <1>0, <2>4
        <5>1. shift = FakeKey(d, ShiftKey, TRUE, NoSym)
          BY <3>2
        <5>. HIDE DEF shift
        <5>2. d \in Servers
          BY <1>0
        <5>3. FakeKey(d, ShiftKey, TRUE, NoSym).pressed = d.pressed \cup {ShiftKey}
          BY <5>2, FakePressed
        <5>. QED  BY <5>1, <5>3
      <4>6. RunText(a, m, d) = Going(b, m, shift)
        BY <2>3, <2>11, <3>1, <3>3
      <4>. QED  BY <2>6, <2>8, <4>3, <4>4, <4>5, <4>6 DEF Going, Reads, Readable
    <3>4. CASE ~(f.group = "Shift" /\ a.pressing # a.shifted)
      <4>1. a.pressing => Says(Press(f.code, ShiftKey \in d.pressed, s), d.kmap, lost)
        <5>. SUFFICES ASSUME a.pressing PROVE Says(Press(f.code, ShiftKey \in d.pressed, s), d.kmap, lost)
          OBVIOUS
        <5>1. ASSUME s \in DOMAIN Layout, Layout[s].shift = TRUE
              PROVE  (ShiftKey \in d.pressed) = Layout[s].shift \/ (lost /\ ~(ShiftKey \in d.pressed))
          <6>1. ShiftKey \in d.pressed \/ lost
            BY <2>7, <3>1, <3>4, <5>1
          <6>. QED  BY <5>1, <6>1
        <5>2. ASSUME s \in DOMAIN Layout, Layout[s].shift = FALSE
              PROVE  (ShiftKey \in d.pressed) = Layout[s].shift
          <6>1. ~(ShiftKey \in d.pressed)
            BY <5>2 DEF TextHeld
          <6>2. (ShiftKey \in d.pressed) = FALSE
            BY <6>1
          <6>. QED  BY <5>2, <6>2
        <5>3. s \in DOMAIN Layout => Layout[s].shift \in BOOLEAN
          BY XdoAssumption
        <5>4. s \in DOMAIN Layout =>
                (ShiftKey \in d.pressed) = Layout[s].shift \/ (lost /\ ~(ShiftKey \in d.pressed))
          BY <5>1, <5>2, <5>3
        <5>. QED  BY <3>1, <5>4, SaysTyped
      <4>2. f.code \in SpareCodes => f.code = Head(m).code
        BY <3>1, CodesApart
      <4>3. ~a.pressing => ~Pending(a, m)
        BY DEF Pending
      <4>4. Spaced(m, key.inbox, Pending(e, m)) /\ Right(key.inbox, key.kmap, app, lost)
        <5>. DEFINE was == Pending(a, m)
                    is  == Pending(e, m)
        <5>1. /\ a.pressing => /\ s # NoSym => Says(Press(f.code, ShiftKey \in d.pressed, s), d.kmap, lost)
                               /\ s # NoSym /\ f.code \in SpareCodes => f.code = Head(m).code
              /\ ~a.pressing => (was => is)
          BY <4>1, <4>2, <4>3
        <5>2. Spaced(m, d.inbox, was) /\ Right(d.inbox, d.kmap, app, lost)
          BY <2>9
        <5>. HIDE DEF was, is, s
        <5>3. d \in Servers /\ Lists(m) /\ f.code \in Codes /\ a.pressing \in BOOLEAN /\ s \in Symbols
          BY <1>0, <2>1, <2>2
        <5>4. Spaced(m, key.inbox, is) /\ Right(key.inbox, key.kmap, app, lost)
          BY <3>2, <5>1, <5>2, <5>3, ReadsKey
        <5>. QED  BY <5>4 DEF is
      <4>5. Steady(e, m) /\ (a.pressing => Ready(e, m))
        BY <1>0, <2>1, <2>4, <2>6, <3>1 DEF Steady, Ready
      <4>6. a.shifted => a.pressing
        BY <1>0, <2>1, <3>1, <3>4 DEF TextHeld
      <4>7. e.shifted /\ ~lost => ShiftKey \in key.pressed
        <5>. SUFFICES ASSUME a.shifted, ~lost, a.pressing = TRUE PROVE ShiftKey \in key.pressed
          BY <1>0, <2>4, <4>6
        <5>1. key = FakeKey(d, f.code, TRUE, s)
          BY <3>2
        <5>. HIDE DEF s, f, key
        <5>2. d \in Servers
          BY <1>0
        <5>3. FakeKey(d, f.code, TRUE, s).pressed = d.pressed \cup {f.code}
          BY <5>2, FakePressed
        <5>4. key.pressed = d.pressed \cup {f.code}
          BY <5>1, <5>3
        <5>. QED  BY <2>7, <5>4
      <4>8. RunText(a, m, d) = Going(e, m, key)
        BY <2>3, <2>11, <3>1, <3>4
      <4>. QED  BY <2>6, <2>8, <4>4, <4>5, <4>7, <4>8 DEF Going, Reads, Readable
    <3>. QED  BY <3>3, <3>4
  <2>. QED  BY <2>10, <2>11
<1>. QED  BY <1>1, <1>2

\* Symbols that no key has are all on the keycode mapped last, if one is.
LEMMA HasAll ==
  ASSUME NEW a, a.kind = "keys", OneSpare(a), NEW m, NEW i \in DOMAIN a.syms,
         a.syms[i] \notin DOMAIN Layout, Head(m).sym = a.syms[i]
  PROVE  \A j \in DOMAIN a.syms : Has(a.syms[j], m)
  BY DEF OneSpare, Has

LEMMA RunKeysReads ==
  ASSUME Legible, NEW m, NEW d, Good(m, d, TRUE), NEW a \in Runs, a.kind = "keys", OneSpare(a),
         KeysHeld(a, m, d.pressed), NEW app, NEW lost, Readable(a, m, d, app, lost),
         Clear(m, d.inbox) \/ Ready(a, m)
  PROVE  Reads(a, m, d, RunKeys(a, m, d), app, lost)
<1>. DEFINE n     == Len(a.syms)
            turn  == a.pressing /\ a.index > n
            index == IF turn THEN 1 ELSE a.index
            press == a.pressing /\ ~turn
            s     == a.syms[index]
            f     == FindSym(s, m, d)
            b     == [a EXCEPT !.index = index, !.pressing = press]
            e     == [b EXCEPT !.index = @ + 1]
            key   == FakeKey(f.dpy, f.code, press, s)
<1>0. /\ a.syms \in Seq(Syms) /\ a.index \in Nat \ {0} /\ a.pressing \in BOOLEAN
      /\ n \in Nat /\ DOMAIN a.syms = 1 .. n /\ d \in Servers /\ a # NoAct /\ Lists(m)
      /\ n = 0 => a.syms = <<>>
  BY RunIsAct DEF Runs, RunAct, Good
<1>1. index \in Nat \ {0} /\ press \in BOOLEAN
  BY <1>0
<1>2. RunKeys(a, m, d) =
        IF index > n THEN Finished(m, d)
        ELSE IF f.group = "New" THEN Going(b, f.mut, f.dpy) ELSE Going(e, f.mut, key)
  BY DEF RunKeys
<1>3. b.syms = a.syms /\ b.kind = "keys" /\ b.index = index /\ b.pressing = press /\ b \in Runs
  <2>. HIDE DEF index, press
  <2>. QED  BY <1>1 DEF Runs, RunAct
<1>4. e.syms = a.syms /\ e.kind = "keys" /\ e.index = index + 1 /\ e.pressing = press /\ e \in Runs
  <2>. HIDE DEF b
  <2>. QED  BY <1>1, <1>3 DEF Runs, RunAct
<1>5. b # NoAct /\ e # NoAct
  BY <1>3, <1>4, RunIsAct
<1>6. Steady(a, m) /\ Plain(a)
      /\ Spaced(m, d.inbox, Pending(a, m)) /\ Right(d.inbox, d.kmap, app, lost)
  BY <1>0 DEF Readable
<1>7. Plain(b) /\ Plain(e) /\ OneSpare(b)
  <2>. HIDE DEF b, e
  <2>. QED  BY <1>3, <1>4, <1>6 DEF Plain, OneSpare
<1>8. /\ a.pressing /\ a.index <= n => press /\ index = a.index
      /\ press => a.pressing /\ index = a.index /\ a.index <= n
      /\ index > n /\ a.pressing => n = 0
  BY <1>0
<1>9. ~press => \A j \in DOMAIN a.syms : Has(a.syms[j], m)
  <2>. SUFFICES ASSUME ~press, NEW j \in DOMAIN a.syms PROVE Has(a.syms[j], m)
    OBVIOUS
  <2>1. ~a.pressing \/ j < a.index
    BY <1>0
  <2>. QED  BY <1>6, <2>1 DEF Steady
<1>10. ~press => ~Pending(a, m)
  BY <1>8 DEF Pending
<1>. HIDE DEF n, turn, index, press, b, e
<1>11. CASE index > n
  <2>1. ~Pending(a, m) /\ ~Ready(a, m)
    BY <1>0, <1>8, <1>11 DEF Pending, Ready, n
  <2>2. Clear(m, d.inbox)
    BY <2>1
  <2>3. Readable(NoAct, m, d, app, lost)
    <3>1. Spaced(m, d.inbox, Pending(NoAct, m))
      BY <1>6, <2>1 DEF Spaced
    <3>. QED  BY <1>6, <3>1 DEF Readable
  <2>4. RunKeys(a, m, d) = Finished(m, d)
    BY <1>2, <1>11
  <2>. QED  BY <2>2, <2>3, <2>4 DEF Finished, Going, Reads
<1>12. CASE ~(index > n)
  <2>1. s \in Syms /\ s # NoSym /\ s \in Symbols /\ index \in DOMAIN a.syms /\ index <= n
    BY <1>0, <1>1, <1>12, XdoAssumption DEF Symbols
  <2>2. f.code \in Codes
    BY <2>1, FindSymGood
  <2>3. CASE f.group = "New"
    <3>1. /\ s \notin DOMAIN Layout /\ Head(m).sym # s /\ Head(f.mut).sym = s
          /\ f.dpy = Remap(d, Due(m, 1), s)
      BY <1>0, <2>3, FindSymNew
    <3>. HIDE DEF f
    <3>2. ~Has(s, m)
      BY <3>1 DEF Has
    <3>3. press
      BY <1>9, <2>1, <3>2
    <3>4. ~Pending(a, m) /\ ~Ready(a, m)
      BY <1>8, <2>1, <3>1, <3>2, <3>3 DEF Pending, Ready
    <3>5. \A j \in DOMAIN b.syms : Has(b.syms[j], f.mut)
      <4>1. b.kind = "keys" /\ OneSpare(b) /\ index \in DOMAIN b.syms /\ b.syms[index] = s
        BY <1>3, <1>7, <2>1
      <4>. QED  BY <3>1, <4>1, HasAll
    <3>6. Ready(b, f.mut) /\ Steady(b, f.mut) /\ Pending(b, f.mut)
      BY <1>0, <1>3, <1>5, <2>1, <3>1, <3>3, <3>5 DEF Ready, Steady, Pending, n
    <3>7. Clear(m, d.inbox)
      BY <3>4
    <3>8. Spaced(f.mut, f.dpy.inbox, Pending(b, f.mut)) /\ Right(f.dpy.inbox, f.dpy.kmap, app, lost)
      BY <1>0, <1>5, <2>3, <3>4, <3>6, <3>7, ReadsRemap DEF f
    <3>9. Readable(b, f.mut, f.dpy, app, lost)
      BY <1>3, <1>7, <3>6, <3>8 DEF Readable
    <3>10. RunKeys(a, m, d) = Going(b, f.mut, f.dpy)
      BY <1>2, <1>12, <2>3
    <3>. QED  BY <1>5, <3>6, <3>9, <3>10 DEF Going, Reads
  <2>4. CASE f.group # "New"
    <3>1. /\ f.mut = m /\ f.dpy = d /\ Has(s, m)
          /\ s \in DOMAIN Layout => f.code = Layout[s].code
          /\ s \notin DOMAIN Layout => f.code = Head(m).code /\ Head(m).sym = s
      BY <1>0, <2>4, FindSymOld DEF Has
    <3>2. key = FakeKey(d, f.code, press, s)
      BY <3>1
    <3>3. RunKeys(a, m, d) = Going(e, m, key)
      BY <1>2, <1>12, <2>4, <3>1
    <3>. HIDE DEF f, key
    <3>4. ShiftKey \notin d.pressed
      <4>. SUFFICES ASSUME ShiftKey \in d.pressed PROVE FALSE
        OBVIOUS
      <4>1. PICK j \in DOMAIN a.syms : On(a.syms[j], ShiftKey, m)
        BY DEF KeysHeld
      <4>2. CASE a.syms[j] \in DOMAIN Layout
        BY <1>6, <4>1, <4>2 DEF On, Plain
      <4>3. CASE a.syms[j] \notin DOMAIN Layout
        BY <4>1, <4>3, CodesApart DEF On, Legible
      <4>. QED  BY <4>2, <4>3
    <3>5. Says(Press(f.code, ShiftKey \in d.pressed, s), d.kmap, lost)
      <4>1. s \in DOMAIN Layout => Layout[s].shift = FALSE
        <5>1. s \in DOMAIN Layout => Layout[s].shift \in BOOLEAN
          BY XdoAssumption
        <5>. QED  BY <1>6, <2>1, <5>1 DEF Plain
      <4>2. (ShiftKey \in d.pressed) = FALSE
        BY <3>4
      <4>3. s \in DOMAIN Layout => (ShiftKey \in d.pressed) = Layout[s].shift
        BY <4>1, <4>2
      <4>. QED  BY <3>1, <4>3, SaysTyped
    <3>6. f.code \in SpareCodes => f.code = Head(m).code
      BY <3>1, CodesApart
    <3>7. /\ Spaced(m, key.inbox, Pending(e, m)) /\ Right(key.inbox, key.kmap, app, lost)
          /\ Clear(m, d.inbox) /\ f.code # Due(m, 1) => Clear(m, key.inbox)
      <4>. DEFINE was == Pending(a, m)
                  is  == Pending(e, m)
      <4>1. /\ press => /\ s # NoSym => Says(Press(f.code, ShiftKey \in d.pressed, s), d.kmap, lost)
                        /\ s # NoSym /\ f.code \in SpareCodes => f.code = Head(m).code
            /\ ~press => (was => is)
        BY <1>10, <3>5, <3>6
      <4>2. Spaced(m, d.inbox, was) /\ Right(d.inbox, d.kmap, app, lost)
        BY <1>6
      <4>. HIDE DEF was, is, s
      <4>3. d \in Servers /\ Lists(m) /\ f.code \in Codes /\ press \in BOOLEAN /\ s \in Symbols
        BY <1>0, <1>1, <2>1, <2>2
      <4>4. Spaced(m, key.inbox, is) /\ Right(key.inbox, key.kmap, app, lost)
        <5>1. CASE press = TRUE
          <6>1. key = FakeKey(d, f.code, TRUE, s)
            BY <3>2, <5>1
          <6>. QED  BY <4>1, <4>2, <4>3, <5>1, <6>1, ReadsKey
        <5>2. CASE press = FALSE
          <6>1. key = FakeKey(d, f.code, FALSE, s)
            BY <3>2, <5>2
          <6>2. was => is
            BY <4>1, <5>2
          <6>3. key.inbox = d.inbox /\ key.kmap = d.kmap
            BY <4>3, <6>1 DEF FakeKey, Servers
          <6>4. Len(m) \in Nat /\ Len(d.inbox) \in Nat /\ DOMAIN d.inbox = 1 .. Len(d.inbox)
            BY <4>3, DueOnce DEF Servers
          <6>5. Spaced(m, d.inbox, is)
            BY <4>2, <6>2, <6>4, SpacedLess
          <6>. QED  BY <4>2, <6>3, <6>5
        <5>. QED  BY <1>1, <5>1, <5>2
      <4>5. Clear(m, d.inbox) /\ (press => f.code # Due(m, 1) \/ s = NoSym) => Clear(m, key.inbox)
        BY <3>2, <4>1, <4>2, <4>3, ReadsKey
      <4>. QED  BY <4>4, <4>5 DEF is
    <3>8. Steady(e, m)
      <4>. SUFFICES ASSUME NEW j \in DOMAIN a.syms, ~press \/ j < index + 1 PROVE Has(a.syms[j], m)
        BY <1>4 DEF Steady
      <4>1. CASE ~press
        BY <1>9, <4>1
      <4>2. CASE press /\ j = index
        BY <3>1, <4>2
      <4>3. CASE press /\ j # index
        <5>1. j < a.index
          BY <1>0, <1>1, <1>8, <4>3
        <5>. QED  BY <1>6, <5>1 DEF Steady
      <4>. QED  BY <4>1, <4>2, <4>3
    <3>9. Clear(m, d.inbox) /\ a.pressing /\ a.index <= n => Clear(m, key.inbox) \/ Ready(e, m)
      <4>. SUFFICES ASSUME Clear(m, d.inbox), a.pressing, a.index <= n
                    PROVE  Clear(m, key.inbox) \/ Ready(e, m)
        OBVIOUS
      <4>1. CASE s \in DOMAIN Layout
        <5>1. f.code \notin SpareCodes
          BY <3>1, <4>1, CodesApart
        <5>2. f.code # Due(m, 1)
          BY <1>0, <5>1, DueOnce
        <5>. QED  BY <3>7, <5>2
      <4>2. CASE s \notin DOMAIN Layout
        <5>1. \A j \in DOMAIN a.syms : Has(a.syms[j], m)
          BY <2>1, <3>1, <4>2, HasAll
        <5>2. press /\ a.syms # <<>>
          BY <1>0, <1>8, <2>1
        <5>. QED  BY <1>4, <1>5, <5>1, <5>2 DEF Ready
      <4>. QED  BY <4>1, <4>2
    <3>10. Readable(e, m, key, app, lost)
      BY <1>4, <1>7, <3>7, <3>8 DEF Readable
    <3>. QED  BY <1>5, <3>3, <3>9, <3>10 DEF Going, Reads, n
  <2>. QED  BY <2>3, <2>4
<1>. QED  BY <1>11, <1>12

LEMMA RunReads ==
  ASSUME Legible, NEW m, NEW d, Good(m, d, TRUE), NEW a \in Runs, ActHeld(a, m, d.pressed),
         NEW app, NEW lost, Readable(a, m, d, app, lost), Clear(m, d.inbox) \/ Ready(a, m)
  PROVE  Reads(a, m, d, Run(a, m, d), app, lost)
<1>1. CASE a.kind = "text"
  BY <1>1, RunTextReads DEF Run, ActHeld
<1>2. CASE a.kind = "keys"
  BY <1>2, RunKeysReads DEF Run, ActHeld
<1>3. CASE a.kind = "mouse"
  <2>. DEFINE b == [a EXCEPT !.pressing = FALSE]
              e == FakeButton(d, a.n, a.pressing)
  <2>1. a # NoAct /\ b \in Runs /\ b.kind = "mouse" /\ b.syms = a.syms
    BY <1>3, RunIsAct DEF Runs, RunAct
  <2>2. e.inbox = d.inbox /\ e.kmap = d.kmap
    BY DEF FakeButton, Good, Servers
  <2>3. b # NoAct
    BY <2>1, RunIsAct
  <2>4. Run(a, m, d) = IF a.pressing THEN Going(b, m, e) ELSE Finished(m, e)
    BY <1>3 DEF Run, RunClick
  <2>. HIDE DEF b, e
  <2>5. ~Pending(a, m) /\ ~Pending(b, m) /\ ~Pending(NoAct, m) /\ ~Ready(a, m)
    BY <1>3, <2>1 DEF Pending, Ready
  <2>6. \A c : ~Pending(c, m) => Spaced(m, d.inbox, Pending(c, m))
    BY <2>5 DEF Readable, Spaced
  <2>7. Right(d.inbox, d.kmap, app, lost) /\ Plain(a) /\ Clear(m, d.inbox)
    BY <2>1, <2>5 DEF Readable
  <2>8. Steady(b, m) /\ Plain(b)
    BY <2>1, <2>7, <1>3 DEF Steady, Plain
  <2>9. Readable(b, m, e, app, lost) /\ Readable(NoAct, m, e, app, lost)
    BY <2>1, <2>2, <2>5, <2>6, <2>7, <2>8 DEF Readable
  <2>10. CASE a.pressing
    BY <2>2, <2>3, <2>4, <2>7, <2>9, <2>10 DEF Going, Reads
  <2>11. CASE ~a.pressing
    BY <2>2, <2>4, <2>7, <2>9, <2>11 DEF Finished, Going, Reads
  <2>. QED  BY <2>10, <2>11
<1>. QED  BY <1>1, <1>2, <1>3 DEF Runs, RunAct

LEMMA BegunReads ==
  ASSUME Legible, NEW a \in Actions, ~AtOnce(a), NEW m, NEW d, NEW app, NEW lost,
         Readable(NoAct, m, d, app, lost)
  PROVE  /\ Readable(Begun(a), m, d, app, lost)
         /\ Begun(a).pressing /\ (Begun(a).kind = "mouse" \/ Begun(a).index <= Len(Begun(a).syms))
<1>. DEFINE b == Begun(a)
<1>1. /\ b.kind = a.kind /\ b.syms = a.syms /\ b.index = 1 /\ b.pressing = TRUE /\ b.shifted = FALSE
      /\ a.kind \in {"text", "keys", "mouse"} /\ a.syms \in Seq(Syms)
      /\ a.kind # "mouse" => a.syms # <<>>
  BY XdoAssumption DEF Begun, AtOnce, ActionKinds
<1>. HIDE DEF b
<1>2. Len(a.syms) \in Nat /\ DOMAIN a.syms = 1 .. Len(a.syms)
      /\ (a.kind # "mouse" => 1 <= Len(a.syms))
  BY <1>1
<1>3. Plain(b)
  BY <1>1 DEF Legible, Plain
<1>4. Steady(b, m)
  BY <1>1, <1>2 DEF Steady
<1>5. Spaced(m, d.inbox, FALSE) /\ Right(d.inbox, d.kmap, app, lost)
  BY DEF Readable, Pending, Spaced
<1>6. Spaced(m, d.inbox, Pending(b, m))
  <2>. SUFFICES ASSUME NEW p \in 1 .. Len(m), NEW i \in DOMAIN d.inbox,
                       Wanted(d.inbox, i), Behind(d.inbox, i), d.inbox[i].code = Due(m, p),
                       Len(d.inbox) - i >= 2 * (Len(m) - p) - 0
                PROVE  Len(d.inbox) - i >= 2 * (Len(m) - p) - (IF Pending(b, m) THEN 1 ELSE 0)
    BY <1>5 DEF Spaced
  <2>. QED
    OBVIOUS
<1>7. Readable(b, m, d, app, lost)
  BY <1>1, <1>3, <1>4, <1>5, <1>6 DEF Readable
<1>. QED  BY <1>1, <1>2, <1>7 DEF b

LEMMA InitTyping == ASSUME Legible, Init PROVE Typing
<1>1. dpy.inbox = <<>> /\ appMap = dpy.kmap /\ acting = NoAct /\ plugs = 0 /\ replug = FALSE
  BY DEF Init
<1>2. Readable(NoAct, mutSyms, dpy, appMap, loosed) /\ Clear(mutSyms, dpy.inbox)
  BY <1>1 DEF Readable, Spaced, Right, Clear
<1>. QED  BY <1>1, <1>2 DEF Typing

\* proc, whichever of the three things it does.
LEMMA ProcTyping == ASSUME Legible, XInv, Releasing, Typing, Proc PROVE Typing'
<1>. DEFINE r == IF acting = NoAct THEN Finished(mutSyms, dpy) ELSE Run(acting, mutSyms, dpy)
<1>1. /\ running /\ ~paused /\ ~replug
      /\ UNCHANGED <<appMap, running, replug, plugs, loosed>>
      /\ Readable(acting, mutSyms, dpy, appMap, loosed)
      /\ Clear(mutSyms, dpy.inbox) \/ Ready(acting, mutSyms)
  BY DEF Proc, Typing, histVars
<1>2. Good(mutSyms, dpy, TRUE) /\ Tidy
  BY <1>1 DEF XInv, Good, Legible
<1>3. \/ r.act # NoAct /\ Act(acting, mutSyms, dpy, TRUE) /\ acting # NoAct
      \/ r.act = NoAct /\ Replay(r.dpy) /\ mutSyms' = r.mut
      \/ r.act = NoAct /\ Begin(r.mut, r.dpy)
  BY DEF Proc, Finished, Going
<1>4. /\ Readable(r.act, r.mut, r.dpy, appMap, loosed)
      /\ r.act = NoAct => Clear(r.mut, r.dpy.inbox)
      /\ Good(r.mut, r.dpy, TRUE)
      /\ r.act = NoAct => r.dpy.pressed = {} \/ replay # <<>>
  <2>1. CASE acting = NoAct
    <3>1. r.act = NoAct /\ r.mut = mutSyms /\ r.dpy = dpy
      BY <2>1 DEF Finished, Going
    <3>2. ~Ready(acting, mutSyms)
      BY <2>1 DEF Ready
    <3>3. dpy.pressed = {} \/ replay # <<>>
      BY <2>1 DEF Releasing, Up
    <3>. QED  BY <1>1, <1>2, <2>1, <3>1, <3>2, <3>3
  <2>2. CASE acting # NoAct
    <3>1. acting \in Runs /\ ActHeld(acting, mutSyms, dpy.pressed)
      BY <2>2 DEF XInv, Releasing
    <3>2. Reads(acting, mutSyms, dpy, r, appMap, loosed)
      BY <1>1, <1>2, <2>2, <3>1, RunReads
    <3>3. Outcome(r, TRUE) /\ Eased(r, dpy)
      BY <1>2, <2>2, <3>1, RunGood, RunHeld
    <3>. HIDE DEF r
    <3>. QED  BY <3>2, <3>3 DEF Reads, Outcome, Eased
  <2>. QED  BY <2>1, <2>2
<1>5. Act(acting, mutSyms, dpy, TRUE) /\ acting # NoAct =>
        acting' = r.act /\ mutSyms' = r.mut /\ dpy' = r.dpy /\ paused' = TRUE
  BY DEF Act
<1>. HIDE DEF r
<1>6. CASE r.act # NoAct /\ Act(acting, mutSyms, dpy, TRUE) /\ acting # NoAct
  BY <1>1, <1>4, <1>5, <1>6 DEF Typing
<1>7. CASE r.act = NoAct /\ Replay(r.dpy) /\ mutSyms' = r.mut
  <2>. DEFINE h == Head(replay)
  <2>1. /\ dpy' = FakeKey(r.dpy, h.code, h.press, NoSym)
        /\ acting' = NoAct /\ paused' = TRUE /\ replay # <<>>
    BY <1>7 DEF Replay
  <2>2. h.code \in Codes /\ h.press \in BOOLEAN
    <3>1. h \in KeyChange
      BY <2>1 DEF XInv, QueuesTyped
    <3>. QED  BY <3>1 DEF KeyChange
  <2>. HIDE DEF h
  <2>3. Spaced(r.mut, r.dpy.inbox, FALSE) /\ Right(r.dpy.inbox, r.dpy.kmap, appMap, loosed)
    BY <1>4, <1>7 DEF Readable, Pending, Spaced
  <2>4. NoSym \in Symbols /\ r.dpy \in Servers /\ Lists(r.mut)
    BY <1>4 DEF Symbols, Good
  <2>5. Spaced(r.mut, dpy'.inbox, FALSE) /\ Right(dpy'.inbox, dpy'.kmap, appMap, loosed)
    BY <2>1, <2>2, <2>3, <2>4, ReadsKey
  <2>6. Readable(NoAct, r.mut, dpy', appMap, loosed)
    BY <2>5 DEF Readable, Pending, Spaced
  <2>. QED  BY <1>1, <1>7, <2>1, <2>6 DEF Typing
<1>8. CASE r.act = NoAct /\ Begin(r.mut, r.dpy)
  <2>1. replay = <<>>
    BY <1>8 DEF Begin
  <2>2. PICK n \in 0 .. Len(acts) :
          IF Slow(n) THEN Act(Begun(acts[n]), r.mut, r.dpy, FALSE)
                     ELSE acting' = NoAct /\ mutSyms' = r.mut /\ dpy' = r.dpy
    BY <1>8 DEF Begin
  <2>3. CASE Slow(n)
    <3>1. acts[n] \in Actions /\ ~AtOnce(acts[n])
      BY <2>3 DEF Slow, XInv, QueuesTyped
    <3>. DEFINE a == Begun(acts[n])
                q == Run(a, r.mut, r.dpy)
    <3>2. Readable(NoAct, r.mut, r.dpy, appMap, loosed) /\ Clear(r.mut, r.dpy.inbox) /\ r.dpy.pressed = {}
      BY <1>4, <1>8, <2>1
    <3>3. /\ Readable(a, r.mut, r.dpy, appMap, loosed)
          /\ a.pressing /\ (a.kind = "mouse" \/ a.index <= Len(a.syms))
      BY <3>1, <3>2, BegunReads
    <3>4. a \in Runs /\ ActHeld(a, r.mut, r.dpy.pressed)
      BY <1>2, <3>1, <3>2, BegunGood, BegunHeld
    <3>. HIDE DEF a
    <3>5. Reads(a, r.mut, r.dpy, q, appMap, loosed)
      BY <1>4, <3>2, <3>3, <3>4, RunReads
    <3>6. acting' = q.act /\ mutSyms' = q.mut /\ dpy' = q.dpy
      BY <2>2, <2>3 DEF Act, a
    <3>. HIDE DEF q
    <3>7. Clear(mutSyms', dpy'.inbox) \/ Ready(acting', mutSyms')
      BY <3>2, <3>3, <3>5, <3>6 DEF Reads
    <3>. QED  BY <1>1, <3>5, <3>6, <3>7 DEF Reads, Typing
  <2>4. CASE ~Slow(n)
    BY <1>1, <1>4, <1>8, <2>2, <2>4 DEF Typing
  <2>. QED  BY <2>3, <2>4
<1>. QED  BY <1>3, <1>6, <1>7, <1>8

LEMMA NextTyping == ASSUME Legible, XInv, Releasing, Typing, [Next]_vars PROVE Typing'
<1>0. dpy \in Servers /\ Lists(mutSyms) /\ MaxPlugs = 0
  BY DEF XInv, Legible
<1>1. CASE Proc
  BY <1>1, ProcTyping
<1>2. CASE Elapse
  <2>1. UNCHANGED <<acting, mutSyms, dpy, appMap, running, replug, plugs, loosed>> /\ Len(dpy.inbox) <= Lag
    BY <1>2 DEF Elapse, histVars
  <2>2. ASSUME running PROVE Clear(mutSyms, dpy.inbox) \/ Ready(acting, mutSyms)
    <3>0. Readable(acting, mutSyms, dpy, appMap, loosed)
      BY <2>2 DEF Typing
    <3>1. CASE Pending(acting, mutSyms)
      <4>1. acting # NoAct /\ acting \in Runs /\ OneSpare(acting)
        BY <3>1 DEF Pending, XInv, Releasing, ActHeld
      <4>2. /\ acting.syms \in Seq(Syms) /\ acting.index \in Nat \ {0}
            /\ acting.index <= Len(acting.syms)
        BY <3>1, <4>1 DEF Runs, RunAct, Pending
      <4>3. acting.index \in DOMAIN acting.syms /\ acting.syms # <<>>
        BY <4>2
      <4>4. CASE acting.kind = "text"
        BY <3>1, <4>4 DEF Pending, Ready, Has
      <4>5. CASE acting.kind = "keys"
        <5>1. \A j \in DOMAIN acting.syms : Has(acting.syms[j], mutSyms)
          BY <3>1, <4>1, <4>3, <4>5, HasAll DEF Pending
        <5>. QED  BY <3>1, <4>3, <4>5, <5>1 DEF Pending, Ready
      <4>. QED  BY <3>1, <4>4, <4>5 DEF Pending
    <3>2. CASE ~Pending(acting, mutSyms)
      <4>1. Spaced(mutSyms, dpy.inbox, FALSE)
        BY <3>0, <3>2 DEF Readable, Spaced
      <4>2. Len(dpy.inbox) < 2 * Len(Spare) /\ dpy.inbox \in Seq(Msgs)
        <5>1. dpy.inbox \in Seq(Msgs) /\ Len(dpy.inbox) \in Nat /\ Lag \in Nat /\ Len(Spare) \in Nat
          BY <1>0, SpareSome, XdoAssumption DEF Servers
        <5>. QED  BY <2>1, <5>1 DEF Legible
      <4>. QED  BY <1>0, <4>1, <4>2, ClearBehind
    <3>. QED  BY <3>1, <3>2
  <2>. QED  BY <2>1, <2>2 DEF Typing
<1>3. CASE NotRecognise \/ \E l \in Lines : Recognise(l)
  <2>1. /\ running /\ Unpress
        /\ UNCHANGED <<acting, mutSyms, appMap, running, replug, plugs, paused>>
    BY <1>3 DEF NotRecognise, Recognise
  <2>2. PICK S \in SUBSET dpy.pressed :
          /\ dpy' = [dpy EXCEPT !.pressed = @ \ S]
          /\ loosed' = (loosed \/ (acting # NoAct /\ acting.shifted /\ ShiftKey \in S))
    BY <2>1 DEF Unpress
  <2>3. dpy'.inbox = dpy.inbox /\ dpy'.kmap = dpy.kmap /\ dpy'.pressed = dpy.pressed \ S
    BY <1>0, <2>2 DEF Servers
  <2>4. /\ Readable(acting, mutSyms, dpy, appMap, loosed)
        /\ ~paused => Clear(mutSyms, dpy.inbox) \/ Ready(acting, mutSyms)
    BY <2>1 DEF Typing
  <2>5. Right(dpy.inbox, dpy.kmap, appMap, loosed')
    <3>1. loosed => loosed'
      BY <2>2
    <3>. QED  BY <2>4, <3>1, RightLost DEF Readable
  <2>6. acting # NoAct => /\ Steady(acting, mutSyms) /\ Plain(acting)
                          /\ acting.kind = "text" /\ acting.shifted /\ ~loosed' => ShiftKey \in dpy'.pressed
    BY <2>2, <2>3, <2>4 DEF Readable
  <2>7. Readable(acting, mutSyms, dpy', appMap, loosed')
    BY <2>3, <2>4, <2>5, <2>6 DEF Readable
  <2>. QED  BY <2>1, <2>3, <2>4, <2>7 DEF Typing
<1>4. CASE OnDevChange
  BY <1>4 DEF Typing, OnDevChange
<1>5. CASE Quit
  BY <1>5 DEF Typing, Quit, histVars
<1>6. CASE Plug
  BY <1>0, <1>6 DEF Typing, Plug
<1>7. CASE AppRead
  <2>1. /\ UNCHANGED <<acting, mutSyms, running, replug, plugs, paused, loosed>> /\ dpy.inbox # <<>>
        /\ dpy' = [dpy EXCEPT !.inbox = Tail(@)]
        /\ appMap' = IF Head(dpy.inbox) = MappingNotify THEN dpy.kmap ELSE appMap
    BY <1>7 DEF AppRead, histVars
  <2>2. dpy'.inbox = Tail(dpy.inbox) /\ dpy'.kmap = dpy.kmap /\ dpy'.pressed = dpy.pressed
        /\ dpy.inbox \in Seq(Msgs)
    BY <1>0, <2>1 DEF Servers
  <2>3. ASSUME running PROVE /\ Readable(acting, mutSyms, dpy', appMap', loosed)
                             /\ Clear(mutSyms, dpy.inbox) => Clear(mutSyms, dpy'.inbox)
    <3>1. Readable(acting, mutSyms, dpy, appMap, loosed)
      BY <2>3 DEF Typing
    <3>2. Right(dpy'.inbox, dpy'.kmap, appMap', loosed)
      BY <2>1, <2>2, <3>1, RightRead DEF Readable
    <3>3. /\ Spaced(mutSyms, dpy'.inbox, Pending(acting, mutSyms))
          /\ Clear(mutSyms, dpy.inbox) => Clear(mutSyms, dpy'.inbox)
      <4>. DEFINE is == Pending(acting, mutSyms)
      <4>1. Spaced(mutSyms, dpy.inbox, is)
        BY <3>1 DEF Readable
      <4>. HIDE DEF is
      <4>2. /\ Spaced(mutSyms, dpy'.inbox, is)
            /\ Clear(mutSyms, dpy.inbox) => Clear(mutSyms, dpy'.inbox)
        BY <1>0, <2>1, <2>2, <4>1, SpacedRead
      <4>. QED  BY <4>2 DEF is
    <3>. QED  BY <2>2, <3>1, <3>2, <3>3 DEF Readable
  <2>. QED  BY <2>1, <2>3 DEF Typing
<1>8. CASE UNCHANGED vars
  BY <1>8 DEF vars, queueVars, histVars, Typing
<1>. QED  BY <1>1, <1>2, <1>3, <1>4, <1>5, <1>6, <1>7, <1>8 DEF Next, Calls

\* On a keyboard that stays, an application that is never 2 N messages behind
\* after a pause, for N spare keycodes, takes each key for the symbol it was
\* typed for, but for one whose Shift Main let go of: find_sym maps no keycode
\* anew before what was typed with it is read (key_changer.rs:101-130).
THEOREM TypedRightThm == ASSUME Legible PROVE Spec => []TypedRight
<1>0. Tidy
  BY DEF Legible
<1>1. XInv /\ Typing => TypedRight
  <2>. SUFFICES ASSUME XInv, Typing, running, dpy.inbox # <<>>,
                       Head(dpy.inbox) # MappingNotify, Head(dpy.inbox).want # NoSym
                PROVE  LET e == Head(dpy.inbox)
                       IN \/ Meaning(e) = e.want
                          \/ loosed /\ ~e.shift /\ e.want \in DOMAIN Layout /\ Layout[e.want].shift
    BY DEF TypedRight
  <2>. DEFINE e == Head(dpy.inbox)
              level(b) == {s \in DOMAIN Layout : Layout[s] = [code |-> e.code, shift |-> b]}
  <2>1. dpy.inbox \in Seq(Msgs) /\ Right(dpy.inbox, dpy.kmap, appMap, loosed)
    BY DEF XInv, Servers, Typing, Readable
  <2>2. Says(e, appMap, loosed)
    BY <2>1, RightFirst
  <2>3. e.shift \in BOOLEAN
    <3>1. e \in Msgs
      BY <2>1
    <3>. QED  BY <3>1 DEF Msgs
  <2>. HIDE DEF e
  <2>4. Meaning(e) = IF e.code \in SpareCodes THEN appMap[e.code]
                     ELSE IF e.shift /\ level(TRUE) # {} THEN CHOOSE s \in level(TRUE) : TRUE
                                                         ELSE CHOOSE s \in level(FALSE) : TRUE
    BY DEF Meaning
  <2>5. CASE e.code \in SpareCodes
    BY <2>2, <2>4, <2>5 DEF Says, e
  <2>6. CASE e.code \notin SpareCodes
    <3>. DEFINE w == e.want
    <3>1. /\ w \in DOMAIN Layout /\ e.code = Layout[w].code
          /\ e.shift = Layout[w].shift \/ (loosed /\ ~e.shift)
      BY <2>2, <2>6 DEF Says
    <3>2. /\ Layout[w] \in [code: Codes, shift: BOOLEAN]
          /\ \A s, t \in DOMAIN Layout : Layout[s] = Layout[t] => s = t
      BY <3>1 DEF Legible, Injection, IsInjective
    <3>. HIDE DEF w
    <3>3. Layout[w] = [code |-> e.code, shift |-> Layout[w].shift] /\ Layout[w].shift \in BOOLEAN
      BY <3>1, <3>2
    <3>4. \A b : b = Layout[w].shift => level(b) = {w}
      <4>. SUFFICES ASSUME NEW b, b = Layout[w].shift PROVE level(b) = {w}
        OBVIOUS
      <4>1. w \in level(b)
        BY <3>1, <3>3
      <4>2. \A s \in level(b) : s = w
        BY <3>1, <3>2, <3>3
      <4>. HIDE DEF level
      <4>. QED  BY <4>1, <4>2
    <3>. HIDE DEF level
    <3>5. CASE e.shift = Layout[w].shift
      <4>1. CASE Layout[w].shift = TRUE
        <5>1. level(TRUE) = {w}
          BY <3>4, <4>1
        <5>2. Meaning(e) = CHOOSE s \in {w} : TRUE
          BY <2>4, <2>6, <3>5, <4>1, <5>1
        <5>. QED  BY <5>2 DEF e, w
      <4>2. CASE Layout[w].shift = FALSE
        <5>1. level(FALSE) = {w}
          BY <3>4, <4>2
        <5>2. Meaning(e) = CHOOSE s \in {w} : TRUE
          BY <2>4, <2>6, <3>5, <4>2, <5>1
        <5>. QED  BY <5>2 DEF e, w
      <4>. QED  BY <3>3, <4>1, <4>2
    <3>6. CASE e.shift # Layout[w].shift
      <4>1. loosed /\ ~e.shift /\ Layout[w].shift
        BY <2>3, <3>1, <3>3, <3>6
      <4>. QED  BY <3>1, <4>1 DEF e, w
    <3>. QED  BY <3>5, <3>6
  <2>. QED  BY <2>5, <2>6
<1>2. Init => XInv /\ Releasing /\ Typing
  <2>1. Init => Releasing
    BY DEF Init, Releasing, Ends
  <2>. QED  BY <2>1, InitXInv, InitTyping
<1>3. XInv /\ Releasing /\ Typing /\ [Next]_vars => (XInv /\ Releasing /\ Typing)'
  BY <1>0, NextXInv, NextReleasing, NextTyping
<1>. QED  BY <1>1, <1>2, <1>3, PTL DEF Spec

-----------------------------------------------------------------------------
(* What is typed: Xdo implements Typist.  The messages an application has   *)
(* yet to read are Typist's wire, one by one; a step of an action strikes   *)
(* the first symbol that is still to be pressed, or none.                   *)

Wire(q) == [i \in DOMAIN q |-> Sent(q[i])]
Marks   == {Sent(e) : e \in Msgs}
Asides  == {MappingNotify, ShiftKey}

LEMMA WireSeq ==
  ASSUME NEW q \in Seq(Msgs)
  PROVE  Wire(q) \in Seq(Marks) /\ Len(Wire(q)) = Len(q)
         /\ \A i \in 1 .. Len(q) : Wire(q)[i] = Sent(q[i])
  BY DEF Wire, Marks

LEMMA WireAppend ==
  ASSUME NEW q \in Seq(Msgs), NEW e \in Msgs
  PROVE  Wire(Append(q, e)) = Append(Wire(q), Sent(e))
<1>. DEFINE a == Wire(Append(q, e))
            b == Append(Wire(q), Sent(e))
<1>1. Append(q, e) \in Seq(Msgs) /\ Len(Append(q, e)) = Len(q) + 1 /\ Len(q) \in Nat
  OBVIOUS
<1>2. a \in Seq(Marks) /\ Len(a) = Len(q) + 1
      /\ \A i \in 1 .. Len(q) + 1 : a[i] = Sent(Append(q, e)[i])
  BY <1>1, WireSeq
<1>3. Wire(q) \in Seq(Marks) /\ Len(Wire(q)) = Len(q) /\ Sent(e) \in Marks
      /\ \A i \in 1 .. Len(q) : Wire(q)[i] = Sent(q[i])
  BY WireSeq DEF Marks
<1>4. b \in Seq(Marks) /\ Len(b) = Len(q) + 1
      /\ \A i \in 1 .. Len(q) + 1 : b[i] = IF i = Len(q) + 1 THEN Sent(e) ELSE Wire(q)[i]
  BY <1>1, <1>3
<1>5. \A i \in 1 .. Len(q) + 1 : Append(q, e)[i] = IF i = Len(q) + 1 THEN e ELSE q[i]
  BY <1>1
<1>6. \A i \in 1 .. Len(q) + 1 : a[i] = b[i]
  <2>. SUFFICES ASSUME NEW i \in 1 .. Len(q) + 1 PROVE a[i] = b[i]
    OBVIOUS
  <2>1. i = Len(q) + 1 \/ i \in 1 .. Len(q)
    BY <1>1
  <2>. HIDE DEF a, b
  <2>. QED  BY <1>2, <1>3, <1>4, <1>5, <2>1
<1>. HIDE DEF a, b
<1>7. a = b
  BY <1>1, <1>2, <1>4, <1>6
<1>. QED  BY <1>7 DEF a, b

LEMMA WireTail ==
  ASSUME NEW q \in Seq(Msgs), q # <<>>
  PROVE  Wire(q) # <<>> /\ Wire(Tail(q)) = Tail(Wire(q))
<1>. DEFINE a == Wire(Tail(q))
            b == Tail(Wire(q))
            n == Len(q) - 1
<1>1. Tail(q) \in Seq(Msgs) /\ Len(Tail(q)) = n /\ Len(q) \in Nat \ {0} /\ n \in Nat
      /\ \A i \in 1 .. n : Tail(q)[i] = q[i + 1]
  OBVIOUS
<1>2. a \in Seq(Marks) /\ Len(a) = n /\ \A i \in 1 .. n : a[i] = Sent(Tail(q)[i])
  BY <1>1, WireSeq
<1>3. Wire(q) \in Seq(Marks) /\ Len(Wire(q)) = Len(q)
      /\ \A i \in 1 .. Len(q) : Wire(q)[i] = Sent(q[i])
  BY WireSeq
<1>4. Wire(q) # <<>>
  BY <1>1, <1>3
<1>5. b \in Seq(Marks) /\ Len(b) = n /\ \A i \in 1 .. n : b[i] = Wire(q)[i + 1]
  BY <1>1, <1>3, <1>4
<1>6. \A i \in 1 .. n : a[i] = b[i]
  <2>. SUFFICES ASSUME NEW i \in 1 .. n PROVE a[i] = b[i]
    OBVIOUS
  <2>1. i + 1 \in 1 .. Len(q)
    BY <1>1
  <2>. HIDE DEF a, b
  <2>. QED  BY <1>1, <1>2, <1>3, <1>5, <2>1
<1>. HIDE DEF a, b, n
<1>7. a = b
  BY <1>1, <1>2, <1>5, <1>6
<1>. QED  BY <1>4, <1>7 DEF a, b

\* What is put on the wire beside the symbols.
Stirs(v, w) ==
  /\ Len(w) >= Len(v) /\ SubSeq(w, 1, Len(v)) = v
  /\ \A i \in Len(v) + 1 .. Len(w) : w[i] \in Asides

LEMMA StirsAppend ==
  ASSUME NEW v \in Seq(Marks), NEW x \in Asides
  PROVE  Stirs(v, Append(v, x))
<1>. DEFINE w == Append(v, x)
<1>1. w \in Seq(Marks \cup Asides) /\ Len(w) = Len(v) + 1 /\ Len(v) \in Nat
      /\ w[Len(v) + 1] = x /\ \A i \in 1 .. Len(v) : w[i] = v[i]
  OBVIOUS
<1>. HIDE DEF w
<1>2. SubSeq(w, 1, Len(v)) = v
  <2>. DEFINE u == SubSeq(w, 1, Len(v))
  <2>1. u \in Seq(Marks \cup Asides) /\ Len(u) = Len(v) /\ \A i \in 1 .. Len(v) : u[i] = w[i]
    BY <1>1
  <2>2. v \in Seq(Marks \cup Asides)
    OBVIOUS
  <2>. HIDE DEF u
  <2>3. u = v
    BY <1>1, <2>1, <2>2
  <2>. QED  BY <2>3 DEF u
<1>. QED  BY <1>1, <1>2 DEF Stirs, w

LEMMA StirsMaps ==
  ASSUME Lists(mutSyms), dpy \in Servers, NEW kmap
  PROVE  Stirs(Wire(dpy.inbox), Wire(RemapAll(kmap).inbox))
<1>. DEFINE q == dpy.inbox
            r == RemapAll(kmap).inbox
            v == Wire(q)
            w == Wire(r)
            more == [i \in 1 .. Cardinality(InUse) |-> MappingNotify]
<1>2. r = q \o more
  BY DEF RemapAll
<1>4. Cardinality(InUse) \in Nat
  BY InUseCounts
<1>5. more \in Seq(Msgs) /\ Len(more) = Cardinality(InUse)
      /\ \A i \in 1 .. Len(more) : more[i] = MappingNotify
  BY <1>4 DEF Msgs
<1>1. q \in Seq(Msgs) /\ r \in Seq(Msgs)
  BY <1>2, <1>5 DEF Servers
<1>. HIDE DEF more, q
<1>6. Len(q \o more) = Len(q) + Len(more) /\ Len(q) \in Nat /\ Len(more) \in Nat
  BY <1>1, <1>5
<1>7. \A i \in 1 .. Len(q) : (q \o more)[i] = q[i]
  BY <1>1, <1>5
<1>8. \A i \in Len(q) + 1 .. Len(q) + Len(more) : (q \o more)[i] = MappingNotify
  <2>. SUFFICES ASSUME NEW i \in Len(q) + 1 .. Len(q) + Len(more)
                PROVE  (q \o more)[i] = MappingNotify
    OBVIOUS
  <2>1. i - Len(q) \in 1 .. Len(more)
    BY <1>6
  <2>2. (q \o more)[i] = more[i - Len(q)]
    BY <1>1, <1>5, <1>6
  <2>. QED  BY <1>5, <2>1, <2>2
<1>9. /\ v \in Seq(Marks) /\ Len(v) = Len(q) /\ \A i \in 1 .. Len(q) : v[i] = Sent(q[i])
      /\ w \in Seq(Marks) /\ Len(w) = Len(r) /\ \A i \in 1 .. Len(r) : w[i] = Sent(r[i])
  BY <1>1, WireSeq
<1>10. Sent(MappingNotify) = MappingNotify
  BY DEF Sent
<1>. HIDE DEF v, w, r
<1>11. Len(w) >= Len(v)
  BY <1>2, <1>6, <1>9
<1>12. \A i \in Len(v) + 1 .. Len(w) : w[i] \in Asides
  BY <1>2, <1>6, <1>8, <1>9, <1>10 DEF Asides
<1>13. SubSeq(w, 1, Len(v)) = v
  <2>. DEFINE u == SubSeq(w, 1, Len(v))
  <2>1. u \in Seq(Marks) /\ Len(u) = Len(v) /\ \A i \in 1 .. Len(v) : u[i] = w[i]
    BY <1>6, <1>9, <1>11
  <2>2. \A i \in 1 .. Len(v) : w[i] = v[i]
    BY <1>2, <1>6, <1>7, <1>9
  <2>. HIDE DEF u
  <2>3. u = v
    BY <1>6, <1>9, <2>1, <2>2
  <2>. QED  BY <2>3 DEF u
<1>. QED  BY <1>11, <1>12, <1>13 DEF Stirs, v, w, q, r

-----------------------------------------------------------------------------
(* A step of an action *)

\* The first symbol of a piece is typed, or none: as Strike of Typist.
Strikes(p, q, v, w) ==
  \/ p # <<>> /\ w = Append(v, Head(p)) /\ q = Tail(p)
  \/ (w = v \/ \E m \in Asides : w = Append(v, m)) /\ q = p

LEMMA SentPress ==
  ASSUME NEW c \in Codes, NEW b \in BOOLEAN, NEW want \in Symbols
  PROVE  /\ Press(c, b, want) \in Msgs
         /\ Sent(Press(c, b, want)) = IF want # NoSym THEN want ELSE c
<1>1. Press(c, b, want) \in Msgs
  BY DEF Press, Msgs
<1>2. Press(c, b, want).kind = "press" /\ MappingNotify.kind = "mapping"
      /\ Press(c, b, want).code = c /\ Press(c, b, want).want = want
  BY DEF Press, MappingNotify
<1>3. Press(c, b, want) # MappingNotify
  BY <1>2
<1>. QED  BY <1>1, <1>2, <1>3 DEF Sent

\* What a key adds to the wire: nothing when it is released.
LEMMA WireKey ==
  ASSUME NEW d \in Servers, NEW c \in Codes, NEW press \in BOOLEAN, NEW want \in Symbols
  PROVE  Wire(FakeKey(d, c, press, want).inbox) =
           IF press THEN Append(Wire(d.inbox), IF want # NoSym THEN want ELSE c)
                    ELSE Wire(d.inbox)
<1>0. d.inbox \in Seq(Msgs)
  BY DEF Servers
<1>1. CASE press
  <2>1. FakeKey(d, c, press, want).inbox = Append(d.inbox, Press(c, ShiftKey \in d.pressed, want))
    BY <1>1 DEF FakeKey, Servers
  <2>. DEFINE e == Press(c, ShiftKey \in d.pressed, want)
  <2>2. (ShiftKey \in d.pressed) \in BOOLEAN
    OBVIOUS
  <2>3. e \in Msgs /\ Sent(e) = IF want # NoSym THEN want ELSE c
    BY <2>2, SentPress
  <2>. HIDE DEF e
  <2>4. Wire(Append(d.inbox, e)) = Append(Wire(d.inbox), Sent(e))
    BY <1>0, <2>3, WireAppend
  <2>. QED  BY <1>1, <2>1, <2>3, <2>4 DEF e
<1>2. CASE ~press
  <2>1. FakeKey(d, c, press, want).inbox = d.inbox
    BY <1>2 DEF FakeKey, Servers
  <2>. QED  BY <1>2, <2>1
<1>. QED  BY <1>1, <1>2

\* find_sym adds a MappingNotify when the symbol is new, and otherwise nothing.
LEMMA WireFind ==
  ASSUME NEW m, NEW d \in Servers, NEW s
  PROVE  LET f == FindSym(s, m, d)
         IN Wire(f.dpy.inbox) = IF f.group = "New" THEN Append(Wire(d.inbox), MappingNotify)
                                                   ELSE Wire(d.inbox)
<1>. DEFINE f == FindSym(s, m, d)
<1>0. d.inbox \in Seq(Msgs) /\ MappingNotify \in Msgs /\ Sent(MappingNotify) = MappingNotify
  BY DEF Servers, Msgs, Sent
<1>1. CASE s \in DOMAIN Layout
  BY <1>1 DEF FindSym, Found
<1>2. CASE s \notin DOMAIN Layout /\ Head(m).sym = s
  BY <1>2 DEF FindSym, Found
<1>3. CASE s \notin DOMAIN Layout /\ Head(m).sym # s
  <2>1. f.group = "New" /\ f.dpy = Remap(d, Head(Append(Tail(m), Head(m))).code, s)
    BY <1>3 DEF FindSym, Found
  <2>2. f.dpy.inbox = Append(d.inbox, MappingNotify)
    BY <2>1 DEF Remap
  <2>3. Wire(f.dpy.inbox) = Append(Wire(d.inbox), MappingNotify)
    BY <1>0, <2>2, WireAppend
  <2>. QED  BY <2>1, <2>3
<1>. QED  BY <1>1, <1>2, <1>3

LEMMA Suffix ==
  ASSUME NEW S, NEW q \in Seq(S), NEW i \in 1 .. Len(q)
  PROVE  LET p == SubSeq(q, i, Len(q))
         IN p # <<>> /\ Head(p) = q[i] /\ Tail(p) = SubSeq(q, i + 1, Len(q))
<1>. DEFINE p == SubSeq(q, i, Len(q))
            t == SubSeq(q, i + 1, Len(q))
            n == Len(q) - i
<1>1. Len(q) \in Nat /\ n \in Nat /\ i \in Nat
  OBVIOUS
<1>2. p \in Seq(S) /\ Len(p) = n + 1 /\ \A k \in 1 .. n + 1 : p[k] = q[i + k - 1]
  OBVIOUS
<1>3. t \in Seq(S) /\ Len(t) = n /\ \A k \in 1 .. n : t[k] = q[i + k]
  OBVIOUS
<1>. HIDE DEF p, t
<1>4. p # <<>> /\ Head(p) = p[1] /\ Tail(p) \in Seq(S) /\ Len(Tail(p)) = n
      /\ \A k \in 1 .. n : Tail(p)[k] = p[k + 1]
  BY <1>1, <1>2
<1>5. p[1] = q[i]
  <2>1. 1 \in 1 .. n + 1 /\ i + 1 - 1 = i
    BY <1>1
  <2>. QED  BY <1>2, <2>1
<1>6. \A k \in 1 .. n : Tail(p)[k] = t[k]
  <2>. SUFFICES ASSUME NEW k \in 1 .. n PROVE Tail(p)[k] = t[k]
    OBVIOUS
  <2>1. k + 1 \in 1 .. n + 1 /\ i + (k + 1) - 1 = i + k
    BY <1>1
  <2>. QED  BY <1>2, <1>3, <1>4, <2>1
<1>. HIDE DEF n
<1>7. Tail(p) = t
  BY <1>1, <1>3, <1>4, <1>6
<1>. QED  BY <1>4, <1>5, <1>7 DEF p, t

\* What a step of an action does to what is still to be pressed of it and to
\* the wire; one that ends it does nothing to either.
Types(a, d, r) ==
  /\ Strikes(Unpressed(a), Unpressed(r.act), Wire(d.inbox), Wire(r.dpy.inbox))
  /\ r.act = NoAct => Unpressed(a) = <<>> /\ Wire(r.dpy.inbox) = Wire(d.inbox)

LEMMA StrikesNone ==
  ASSUME NEW p, NEW v
  PROVE  /\ Strikes(p, p, v, v)
         /\ \A m \in Asides : Strikes(p, p, v, Append(v, m))
  BY DEF Strikes

LEMMA UnpressedNone == Unpressed(NoAct) = <<>>
  BY DEF Unpressed

LEMMA RunTextTypes ==
  ASSUME NEW m, NEW d, NEW exact \in BOOLEAN, Good(m, d, exact), NEW a \in Runs, a.kind = "text"
  PROVE  Types(a, d, RunText(a, m, d))
<1>. DEFINE s == a.syms[a.index]
            f == FindSym(s, m, d)
            v == Wire(d.inbox)
            p == Unpressed(a)
<1>0. /\ a.syms \in Seq(Syms) /\ a.index \in Nat \ {0} /\ a.pressing \in BOOLEAN
      /\ Len(a.syms) \in Nat /\ a # NoAct
  BY RunIsAct DEF Runs, RunAct
<1>1. p = SubSeq(a.syms, IF a.pressing THEN a.index ELSE a.index + 1, Len(a.syms))
  BY <1>0 DEF Unpressed
<1>2. CASE a.index > Len(a.syms)
  <2>1. p = <<>>
    BY <1>0, <1>1, <1>2
  <2>2. RunText(a, m, d) = [act |-> NoAct, mut |-> m, dpy |-> d]
    BY <1>2 DEF RunText, Finished, Going
  <2>. QED  BY <2>1, <2>2, StrikesNone, UnpressedNone DEF Types
<1>3. CASE ~(a.index > Len(a.syms))
  <2>0. s \in Syms /\ s \in Symbols /\ s # NoSym /\ a.index \in 1 .. Len(a.syms)
    BY <1>0, <1>3, XdoAssumption DEF Symbols
  <2>1. f.code \in Codes /\ Good(f.mut, f.dpy, exact)
    BY <2>0, FindSymGood
  <2>2. f.dpy \in Servers /\ d \in Servers
    BY <2>1 DEF Good
  <2>3. Wire(f.dpy.inbox) = IF f.group = "New" THEN Append(v, MappingNotify) ELSE v
    BY <2>2, WireFind
  <2>. DEFINE shifted == [a EXCEPT !.shifted = a.pressing]
              struck  == [a EXCEPT !.pressing = ~@, !.index = IF a.pressing THEN @ ELSE @ + 1]
              shift == FakeKey(f.dpy, ShiftKey, a.pressing, NoSym)
              key   == FakeKey(f.dpy, f.code, a.pressing, s)
  <2>4. ShiftKey \in Codes /\ NoSym \in Symbols /\ ShiftKey \in Asides /\ MappingNotify \in Asides
    BY DEF Codes, Symbols, Asides
  <2>5. Wire(shift.inbox) = IF a.pressing THEN Append(Wire(f.dpy.inbox), ShiftKey)
                                          ELSE Wire(f.dpy.inbox)
    BY <1>0, <2>2, <2>4, WireKey
  <2>6. Wire(key.inbox) = IF a.pressing THEN Append(Wire(f.dpy.inbox), s)
                                        ELSE Wire(f.dpy.inbox)
    BY <1>0, <2>0, <2>1, <2>2, WireKey
  <2>7. RunText(a, m, d) =
          IF f.group = "New" THEN [act |-> a, mut |-> f.mut, dpy |-> f.dpy]
          ELSE IF f.group = "Shift" /\ a.pressing # a.shifted
            THEN [act |-> shifted, mut |-> f.mut, dpy |-> shift]
          ELSE [act |-> struck, mut |-> f.mut, dpy |-> key]
    BY <1>3 DEF RunText, Going
  <2>8. shifted \in Runs /\ Unpressed(shifted) = p
    <3>1. shifted \in Runs /\ shifted.syms = a.syms /\ shifted.index = a.index
          /\ shifted.pressing = a.pressing /\ shifted.kind = a.kind
      BY DEF Runs, RunAct
    <3>2. shifted # NoAct
      BY <3>1, RunIsAct
    <3>. HIDE DEF shifted
    <3>. QED  BY <1>1, <3>1, <3>2 DEF Unpressed
  <2>9. struck \in Runs /\ Unpressed(struck) = IF a.pressing THEN Tail(p) ELSE p
    <3>1. struck = [a EXCEPT !.pressing = ~a.pressing, !.index = IF a.pressing THEN a.index ELSE a.index + 1]
      BY DEF Runs, RunAct
    <3>2. \A b \in BOOLEAN, i \in Nat \ {0} :
            LET t == [a EXCEPT !.pressing = b, !.index = i]
            IN t \in Runs /\ t.syms = a.syms /\ t.index = i /\ t.pressing = b /\ t.kind = a.kind
      BY DEF Runs, RunAct
    <3>3. (~a.pressing) \in BOOLEAN /\ (IF a.pressing THEN a.index ELSE a.index + 1) \in Nat \ {0}
      BY <1>0
    <3>4. /\ struck \in Runs /\ struck.syms = a.syms /\ struck.pressing = ~a.pressing
          /\ struck.index = IF a.pressing THEN a.index ELSE a.index + 1
          /\ struck.kind = a.kind
      <4>. DEFINE b == ~a.pressing
                  i == IF a.pressing THEN a.index ELSE a.index + 1
      <4>1. b \in BOOLEAN /\ i \in Nat \ {0} /\ struck = [a EXCEPT !.pressing = b, !.index = i]
        BY <3>1, <3>3
      <4>. HIDE DEF b, i, struck
      <4>2. struck \in Runs /\ struck.syms = a.syms /\ struck.index = i /\ struck.pressing = b
            /\ struck.kind = a.kind
        BY <3>2, <4>1
      <4>. QED  BY <4>2 DEF b, i
    <3>5. struck # NoAct
      BY <3>4, RunIsAct
    <3>. HIDE DEF struck
    <3>6. Unpressed(struck) = SubSeq(a.syms, a.index + 1, Len(a.syms))
      <4>1. CASE a.pressing = TRUE
        <5>1. struck.pressing = FALSE /\ struck.index = a.index
          BY <3>4, <4>1
        <5>. QED  BY <3>4, <3>5, <5>1 DEF Unpressed
      <4>2. CASE a.pressing = FALSE
        <5>1. struck.pressing = TRUE /\ struck.index = a.index + 1
          BY <3>4, <4>2
        <5>. QED  BY <3>4, <3>5, <5>1 DEF Unpressed
      <4>. QED  BY <1>0, <4>1, <4>2
    <3>7. a.pressing = TRUE => Tail(p) = SubSeq(a.syms, a.index + 1, Len(a.syms))
      BY <1>0, <1>1, <2>0, Suffix
    <3>. QED  BY <1>0, <1>1, <3>4, <3>6, <3>7
  <2>10. a.pressing = TRUE => p # <<>> /\ Head(p) = s
    BY <1>0, <1>1, <2>0, Suffix
  <2>11. a # NoAct /\ shifted # NoAct /\ struck # NoAct
    BY <1>0, <2>8, <2>9, RunIsAct
  <2>. HIDE DEF s, f, v, p, shifted, struck, shift, key
  <2>12. CASE f.group = "New"
    <3>1. RunText(a, m, d) = [act |-> a, mut |-> f.mut, dpy |-> f.dpy]
      BY <2>7, <2>12
    <3>2. Strikes(p, p, v, Wire(f.dpy.inbox))
      BY <2>3, <2>4, <2>12, StrikesNone
    <3>. QED  BY <2>11, <3>1, <3>2 DEF Types, v, p
  <2>13. CASE f.group = "Shift" /\ a.pressing # a.shifted
    <3>1. RunText(a, m, d) = [act |-> shifted, mut |-> f.mut, dpy |-> shift]
      BY <2>7, <2>13
    <3>2. Strikes(p, p, v, Wire(shift.inbox))
      BY <1>0, <2>3, <2>4, <2>5, <2>13, StrikesNone
    <3>. QED  BY <2>8, <2>11, <3>1, <3>2 DEF Types, v, p
  <2>14. CASE f.group # "New" /\ ~(f.group = "Shift" /\ a.pressing # a.shifted)
    <3>1. RunText(a, m, d) = [act |-> struck, mut |-> f.mut, dpy |-> key]
      BY <2>7, <2>14
    <3>2. Strikes(p, Unpressed(struck), v, Wire(key.inbox))
      <4>1. CASE a.pressing = TRUE
        BY <2>3, <2>6, <2>9, <2>10, <2>14, <4>1 DEF Strikes
      <4>2. CASE a.pressing = FALSE
        BY <2>3, <2>6, <2>9, <2>14, <4>2, StrikesNone
      <4>. QED  BY <1>0, <4>1, <4>2
    <3>. QED  BY <2>11, <3>1, <3>2 DEF Types, v, p
  <2>. QED  BY <2>12, <2>13, <2>14
<1>. QED  BY <1>2, <1>3

LEMMA RunKeysTypes ==
  ASSUME NEW m, NEW d, NEW exact \in BOOLEAN, Good(m, d, exact), NEW a \in Runs, a.kind = "keys"
  PROVE  Types(a, d, RunKeys(a, m, d))
<1>. DEFINE turn  == a.pressing /\ a.index > Len(a.syms)
            index == IF turn THEN 1 ELSE a.index
            press == a.pressing /\ ~turn
            s     == a.syms[index]
            f     == FindSym(s, m, d)
            b     == [a EXCEPT !.index = index, !.pressing = press]
            c     == [b EXCEPT !.index = @ + 1]
            key   == FakeKey(f.dpy, f.code, press, s)
            v     == Wire(d.inbox)
            p     == Unpressed(a)
<1>0. /\ a.syms \in Seq(Syms) /\ a.index \in Nat \ {0} /\ a.pressing \in BOOLEAN
      /\ Len(a.syms) \in Nat /\ a # NoAct
  BY RunIsAct DEF Runs, RunAct
<1>1. index \in Nat \ {0} /\ press \in BOOLEAN
  BY <1>0
<1>2. RunKeys(a, m, d) =
        IF index > Len(a.syms) THEN [act |-> NoAct, mut |-> m, dpy |-> d]
        ELSE IF f.group = "New" THEN [act |-> b, mut |-> f.mut, dpy |-> f.dpy]
        ELSE [act |-> c, mut |-> f.mut, dpy |-> key]
  BY DEF RunKeys, Finished, Going
<1>3. p = IF a.pressing THEN SubSeq(a.syms, a.index, Len(a.syms)) ELSE <<>>
  BY <1>0 DEF Unpressed
<1>4. ~press => p = <<>>
  BY <1>0, <1>3
<1>5. press => index = a.index /\ a.pressing
  OBVIOUS
<1>6. CASE index > Len(a.syms)
  <2>1. ~press
    BY <1>0, <1>6
  <2>. HIDE DEF p, index, press
  <2>. QED  BY <1>2, <1>4, <1>6, <2>1, StrikesNone, UnpressedNone DEF Types, p
<1>7. CASE ~(index > Len(a.syms))
  <2>1. s \in Syms /\ s \in Symbols /\ s # NoSym /\ index \in 1 .. Len(a.syms)
    BY <1>0, <1>1, <1>7, XdoAssumption DEF Symbols
  <2>2. f.code \in Codes /\ Good(f.mut, f.dpy, exact)
    BY <2>1, FindSymGood
  <2>3. f.dpy \in Servers /\ d \in Servers
    BY <2>2 DEF Good
  <2>4. Wire(f.dpy.inbox) = IF f.group = "New" THEN Append(v, MappingNotify) ELSE v
    BY <2>3, WireFind
  <2>5. Wire(key.inbox) = IF press THEN Append(Wire(f.dpy.inbox), s) ELSE Wire(f.dpy.inbox)
    BY <1>1, <2>1, <2>2, <2>3, WireKey
  <2>6. /\ b \in Runs /\ b.index = index /\ b.pressing = press
        /\ b.syms = a.syms /\ b.kind = "keys"
    <3>. HIDE DEF index, press
    <3>. QED  BY <1>1 DEF Runs, RunAct
  <2>7. /\ c \in Runs /\ c.index = index + 1 /\ c.pressing = press
        /\ c.syms = a.syms /\ c.kind = "keys"
    <3>. HIDE DEF b, index, press
    <3>. QED  BY <1>1, <2>6 DEF Runs, RunAct
  <2>8. b # NoAct /\ c # NoAct
    BY <2>6, <2>7, RunIsAct
  <2>. HIDE DEF turn, index, press, s, f, b, c, key, v, p
  <2>9. Unpressed(b) = p
    <3>1. CASE press = TRUE
      BY <1>3, <1>5, <2>6, <2>8, <3>1 DEF Unpressed
    <3>2. CASE press = FALSE
      BY <1>4, <2>6, <2>8, <3>2 DEF Unpressed
    <3>. QED  BY <1>1, <3>1, <3>2
  <2>10. Unpressed(c) = IF press THEN Tail(p) ELSE p
    <3>1. CASE press = TRUE
      <4>1. Unpressed(c) = SubSeq(a.syms, index + 1, Len(a.syms))
        BY <2>7, <2>8, <3>1 DEF Unpressed
      <4>2. p = SubSeq(a.syms, index, Len(a.syms))
        BY <1>3, <1>5, <3>1
      <4>3. Tail(p) = SubSeq(a.syms, index + 1, Len(a.syms))
        BY <1>0, <2>1, <4>2, Suffix
      <4>. QED  BY <3>1, <4>1, <4>3
    <3>2. CASE press = FALSE
      BY <1>4, <2>7, <2>8, <3>2 DEF Unpressed
    <3>. QED  BY <1>1, <3>1, <3>2
  <2>11. press = TRUE => p # <<>> /\ Head(p) = s
    <3>. SUFFICES ASSUME press = TRUE PROVE p # <<>> /\ Head(p) = s
      OBVIOUS
    <3>1. p = SubSeq(a.syms, index, Len(a.syms))
      BY <1>3, <1>5
    <3>2. Head(p) = a.syms[index] /\ p # <<>>
      BY <1>0, <2>1, <3>1, Suffix
    <3>. QED  BY <3>2 DEF s
  <2>12. CASE f.group = "New"
    <3>1. RunKeys(a, m, d) = [act |-> b, mut |-> f.mut, dpy |-> f.dpy]
      BY <1>2, <1>7, <2>12
    <3>2. Strikes(p, p, v, Wire(f.dpy.inbox))
      BY <2>4, <2>12, StrikesNone DEF Asides
    <3>. QED  BY <2>8, <2>9, <3>1, <3>2 DEF Types, v, p
  <2>13. CASE f.group # "New"
    <3>1. RunKeys(a, m, d) = [act |-> c, mut |-> f.mut, dpy |-> key]
      BY <1>2, <1>7, <2>13
    <3>2. Strikes(p, Unpressed(c), v, Wire(key.inbox))
      <4>1. CASE press = TRUE
        BY <2>4, <2>5, <2>10, <2>11, <2>13, <4>1 DEF Strikes
      <4>2. CASE press = FALSE
        BY <2>4, <2>5, <2>10, <2>13, <4>2, StrikesNone
      <4>. QED  BY <1>1, <4>1, <4>2
    <3>. QED  BY <2>8, <3>1, <3>2 DEF Types, v, p
  <2>. QED  BY <2>12, <2>13
<1>. QED  BY <1>6, <1>7

LEMMA RunTypes ==
  ASSUME NEW m, NEW d, NEW exact \in BOOLEAN, Good(m, d, exact), NEW a \in Runs
  PROVE  Types(a, d, Run(a, m, d))
<1>1. CASE a.kind = "text"
  BY <1>1, RunTextTypes DEF Run
<1>2. CASE a.kind = "keys"
  BY <1>2, RunKeysTypes DEF Run
<1>3. CASE a.kind = "mouse"
  <2>. DEFINE e == FakeButton(d, a.n, a.pressing)
              b == [a EXCEPT !.pressing = FALSE]
  <2>1. e.inbox = d.inbox
    BY DEF FakeButton, Good, Servers
  <2>2. Run(a, m, d) = [act |-> IF a.pressing THEN b ELSE NoAct, mut |-> m, dpy |-> e]
    BY <1>3 DEF Run, RunClick, Going, Finished
  <2>3. b \in Runs /\ b.kind = "mouse"
    BY <1>3 DEF Runs, RunAct
  <2>4. Unpressed(a) = <<>> /\ Unpressed(b) = <<>>
    BY <1>3, <2>3 DEF Unpressed
  <2>. HIDE DEF e, b
  <2>. QED  BY <2>1, <2>2, <2>4, StrikesNone, UnpressedNone DEF Types
<1>. QED  BY <1>1, <1>2, <1>3 DEF Runs, RunAct

LEMMA BegunTypes ==
  ASSUME NEW a \in Actions, ~AtOnce(a)
  PROVE  Unpressed(Begun(a)) = T!Spell(a)
<1>1. a.kind \in {"text", "keys", "mouse"} /\ a.syms \in Seq(Syms)
  BY XdoAssumption DEF AtOnce, ActionKinds
<1>2. Begun(a) # NoAct
  BY BegunGood, RunIsAct
<1>3. /\ Begun(a).kind = a.kind /\ Begun(a).syms = a.syms
      /\ Begun(a).index = 1 /\ Begun(a).pressing = TRUE
  BY DEF Begun
<1>4. SubSeq(a.syms, 1, Len(a.syms)) = a.syms
  BY <1>1
<1>. QED  BY <1>1, <1>2, <1>3, <1>4 DEF Unpressed, T!Spell

LEMMA AtOnceTypes == ASSUME NEW a, AtOnce(a) PROVE T!Spell(a) = <<>>
  BY DEF AtOnce, T!Spell

-----------------------------------------------------------------------------
(* The refinement *)

\* Nothing changes that Typist speaks of.
LEMMA TypesSame ==
  ASSUME UNCHANGED <<acts, lastAdd, replay, running>>,
         Unpressed(acting') = Unpressed(acting), Wire(dpy'.inbox) = Wire(dpy.inbox)
  PROVE  UNCHANGED T!vars
  BY DEF T!vars, Wire

LEMMA TypesStir ==
  ASSUME UNCHANGED <<acts, lastAdd, replay>>, running, running' \in BOOLEAN,
         Unpressed(acting') = Unpressed(acting), Stirs(Wire(dpy.inbox), Wire(dpy'.inbox))
  PROVE  T!Stir
<1>1. /\ Len(Wire(dpy'.inbox)) >= Len(Wire(dpy.inbox))
      /\ SubSeq(Wire(dpy'.inbox), 1, Len(Wire(dpy.inbox))) = Wire(dpy.inbox)
      /\ \A i \in Len(Wire(dpy.inbox)) + 1 .. Len(Wire(dpy'.inbox)) :
           Wire(dpy'.inbox)[i] \in {MappingNotify, ShiftKey}
  BY DEF Stirs, Asides
<1>. QED  BY <1>1 DEF T!Stir, Wire

\* A step of the action in progress.
LEMMA ActTypes ==
  ASSUME XInv, running, acting # NoAct, Act(acting, mutSyms, dpy, TRUE),
         UNCHANGED <<acts, lastAdd, replay, running>>
  PROVE  [T!Next]_T!vars
<1>. DEFINE r == Run(acting, mutSyms, dpy)
            v == Wire(dpy.inbox)
            w == Wire(dpy'.inbox)
            p == Unpressed(acting)
            q == Unpressed(acting')
<1>1. Good(mutSyms, dpy, ~replug) /\ acting \in Runs /\ (~replug) \in BOOLEAN
  BY DEF XInv, Good
<1>2. Strikes(p, q, v, w)
  <2>1. Types(acting, dpy, r)
    BY <1>1, RunTypes
  <2>2. acting' = r.act /\ dpy' = r.dpy
    BY DEF Act
  <2>. QED  BY <2>1, <2>2 DEF Types
<1>3. v \in Seq(Marks)
  BY WireSeq DEF XInv, Servers
<1>. HIDE DEF r
<1>4. CASE p # <<>>
  <2>1. T!Strike(p)
    <3>1. \/ p # <<>> /\ w = Append(v, Head(p)) /\ q = Tail(p)
          \/ (w = v \/ \E m \in {MappingNotify, ShiftKey} : w = Append(v, m)) /\ q = p
      BY <1>2 DEF Strikes, Asides
    <3>. QED  BY <3>1 DEF T!Strike, Wire
  <2>. QED  BY <1>4, <2>1 DEF T!Type, T!Next
<1>5. CASE p = <<>> /\ w = v
  <2>1. q = p
    BY <1>2, <1>5 DEF Strikes
  <2>. QED  BY <1>5, <2>1, TypesSame
<1>6. CASE p = <<>> /\ w # v
  <2>1. q = p /\ \E m \in Asides : w = Append(v, m)
    BY <1>2, <1>6 DEF Strikes
  <2>2. Stirs(v, w)
    BY <1>3, <2>1, StirsAppend
  <2>3. T!Stir
    <3>1. running' \in BOOLEAN
      BY DEF XInv
    <3>. QED  BY <2>1, <2>2, <3>1, TypesStir
  <2>. QED  BY <2>3 DEF T!Next
<1>. QED  BY <1>4, <1>5, <1>6

\* Actions begun when the one in progress has ended, with nothing to type again.
LEMMA BeginTypes ==
  ASSUME XInv, running, NEW m, NEW d, Good(m, d, ~replug), Begin(m, d),
         Unpressed(acting) = <<>>, Wire(d.inbox) = Wire(dpy.inbox),
         UNCHANGED <<lastAdd, running>>
  PROVE  [T!Next]_T!vars
<1>1. PICK n \in 0 .. Len(acts) :
         /\ Takes(n)
         /\ acts' = SubSeq(acts, n + 1, Len(acts))
         /\ IF Slow(n) THEN Act(Begun(acts[n]), m, d, FALSE)
                       ELSE acting' = NoAct /\ mutSyms' = m /\ dpy' = d /\ paused' = FALSE
  BY DEF Begin
<1>2. acts \in Seq(Actions) /\ Len(acts) \in Nat /\ replay = <<>> /\ replay' = <<>>
  BY DEF XInv, QueuesTyped, Begin
<1>3. CASE n = 0
  <2>1. ~Slow(n)
    BY <1>3 DEF Slow
  <2>2. acts' = acts
    BY <1>1, <1>2, <1>3
  <2>3. acting' = NoAct /\ dpy' = d
    BY <1>1, <2>1
  <2>. QED  BY <1>2, <2>2, <2>3, TypesSame, UnpressedNone
<1>4. CASE n # 0
  <2>0. n \in 1 .. Len(acts)
    BY <1>2, <1>4
  <2>. DEFINE p == T!Spell(acts[n])
              v == Wire(dpy.inbox)
              w == Wire(dpy'.inbox)
              q == Unpressed(acting')
  <2>1. \A i \in 1 .. n - 1 : T!Spell(acts[i]) = <<>>
    BY <1>1, AtOnceTypes DEF Takes
  <2>2. Strikes(p, q, v, w)
    <3>1. CASE Slow(n)
      <4>1. acts[n] \in Actions /\ ~AtOnce(acts[n])
        BY <1>2, <2>0, <3>1 DEF Slow
      <4>. DEFINE a == Begun(acts[n])
                  r == Run(a, m, d)
      <4>2. a \in Runs /\ Unpressed(a) = p
        BY <4>1, BegunGood, BegunTypes
      <4>3. Types(a, d, r)
        BY <4>2, RunTypes
      <4>4. acting' = r.act /\ dpy' = r.dpy
        BY <1>1, <3>1 DEF Act
      <4>. HIDE DEF a, r, p
      <4>. QED  BY <4>2, <4>3, <4>4 DEF Types
    <3>2. CASE ~Slow(n)
      <4>1. AtOnce(acts[n])
        BY <2>0, <3>2 DEF Slow
      <4>2. p = <<>> /\ q = <<>> /\ w = v
        BY <1>1, <3>2, <4>1, AtOnceTypes, UnpressedNone
      <4>. QED  BY <4>2, StrikesNone
    <3>. QED  BY <3>1, <3>2
  <2>3. T!Strike(p)
    <3>. HIDE DEF p
    <3>1. \/ p # <<>> /\ w = Append(v, Head(p)) /\ q = Tail(p)
          \/ (w = v \/ \E x \in {MappingNotify, ShiftKey} : w = Append(v, x)) /\ q = p
      BY <2>2 DEF Strikes, Asides
    <3>. QED  BY <3>1 DEF T!Strike, Wire
  <2>4. T!Begin
    BY <1>1, <1>2, <2>0, <2>1, <2>3 DEF T!Begin
  <2>. QED  BY <2>4 DEF T!Next
<1>. QED  BY <1>3, <1>4

LEMMA ReplayTypes ==
  ASSUME XInv, running, NEW d \in Servers, Replay(d),
         Unpressed(acting) = <<>>, Wire(d.inbox) = Wire(dpy.inbox),
         UNCHANGED <<lastAdd, running>>
  PROVE  T!Next
<1>. DEFINE k == Head(replay)
<1>1. replay # <<>> /\ k.code \in Codes /\ k.press \in BOOLEAN /\ NoSym \in Symbols
  <2>1. replay # <<>> /\ replay \in Seq(KeyChange)
    BY DEF Replay, XInv, QueuesTyped
  <2>2. k \in KeyChange
    BY <2>1
  <2>. HIDE DEF k
  <2>. QED  BY <2>1, <2>2 DEF KeyChange, Symbols
<1>2. Wire(dpy'.inbox) = IF k.press THEN Append(Wire(dpy.inbox), k.code) ELSE Wire(dpy.inbox)
  <2>1. dpy' = FakeKey(d, k.code, k.press, NoSym)
    BY DEF Replay
  <2>. HIDE DEF k
  <2>. QED  BY <1>1, <2>1, WireKey
<1>3. UNCHANGED <<acts, lastAdd, running>> /\ replay' = Tail(replay) /\ Unpressed(acting') = <<>>
  BY UnpressedNone DEF Replay
<1>4. T!TypeAgain
  BY <1>1, <1>2, <1>3 DEF T!TypeAgain, Wire
<1>. QED  BY <1>4 DEF T!Next

LEMMA ProcTypes == ASSUME XInv, Proc PROVE [T!Next]_T!vars
<1>. DEFINE r == IF acting = NoAct THEN Finished(mutSyms, dpy) ELSE Run(acting, mutSyms, dpy)
<1>0. running /\ UNCHANGED <<lastAdd, running>> /\ (~replug) \in BOOLEAN
  BY DEF Proc, XInv
<1>1. Good(mutSyms, dpy, ~replug)
  BY <1>0 DEF XInv, Good
<1>2. Good(r.mut, r.dpy, ~replug)
  <2>1. CASE acting = NoAct
    BY <1>1, <2>1 DEF Finished, Going
  <2>2. CASE acting # NoAct
    BY <1>0, <1>1, <2>2, RunGood DEF XInv, Outcome
  <2>. QED  BY <2>1, <2>2
<1>3. r.act = NoAct => Unpressed(acting) = <<>> /\ Wire(r.dpy.inbox) = Wire(dpy.inbox)
  <2>1. CASE acting = NoAct
    BY <2>1, UnpressedNone DEF Finished, Going
  <2>2. CASE acting # NoAct
    <3>1. Types(acting, dpy, Run(acting, mutSyms, dpy))
      BY <1>0, <1>1, <2>2, RunTypes DEF XInv
    <3>. QED  BY <2>2, <3>1 DEF Types
  <2>. QED  BY <2>1, <2>2
<1>4. \/ acting # NoAct /\ Act(acting, mutSyms, dpy, TRUE) /\ UNCHANGED <<acts, replay>>
      \/ r.act = NoAct /\ Replay(r.dpy)
      \/ r.act = NoAct /\ Begin(r.mut, r.dpy)
  BY DEF Proc, Finished, Going
<1>. HIDE DEF r
<1>5. CASE acting # NoAct /\ Act(acting, mutSyms, dpy, TRUE) /\ UNCHANGED <<acts, replay>>
  BY <1>0, <1>5, ActTypes
<1>6. CASE r.act = NoAct /\ Replay(r.dpy)
  BY <1>0, <1>2, <1>3, <1>6, ReplayTypes DEF Good
<1>7. CASE r.act = NoAct /\ Begin(r.mut, r.dpy)
  BY <1>0, <1>2, <1>3, <1>7, BeginTypes
<1>. QED  BY <1>4, <1>5, <1>6, <1>7

LEMMA RecogniseTypes ==
  ASSUME XInv, NEW l \in Lines, Recognise(l)
  PROVE  T!Next
<1>1. running /\ UNCHANGED <<replay, running>> /\ acting' = acting /\ dpy'.inbox = dpy.inbox
  BY DEF Recognise, Unpress, XInv, Servers
<1>2. UNCHANGED <<replay, Unpressed(acting), [i \in DOMAIN dpy.inbox |-> Sent(dpy.inbox[i])],
                  ~running>>
  BY <1>1
<1>3. T!Accept(l)
  <2>1. CASE Head(l).kind = "repeat"
    <3>1. lastAdd \in Seq(Actions) /\ Head(l).n \in Nat
      <4>1. l \in Seq(Actions) /\ l # <<>>
        BY XdoAssumption
      <4>2. Head(l) \in Actions
        BY <4>1
      <4>. QED  BY <4>2, XdoAssumption DEF XInv, QueuesTyped
    <3>2. FlattenSeq([i \in 1 .. Head(l).n |-> lastAdd]) = Repeated(Head(l).n)
      BY <3>1, FlattenCopies DEF Copies, Repeated
    <3>3. acts' = acts \o Repeated(Head(l).n) \o Tail(l) /\ lastAdd' = lastAdd
      BY <2>1 DEF Recognise, AddActs
    <3>4. acts' = acts \o T!FlattenSeq([i \in 1 .. Head(l).n |-> lastAdd]) \o Tail(l)
      <4>1. \A q : T!FlattenSeq(q) = FlattenSeq(q)
        BY DEF FlattenSeq, T!FlattenSeq
      <4>. QED  BY <3>2, <3>3, <4>1
    <3>5. UNCHANGED lastAdd
      BY <3>3
    <3>. QED  BY <1>1, <1>2, <2>1, <3>4, <3>5, Zenon DEF T!Accept
  <2>2. CASE Head(l).kind # "repeat"
    <3>1. acts' = acts \o l /\ lastAdd' = l
      BY <2>2 DEF Recognise, AddActs
    <3>. QED  BY <1>1, <1>2, <2>2, <3>1 DEF T!Accept
  <2>. QED  BY <2>1, <2>2
<1>. QED  BY <1>3 DEF T!Next

LEMMA NotRecogniseTypes == ASSUME XInv, NotRecognise PROVE [T!Next]_T!vars
<1>1. /\ running /\ UNCHANGED <<acts, lastAdd, running>>
      /\ acting' = acting /\ dpy'.inbox = dpy.inbox
  BY DEF NotRecognise, Unpress, XInv, Servers
<1>2. CASE replay' = replay
  BY <1>1, <1>2, TypesSame
<1>3. CASE replay' # replay
  <2>1. PICK s \in Unmatched : AddUnmatch(s)
    BY <1>3 DEF NotRecognise
  <2>2. replay' = replay \o s /\ ~(Len(s) > MaxReplay) /\ Len(s) \in Nat /\ MaxReplay \in Nat
    BY <1>3, <2>1, XdoAssumption DEF AddUnmatch
  <2>3. T!HandBack(s)
    BY <1>1, <2>2 DEF T!HandBack
  <2>. QED  BY <2>3 DEF T!Next
<1>. QED  BY <1>2, <1>3

LEMMA NextTypes == ASSUME XInv, [Next]_vars PROVE [T!Next]_T!vars
<1>1. CASE Proc
  BY <1>1, ProcTypes
<1>2. CASE Elapse \/ UNCHANGED vars
  <2>1. UNCHANGED <<acts, lastAdd, replay, running>> /\ acting' = acting /\ dpy' = dpy
    BY <1>2 DEF Elapse, vars, queueVars
  <2>. QED  BY <2>1, TypesSame
<1>3. ASSUME NEW l \in Lines, Recognise(l) PROVE [T!Next]_T!vars
  BY <1>3, RecogniseTypes
<1>4. CASE NotRecognise
  BY <1>4, NotRecogniseTypes
<1>5. CASE OnDevChange \/ Quit
  <2>1. /\ UNCHANGED <<acts, lastAdd, replay>> /\ running /\ running' \in BOOLEAN
        /\ acting' = acting
    BY <1>5 DEF OnDevChange, Quit, queueVars
  <2>2. PICK kmap : dpy' = RemapAll(kmap)
    BY <1>5 DEF OnDevChange, Quit, Affirm
  <2>3. Stirs(Wire(dpy.inbox), Wire(dpy'.inbox))
    BY <2>2, StirsMaps DEF XInv
  <2>. QED  BY <2>1, <2>3, TypesStir DEF T!Next
<1>6. CASE Plug
  <2>1. /\ UNCHANGED <<acts, lastAdd, replay>> /\ running /\ running' \in BOOLEAN
        /\ acting' = acting /\ dpy'.inbox = Append(dpy.inbox, MappingNotify)
    BY <1>6 DEF Plug, queueVars, XInv
  <2>2. dpy.inbox \in Seq(Msgs) /\ MappingNotify \in Msgs /\ Sent(MappingNotify) = MappingNotify
    BY DEF XInv, Servers, Msgs, Sent
  <2>3. Wire(dpy'.inbox) = Append(Wire(dpy.inbox), MappingNotify)
    BY <2>1, <2>2, WireAppend
  <2>4. Stirs(Wire(dpy.inbox), Wire(dpy'.inbox))
    BY <2>2, <2>3, WireSeq, StirsAppend DEF Asides
  <2>. QED  BY <2>1, <2>4, TypesStir DEF T!Next
<1>7. CASE AppRead
  <2>1. /\ UNCHANGED <<acts, lastAdd, replay, running>> /\ acting' = acting
        /\ dpy.inbox # <<>> /\ dpy'.inbox = Tail(dpy.inbox)
    BY <1>7 DEF AppRead, queueVars, XInv, Servers
  <2>2. Wire(dpy.inbox) # <<>> /\ Wire(dpy'.inbox) = Tail(Wire(dpy.inbox))
    BY <2>1, WireTail DEF XInv, Servers
  <2>3. T!Read
    BY <2>1, <2>2 DEF T!Read, Wire
  <2>. QED  BY <2>3 DEF T!Next
<1>. QED  BY <1>1, <1>2, <1>3, <1>4, <1>5, <1>6, <1>7 DEF Next, Calls

\* An application is sent the symbols of each action that is begun, each once
\* and in order, and keys that are typed again only between two actions, for
\* any keyboard, lines and spare keycodes, however sequences, keyboards and
\* what Main unpresses come in between (proc, dispatch.rs:77-178).
THEOREM TypesAsAskedThm == Spec => TypesAsAsked
<1>1. Init => T!Init
  <2>. SUFFICES ASSUME Init PROVE T!Init
    OBVIOUS
  <2>1. /\ acts = <<>> /\ lastAdd = <<>> /\ replay = <<>> /\ running = TRUE
        /\ acting = NoAct /\ dpy.inbox = <<>>
    BY DEF Init
  <2>2. Wire(dpy.inbox) = <<>>
    BY <2>1 DEF Wire
  <2>. QED  BY <2>1, <2>2, UnpressedNone DEF T!Init, Wire
<1>2. XInv /\ [Next]_vars => [T!Next]_T!vars
  BY NextTypes
<1>. QED  BY <1>1, <1>2, InitXInv, NextXInv, PTL DEF Spec, TypesAsAsked, T!Spec
=============================================================================
