----------------------------- MODULE Locks_proof -----------------------------
(***************************************************************************)
(* Theorems about Locks, for any number of items, messages and calls.      *)
(***************************************************************************)
EXTENDS Locks, TLAPS, FiniteSetTheorems

(***************************************************************************)
(* What a thread has: mutexes it holds, and rights it was given by what it *)
(* found or did before.                                                    *)
(***************************************************************************)
Of(name) == <<name, NoItem>>
ItemMutex(i) == <<"item", i>>

Ref(i) == <<"ref", i>>            \* a shared_ptr to the item
Unpushed(i) == <<"unpushed", i>>  \* the item is to be pushed to the queue
Dying(i) == <<"dying", i>>        \* the item is to be destroyed,
Gone(i) == <<"gone", i>>          \* ... and no handler of it is in the table
AtFront(i) == <<"front", i>>      \* the item is the queue's front
Seen(i) == <<"seen", i>>          \* the item was in the table when it was locked
Look == Of("look")                \* there is a front to be looked at
Turn == Of("turn")                \* the message is still to be dispatched

Rights == ({"ref", "unpushed", "dying", "gone", "front", "seen"} \X Items) \cup {Look, Turn}
Things == Mutexes \cup Rights
Seens == {Seen(i) : i \in Items}

\* The memory of the item is not freed.
Keeps(h, i) ==
  Ref(i) \in h \/ Dying(i) \in h \/ Gone(i) \in h \/ (Seen(i) \in h /\ Of("table") \in h)

NoItemHeld(h) == \A i \in Items : ItemMutex(i) \notin h

Receiving == {Of("systems"), Of("table")}

(***************************************************************************)
(* The order in which the threads other than the receive thread take       *)
(* mutexes: a mutex is waited for only with those of smaller rank held.    *)
(***************************************************************************)
Rank(m) ==
  IF m[1] \in {"link", "queue", "plugins"} THEN 1
  ELSE IF m[1] \in {"item", "news"} THEN 2
  ELSE IF m[1] \in {"systems", "table", "timeouts", "data"} THEN 3 ELSE 0

\* Thread t, with h, may take mutexes of rank r.
Above(t, h, r) == t # "receive" => \A m \in h : Rank(m) < r

(***************************************************************************)
(* What thread t, with h, needs for the step s and for what may follow.    *)
(***************************************************************************)
OfItems == {"started?", "done?", "push", "register", "unregister", "drop", "free", "handle"}

Ordered(t, s, h) ==
  /\ s.op \in Takes \cup {"unlock"} => Mutex(s) \in Mutexes
  /\ s.op \in Takes => Above(t, h, Rank(Mutex(s)))
  /\ s.op = "unlock" => Mutex(s) \in h
  /\ s.op \in OfItems => s.item \in Items
  /\ s.op \in {"front", "started?", "drop", "free", "handle", "serve"} => NoItemHeld(h)
  /\ s.op \in {"front", "drop"} => Above(t, h, 2)
  /\ s.op = "front" => Look \in h /\ \A j \in Items : Ref(j) \notin h /\ AtFront(j) \notin h
  /\ s.op \in {"started?", "register", "push", "done?", "drop"} => Ref(s.item) \in h
  /\ s.op = "push" => Unpushed(s.item) \in h
  /\ s.op = "drop" => Unpushed(s.item) \notin h
  /\ s.op = "done?" => AtFront(s.item) \in h
  /\ s.op = "unregister" => Dying(s.item) \in h
  /\ s.op = "free" => Gone(s.item) \in h
  /\ s.op = "handle" \/ (s.op = "lock" /\ s.on = "item" /\ t # "work") => Keeps(h, s.item)
  /\ s.op = "lock" /\ s.on = "table" => Turn \in h
  /\ s.op = "unlock" /\ s.on = "table" => h \cap Mutexes = Receiving
  /\ s.op = "dispatch" => Turn \in h /\ h \cap Mutexes = Receiving
  /\ s.op = "connect" => Of("link") \in h
  /\ s.op = "expire" => t = "work" /\ h \cap Mutexes = {Of("timeouts")}
  /\ s.op = "pass" => s.on # "item"
  /\ t # "receive" => s.op \notin {"dispatch", "handle", "serve", "connect"}

Gains(s) ==
  IF s.op = "lock" THEN {Mutex(s)} ELSE IF s.op = "unregister" THEN {Gone(s.item)} ELSE {}

Loses(s) ==
  IF s.op = "unlock" THEN {Mutex(s)}
  ELSE IF s.op = "front" THEN {Look}
  ELSE IF s.op = "dispatch" THEN {Turn}
  ELSE IF s.op = "push" THEN {Unpushed(s.item)}
  ELSE IF s.op = "done?" THEN {AtFront(s.item)}
  ELSE IF s.op = "drop" THEN {Ref(s.item)}
  ELSE IF s.op = "unregister" THEN {Dying(s.item)}
  ELSE IF s.op = "free" THEN {Gone(s.item)} ELSE {}

After(s, h) == (h \ Loses(s)) \cup Gains(s)

(***************************************************************************)
(* Thread t, with h, finds what it needs for every step of the sequence    *)
(* and has k in the end.                                                   *)
(***************************************************************************)
Ops == Takes \cup {"unlock", "done", "front", "drop", "free", "expire", "dispatch", "handle",
                   "serve", "connect", "disconnect"}
MutexNames == {"systems", "news", "link", "plugins", "table", "timeouts", "queue", "data"}
MessageNames == {"COUNT", "ITEM", "ACK", "READ", "REQUEST", "HEARTBEAT"}
Ons == MutexNames \cup MessageNames \cup {"item", ""}

StepSet == [op : Ops, on : Ons, item : Items \cup {NoItem}]

Runs(t, seq, h, k) ==
  /\ seq \in Seq(StepSet)
  /\ \E f \in [1 .. Len(seq) + 1 -> SUBSET Things] :
       /\ f[1] = h /\ f[Len(seq) + 1] = k
       /\ \A n \in 1 .. Len(seq) : Ordered(t, seq[n], f[n]) /\ f[n + 1] = After(seq[n], f[n])
-----------------------------------------------------------------------------
(***************************************************************************)
(* Sequences.                                                              *)
(***************************************************************************)
LEMMA MutexesNamed ==
  /\ \A name \in MutexNames : Of(name) \in Mutexes
  /\ \A i \in Items : ItemMutex(i) \in Mutexes /\ Rank(ItemMutex(i)) = 2
  /\ \A i \in Items, name \in MutexNames : ItemMutex(i) # Of(name)
  /\ MutexNames \subseteq Ons
  BY DEF Mutexes, MutexNames, Of, ItemMutex, Rank, Ons

\* Rights are no mutexes, and differ.
LEMMA RightsApart ==
  /\ \A r \in Rights : r \notin Mutexes /\ Rank(r) = 0
  /\ \A i \in Items : /\ Ref(i) \in Rights /\ Unpushed(i) \in Rights /\ Dying(i) \in Rights
                      /\ Gone(i) \in Rights /\ AtFront(i) \in Rights /\ Seen(i) \in Rights
  /\ Look \in Rights /\ Turn \in Rights /\ Look # Turn
  BY DEF Rights, Mutexes, Rank, Ref, Unpushed, Dying, Gone, AtFront, Seen, Look, Turn, Of

LEMMA RanksOfMutexes == \A m \in Mutexes : Rank(m) \in 1 .. 3
<1>1. ASSUME NEW name \in MutexNames PROVE Rank(Of(name)) \in 1 .. 3
  BY DEF MutexNames, Rank, Of
<1>2. \A m \in Mutexes : (\E name \in MutexNames : m = Of(name)) \/ (\E i \in Items : m = ItemMutex(i))
  BY DEF Mutexes, MutexNames, Of, ItemMutex
<1> QED BY <1>1, <1>2, MutexesNamed

LEMMA AfterIn ==
  ASSUME NEW t, NEW s \in StepSet, NEW h \in SUBSET Things, Ordered(t, s, h)
  PROVE  After(s, h) \in SUBSET Things
<1>1. s.op = "lock" => Mutex(s) \in Mutexes
  BY DEF Ordered, Takes
<1>2. s.op = "unregister" => Gone(s.item) \in Rights
  BY RightsApart DEF Ordered, OfItems
<1>3. Gains(s) \subseteq Things
  BY <1>1, <1>2 DEF Gains, Things
<1> QED BY <1>3 DEF After

LEMMA OrderedFrame ==
  ASSUME NEW t, NEW s \in StepSet, NEW h \in SUBSET Things, NEW e \in SUBSET Seens, Ordered(t, s, h)
  PROVE  Ordered(t, s, h \cup e) /\ Loses(s) \cap e = {}
<1>1. \A m \in e : m \in Rights /\ m \notin Mutexes /\ Rank(m) = 0
  BY RightsApart DEF Seens
<1>2. (h \cup e) \cap Mutexes = h \cap Mutexes
  BY <1>1
<1>3. ASSUME NEW r, Above(t, h, r), r \in 1 .. 3 PROVE Above(t, h \cup e, r)
  BY <1>1, <1>3 DEF Above
<1>4. NoItemHeld(h) => NoItemHeld(h \cup e)
  BY <1>1, MutexesNamed DEF NoItemHeld
<1>5. \A i \in Items : /\ Ref(i) \notin e /\ Unpushed(i) \notin e /\ Dying(i) \notin e
                       /\ Gone(i) \notin e /\ AtFront(i) \notin e
                       /\ Look \notin e /\ Turn \notin e
  BY DEF Seens, Seen, Ref, Unpushed, Dying, Gone, AtFront, Look, Turn, Of
<1>6. \A m \in Mutexes : Rank(m) \in 1 .. 3
  BY RanksOfMutexes
<1>7. \A i \in Items : Keeps(h, i) => Keeps(h \cup e, i)
  BY DEF Keeps
<1>8. Ordered(t, s, h \cup e)
  <2> DEFINE g == h \cup e
  <2>0. /\ h \subseteq g /\ g \cap Mutexes = h \cap Mutexes
        /\ \A i \in Items : Ref(i) \in g => Ref(i) \in h
        /\ \A i \in Items : AtFront(i) \in g => AtFront(i) \in h
        /\ \A i \in Items : Unpushed(i) \in g => Unpushed(i) \in h
    BY <1>2, <1>5
  <2>1. /\ \A r \in 1 .. 3 : Above(t, h, r) => Above(t, g, r)
        /\ NoItemHeld(h) => NoItemHeld(g)
        /\ \A i \in Items : Keeps(h, i) => Keeps(g, i)
    BY <1>3, <1>4, <1>7
  <2> HIDE DEF g
  <2>2. s.op \in Takes => Above(t, g, Rank(Mutex(s)))
    <3>1. s.op \in Takes => Mutex(s) \in Mutexes /\ Above(t, h, Rank(Mutex(s)))
      BY DEF Ordered
    <3> QED BY <3>1, <2>1, <1>6
  <2>3. s.op = "drop" => Unpushed(s.item) \notin g
    BY <2>0 DEF Ordered, OfItems
  <2>4. s.op = "front" => Look \in g /\ \A j \in Items : Ref(j) \notin g /\ AtFront(j) \notin g
    BY <2>0 DEF Ordered
  <2>5. s.op = "handle" \/ (s.op = "lock" /\ s.on = "item" /\ t # "work") => Keeps(g, s.item)
    <3>1. s.on = "item" /\ s.op = "lock" => s.item \in Items
      <4>1. ASSUME s.on = "item", s.op = "lock"
            PROVE  Mutex(s) = <<"item", s.item>> /\ Mutex(s) \in Mutexes
        BY <4>1 DEF Ordered, Mutex, Takes
      <4> QED BY <4>1 DEF Mutexes
    <3> QED BY <2>1, <3>1 DEF Ordered, OfItems
  <2>6. s.op \in {"front", "drop"} => Above(t, g, 2)
    BY <2>1 DEF Ordered
  <2> QED BY <2>0, <2>1, <2>2, <2>3, <2>4, <2>5, <2>6 DEF Ordered, g
<1>9. Loses(s) \cap e = {}
  <2>1. s.op = "unlock" => Mutex(s) \notin e
    BY <1>1 DEF Ordered
  <2>2. s.op \in OfItems => s.item \in Items
    BY DEF Ordered
  <2>3. \A i \in Items : {Look, Turn, Unpushed(i), AtFront(i), Ref(i), Dying(i), Gone(i)} \cap e = {}
    BY <1>5
  <2>4. Look \notin e /\ Turn \notin e
    BY DEF Seens, Seen, Look, Turn, Of
  <2> QED BY <2>1, <2>2, <2>3, <2>4 DEF Loses, OfItems
<1> QED BY <1>8, <1>9

LEMMA RunsEmpty ==
  ASSUME NEW t, NEW h \in SUBSET Things
  PROVE  Runs(t, <<>>, h, h)
<1> DEFINE f == [n \in 1 .. 1 |-> h]
<1>1. <<>> \in Seq(StepSet) /\ Len(<<>>) = 0
  OBVIOUS
<1>2. f \in [1 .. 0 + 1 -> SUBSET Things] /\ f[1] = h
  OBVIOUS
<1> HIDE DEF f
<1> QED BY <1>1, <1>2 DEF Runs

LEMMA RunsOne ==
  ASSUME NEW t, NEW s \in StepSet, NEW h \in SUBSET Things, Ordered(t, s, h)
  PROVE  Runs(t, <<s>>, h, After(s, h)) /\ After(s, h) \in SUBSET Things
<1>1. After(s, h) \in SUBSET Things
  BY AfterIn
<1> DEFINE f == [n \in 1 .. 2 |-> IF n = 1 THEN h ELSE After(s, h)]
<1>2. f \in [1 .. 1 + 1 -> SUBSET Things] /\ f[1] = h /\ f[2] = After(s, h)
  BY <1>1
<1>3. <<s>> \in Seq(StepSet) /\ Len(<<s>>) = 1 /\ <<s>>[1] = s
  OBVIOUS
<1> HIDE DEF f
<1>4. \A n \in 1 .. 1 : Ordered(t, <<s>>[n], f[n]) /\ f[n + 1] = After(<<s>>[n], f[n])
  BY <1>2, <1>3
<1> QED BY <1>1, <1>2, <1>3, <1>4 DEF Runs

LEMMA RunsJoin ==
  ASSUME NEW t, NEW a, NEW b, NEW h, NEW k, NEW l, Runs(t, a, h, k), Runs(t, b, k, l)
  PROVE  Runs(t, a \o b, h, l)
<1>1. a \in Seq(StepSet) /\ b \in Seq(StepSet) /\ Len(a) \in Nat /\ Len(b) \in Nat
  BY DEF Runs
<1>2. PICK f \in [1 .. Len(a) + 1 -> SUBSET Things] :
        /\ f[1] = h /\ f[Len(a) + 1] = k
        /\ \A n \in 1 .. Len(a) : Ordered(t, a[n], f[n]) /\ f[n + 1] = After(a[n], f[n])
  BY DEF Runs
<1>3. PICK g \in [1 .. Len(b) + 1 -> SUBSET Things] :
        /\ g[1] = k /\ g[Len(b) + 1] = l
        /\ \A n \in 1 .. Len(b) : Ordered(t, b[n], g[n]) /\ g[n + 1] = After(b[n], g[n])
  BY DEF Runs
<1> DEFINE e == [n \in 1 .. Len(a) + Len(b) + 1 |->
                   IF n <= Len(a) + 1 THEN f[n] ELSE g[n - Len(a)]]
<1>4. /\ a \o b \in Seq(StepSet) /\ Len(a \o b) = Len(a) + Len(b)
      /\ \A n \in 1 .. Len(a) : (a \o b)[n] = a[n]
      /\ \A n \in 1 .. Len(b) : (a \o b)[Len(a) + n] = b[n]
  BY <1>1
<1>5. e \in [1 .. Len(a) + Len(b) + 1 -> SUBSET Things]
  BY <1>1, <1>2, <1>3
<1>6. /\ \A n \in 1 .. Len(a) + 1 : e[n] = f[n]
      /\ \A n \in 1 .. Len(b) + 1 : e[Len(a) + n] = g[n]
  BY <1>1, <1>2, <1>3
<1> HIDE DEF e
<1>7. e[1] = h /\ e[Len(a) + Len(b) + 1] = l
  BY <1>1, <1>2, <1>3, <1>6
<1>8. ASSUME NEW n \in 1 .. Len(a) + Len(b)
      PROVE  Ordered(t, (a \o b)[n], e[n]) /\ e[n + 1] = After((a \o b)[n], e[n])
  <2>1. CASE n \in 1 .. Len(a)
    BY <1>1, <1>2, <1>4, <1>6, <2>1
  <2>2. CASE n \notin 1 .. Len(a)
    <3>0. n - Len(a) \in 1 .. Len(b) /\ n = Len(a) + (n - Len(a))
      BY <1>1, <1>8, <2>2
    <3>1. PICK j \in 1 .. Len(b) : n = Len(a) + j
      BY <3>0
    <3>2. e[n] = g[j] /\ e[n + 1] = g[j + 1] /\ (a \o b)[n] = b[j]
      BY <1>1, <1>4, <1>6, <3>1
    <3> QED BY <1>3, <3>2
  <2> QED BY <2>1, <2>2
<1> QED BY <1>1, <1>4, <1>5, <1>7, <1>8 DEF Runs

\* The first step is taken.
LEMMA RunsTail ==
  ASSUME NEW t, NEW seq, NEW h, NEW k, Runs(t, seq, h, k), seq # <<>>
  PROVE  /\ Head(seq) \in StepSet /\ Ordered(t, Head(seq), h)
         /\ Runs(t, Tail(seq), After(Head(seq), h), k)
         /\ h \in SUBSET Things /\ After(Head(seq), h) \in SUBSET Things
<1>1. seq \in Seq(StepSet) /\ Len(seq) \in Nat \ {0}
  BY DEF Runs
<1>2. PICK f \in [1 .. Len(seq) + 1 -> SUBSET Things] :
        /\ f[1] = h /\ f[Len(seq) + 1] = k
        /\ \A n \in 1 .. Len(seq) : Ordered(t, seq[n], f[n]) /\ f[n + 1] = After(seq[n], f[n])
  BY DEF Runs
<1>3. /\ Head(seq) = seq[1] /\ Head(seq) \in StepSet
      /\ Tail(seq) \in Seq(StepSet) /\ Len(Tail(seq)) = Len(seq) - 1
      /\ \A n \in 1 .. Len(seq) - 1 : Tail(seq)[n] = seq[n + 1]
  BY <1>1
<1> DEFINE g == [n \in 1 .. Len(seq) |-> f[n + 1]]
<1>4. g \in [1 .. (Len(seq) - 1) + 1 -> SUBSET Things]
  BY <1>1, <1>2
<1>5. \A n \in 1 .. Len(seq) : g[n] = f[n + 1]
  OBVIOUS
<1> HIDE DEF g
<1>6. 1 \in 1 .. Len(seq) /\ Ordered(t, Head(seq), h) /\ f[2] = After(Head(seq), h)
  BY <1>1, <1>2, <1>3
<1>7. g[1] = After(Head(seq), h) /\ g[(Len(seq) - 1) + 1] = k
  BY <1>1, <1>2, <1>5, <1>6
<1>8. ASSUME NEW n \in 1 .. Len(seq) - 1
      PROVE  Ordered(t, Tail(seq)[n], g[n]) /\ g[n + 1] = After(Tail(seq)[n], g[n])
  <2>1. n + 1 \in 1 .. Len(seq) /\ n \in 1 .. Len(seq)
    BY <1>1, <1>8
  <2>2. g[n] = f[n + 1] /\ g[n + 1] = f[(n + 1) + 1] /\ Tail(seq)[n] = seq[n + 1]
    BY <1>3, <1>5, <2>1
  <2> QED BY <1>2, <2>1, <2>2
<1>9. f[1] \in SUBSET Things /\ f[2] \in SUBSET Things
  BY <1>1, <1>2
<1> QED BY <1>2, <1>3, <1>4, <1>6, <1>7, <1>8, <1>9 DEF Runs

\* What was seen in the table besides makes no difference.
LEMMA RunsFrame ==
  ASSUME NEW t, NEW seq, NEW h, NEW k, Runs(t, seq, h, k), NEW e \in SUBSET Seens
  PROVE  Runs(t, seq, h \cup e, k \cup e)
<1>1. seq \in Seq(StepSet) /\ Len(seq) \in Nat
  BY DEF Runs
<1>2. PICK f \in [1 .. Len(seq) + 1 -> SUBSET Things] :
        /\ f[1] = h /\ f[Len(seq) + 1] = k
        /\ \A n \in 1 .. Len(seq) : Ordered(t, seq[n], f[n]) /\ f[n + 1] = After(seq[n], f[n])
  BY DEF Runs
<1>3. e \subseteq Things
  BY RightsApart DEF Seens, Things
<1> DEFINE g == [n \in 1 .. Len(seq) + 1 |-> f[n] \cup e]
<1>4. g \in [1 .. Len(seq) + 1 -> SUBSET Things]
  BY <1>2, <1>3
<1>5. \A n \in 1 .. Len(seq) + 1 : g[n] = f[n] \cup e
  OBVIOUS
<1>6. 1 \in 1 .. Len(seq) + 1 /\ Len(seq) + 1 \in 1 .. Len(seq) + 1
  BY <1>1
<1> HIDE DEF g
<1>7. ASSUME NEW n \in 1 .. Len(seq)
      PROVE  Ordered(t, seq[n], g[n]) /\ g[n + 1] = After(seq[n], g[n])
  <2>1. /\ seq[n] \in StepSet /\ f[n] \in SUBSET Things /\ Ordered(t, seq[n], f[n])
        /\ f[n + 1] = After(seq[n], f[n]) /\ g[n] = f[n] \cup e /\ g[n + 1] = f[n + 1] \cup e
    BY <1>1, <1>2, <1>5
  <2>2. Ordered(t, seq[n], f[n] \cup e) /\ After(seq[n], f[n] \cup e) = After(seq[n], f[n]) \cup e
    <3>1. Ordered(t, seq[n], f[n] \cup e) /\ Loses(seq[n]) \cap e = {}
      BY <2>1, OrderedFrame
    <3>2. After(seq[n], f[n] \cup e) = After(seq[n], f[n]) \cup e
      BY <3>1 DEF After
    <3> QED BY <3>1, <3>2
  <2> QED BY <2>1, <2>2
<1> QED BY <1>1, <1>2, <1>4, <1>5, <1>6, <1>7 DEF Runs
-----------------------------------------------------------------------------
(***************************************************************************)
(* The sequences the operations are made of.                               *)
(***************************************************************************)
Changing == {"lock", "unlock", "unregister", "front", "dispatch", "push", "done?", "drop", "free"}

LEMMA RunsQuiet ==
  ASSUME NEW t, NEW s \in StepSet, NEW h \in SUBSET Things, Ordered(t, s, h), s.op \notin Changing
  PROVE  Runs(t, <<s>>, h, h)
<1>1. After(s, h) = h
  BY DEF After, Gains, Loses, Changing
<1> QED BY <1>1, RunsOne

\* A step that neither takes a mutex nor needs anything.
LEMMA FreeRuns ==
  ASSUME NEW t, NEW s \in StepSet, NEW h \in SUBSET Things, s.op \in {"done", "disconnect"}
  PROVE  Runs(t, <<s>>, h, h)
<1>1. Ordered(t, s, h) /\ s.op \notin Changing
  BY DEF Ordered, Takes, OfItems, Changing
<1> QED BY <1>1, RunsQuiet

LEMMA PassRuns ==
  ASSUME NEW t, NEW h \in SUBSET Things, NEW name \in MutexNames, Above(t, h, Rank(Of(name)))
  PROVE  Runs(t, Pass(name), h, h)
<1> DEFINE s == Step("pass", name, NoItem)
<1>1. s \in StepSet /\ s.op = "pass" /\ s.on = name /\ s.item = NoItem
  BY DEF Step, StepSet, Ops, Ons, Takes
<1> HIDE DEF s
<1>2. Mutex(s) = Of(name) /\ name # "item"
  BY <1>1 DEF Mutex, Of, MutexNames
<1>3. Ordered(t, s, h) /\ s.op \notin Changing
  BY <1>1, <1>2, MutexesNamed DEF Ordered, Takes, OfItems, Changing
<1> QED BY <1>1, <1>3, RunsQuiet DEF Pass, s

\* add(), remove() and refresh()
LEMMA TimersRun ==
  ASSUME NEW t, NEW h \in SUBSET Things, Above(t, h, 3), NEW i \in Items \cup {NoItem}
  PROVE  /\ Runs(t, AddTimeout(i), h, h) /\ Runs(t, RemoveTimeout(i), h, h)
         /\ Runs(t, RefreshTimeout, h, h)
<1>1. ASSUME NEW s \in StepSet, s.op \in {"arm", "disarm"} PROVE Runs(t, <<s>>, h, h)
  <2>1. Mutex(s) = Of("timeouts") /\ Rank(Of("timeouts")) = 3 /\ Of("timeouts") \in Mutexes
    BY <1>1, MutexesNamed DEF Mutex, Of, Rank, MutexNames
  <2>2. Ordered(t, s, h) /\ s.op \notin Changing
    BY <1>1, <2>1 DEF Ordered, Takes, OfItems, Changing
  <2> QED BY <1>1, <2>2, RunsQuiet
<1>2. Rank(Of("timeouts")) = 3 /\ "timeouts" \in MutexNames
  BY DEF Of, Rank, MutexNames
<1>3. Runs(t, RefreshTimeout, h, h)
  BY <1>2, PassRuns DEF RefreshTimeout
<1>4. Step("arm", "", i) \in StepSet /\ Step("arm", "", i).op = "arm"
  BY DEF Step, StepSet, Ops, Ons, Takes
<1>5. Step("disarm", "", i) \in StepSet /\ Step("disarm", "", i).op = "disarm"
  BY DEF Step, StepSet, Ops, Ons, Takes
<1> QED BY <1>1, <1>3, <1>4, <1>5 DEF AddTimeout, RemoveTimeout, Do

\* register_one(): by who has the item.
LEMMA RegisterRuns ==
  ASSUME NEW t, NEW h \in SUBSET Things, Above(t, h, 3), NEW i \in Items, Ref(i) \in h,
         NEW message \in MessageNames
  PROVE  Runs(t, Register(message, i), h, h)
<1> DEFINE s == Step("register", message, i)
<1>1. s \in StepSet /\ s.op = "register" /\ s.item = i
  BY DEF Step, StepSet, Ops, Ons, Takes
<1> HIDE DEF s
<1>2. Mutex(s) = Of("table") /\ Rank(Of("table")) = 3 /\ Of("table") \in Mutexes
  BY <1>1, MutexesNamed DEF Mutex, Of, Rank, MutexNames
<1>3. Ordered(t, s, h) /\ s.op \notin Changing
  BY <1>1, <1>2 DEF Ordered, Takes, OfItems, Changing
<1> QED BY <1>1, <1>3, RunsQuiet DEF Register, s

\* unregister_all(): no handler of the item is left.
LEMMA UnregisterRuns ==
  ASSUME NEW t, NEW h \in SUBSET Things, Above(t, h, 3), NEW i \in Items, Dying(i) \in h
  PROVE  Runs(t, Do("unregister", i), h, (h \ {Dying(i)}) \cup {Gone(i)})
<1> DEFINE s == Step("unregister", "", i)
<1>1. s \in StepSet /\ s.op = "unregister" /\ s.item = i
  BY DEF Step, StepSet, Ops, Ons, Takes
<1> HIDE DEF s
<1>2. Mutex(s) = Of("table") /\ Rank(Of("table")) = 3 /\ Of("table") \in Mutexes
  BY <1>1, MutexesNamed DEF Mutex, Of, Rank, MutexNames
<1>3. Ordered(t, s, h) /\ After(s, h) = (h \ {Dying(i)}) \cup {Gone(i)}
  BY <1>1, <1>2 DEF Ordered, Takes, OfItems, After, Gains, Loses
<1>4. Runs(t, <<s>>, h, After(s, h))
  BY <1>1, <1>3, RunsOne
<1> QED BY <1>3, <1>4 DEF Do, s

\* callback_and_reset()
LEMMA CallbackRuns ==
  ASSUME NEW t, NEW h \in SUBSET Things, Above(t, h, 3), NEW i \in Items
  PROVE  Runs(t, CallbackAndReset(i), h, h)
<1>1. Runs(t, Do("done", i), h, h)
  <2>1. Step("done", "", i) \in StepSet /\ Step("done", "", i).op = "done"
    BY DEF Step, StepSet, Ops, Ons, Takes
  <2> QED BY <2>1, FreeRuns DEF Do
<1>2. Runs(t, Pass("data"), h, h)
  BY PassRuns DEF Rank, Of, MutexNames
<1>3. Runs(t, <<>>, h, h)
  BY RunsEmpty
<1> DEFINE a == IF side = "vehicle" THEN Pass("data") ELSE <<>>
<1>4. Runs(t, a, h, h)
  BY <1>2, <1>3
<1> HIDE DEF a
<1> QED BY <1>1, <1>4, RunsJoin DEF CallbackAndReset, a

\* A mutex around a sequence.
LEMMA AroundRuns ==
  ASSUME NEW t, NEW h \in SUBSET Things, NEW k \in SUBSET Things, NEW m \in Mutexes, m \notin k,
         NEW l \in StepSet, l.op = "lock", Mutex(l) = m, Ordered(t, l, h),
         NEW u \in StepSet, u.op = "unlock", Mutex(u) = m, Ordered(t, u, k \cup {m}),
         NEW body, Runs(t, body, h \cup {m}, k \cup {m})
  PROVE  Runs(t, <<l>> \o body \o <<u>>, h, k)
<1> DEFINE h1 == h \cup {m}
           k1 == k \cup {m}
<1>1. After(l, h) = h1 /\ After(u, k1) = k /\ k1 \in SUBSET Things /\ Ordered(t, u, k1)
  BY DEF After, Gains, Loses, Things
<1>2. Runs(t, body, h1, k1)
  OBVIOUS
<1> HIDE DEF h1, k1
<1>3. Runs(t, <<l>>, h, h1) /\ Runs(t, <<u>>, k1, k)
  <2>1. Runs(t, <<l>>, h, After(l, h)) /\ Runs(t, <<u>>, k1, After(u, k1))
    BY <1>1, RunsOne
  <2> QED BY <1>1, <2>1
<1>4. Runs(t, <<l>> \o body, h, k1)
  BY <1>2, <1>3, RunsJoin
<1> QED BY <1>3, <1>4, RunsJoin

LEMMA LockedRuns ==
  ASSUME NEW t, NEW h \in SUBSET Things, NEW k \in SUBSET Things,
         NEW name \in MutexNames \ {"table"}, Of(name) \notin k, Above(t, h, Rank(Of(name))),
         NEW body, Runs(t, body, h \cup {Of(name)}, k \cup {Of(name)})
  PROVE  Runs(t, Locked(name, body), h, k)
<1> DEFINE l == Step("lock", name, NoItem)
           u == Step("unlock", name, NoItem)
           m == Of(name)
<1>1. /\ l \in StepSet /\ l.op = "lock" /\ Mutex(l) = m /\ l.on = name
      /\ u \in StepSet /\ u.op = "unlock" /\ Mutex(u) = m /\ u.on = name
      /\ name \notin {"item", "table"}
  BY DEF Step, StepSet, Ops, Ons, Takes, Mutex, Of, MutexNames
<1>2. m \in Mutexes /\ m \notin k /\ Above(t, h, Rank(m)) /\ Runs(t, body, h \cup {m}, k \cup {m})
  BY MutexesNamed
<1> HIDE DEF l, u, m
<1>3. Ordered(t, l, h) /\ Ordered(t, u, k \cup {m})
  BY <1>1, <1>2 DEF Ordered, Takes, OfItems
<1>4. Runs(t, <<l>> \o body \o <<u>>, h, k)
  BY <1>1, <1>2, <1>3, AroundRuns
<1> QED BY <1>4 DEF Locked, l, u

\* Thread t, with h, may take the mutex of the item.
ItemNext(t, h, i) == NoItemHeld(h) /\ Above(t, h, 2) /\ (t # "work" => Keeps(h, i))

LEMMA ItemsAbove ==
  ASSUME NEW t, NEW h \in SUBSET Things, NoItemHeld(h), Above(t, h, 2), NEW i \in Items
  PROVE  /\ Above(t, h, Rank(ItemMutex(i))) /\ Above(t, h, 3)
         /\ ItemMutex(i) \notin h /\ h \cup {ItemMutex(i)} \in SUBSET Things
         /\ Above(t, h \cup {ItemMutex(i)}, 3)
<1>1. ItemMutex(i) \in Mutexes /\ Rank(ItemMutex(i)) = 2
  BY MutexesNamed
<1>2. \A m : Rank(m) \in {0, 1, 2, 3}
  BY DEF Rank
<1> QED BY <1>1, <1>2 DEF Above, NoItemHeld, Things

LEMMA LockedItemRuns ==
  ASSUME NEW t, NEW h \in SUBSET Things, NEW k \in SUBSET Things, NEW i \in Items,
         ItemNext(t, h, i), ItemMutex(i) \notin k,
         NEW body, Runs(t, body, h \cup {ItemMutex(i)}, k \cup {ItemMutex(i)})
  PROVE  Runs(t, LockedItem(i, body), h, k)
<1> DEFINE l == Step("lock", "item", i)
           u == Step("unlock", "item", i)
           m == ItemMutex(i)
<1>1. /\ l \in StepSet /\ l.op = "lock" /\ Mutex(l) = m /\ l.on = "item" /\ l.item = i
      /\ u \in StepSet /\ u.op = "unlock" /\ Mutex(u) = m /\ u.on = "item"
  BY DEF Step, StepSet, Ops, Ons, Takes, Mutex, ItemMutex
<1>2. m \in Mutexes /\ m \notin k /\ Above(t, h, Rank(m)) /\ Runs(t, body, h \cup {m}, k \cup {m})
  BY ItemsAbove, MutexesNamed DEF ItemNext
<1> HIDE DEF l, u, m
<1>3. Ordered(t, l, h) /\ Ordered(t, u, k \cup {m})
  BY <1>1, <1>2 DEF Ordered, Takes, OfItems, ItemNext
<1>4. Runs(t, <<l>> \o body \o <<u>>, h, k)
  BY <1>1, <1>2, <1>3, AroundRuns
<1> QED BY <1>4 DEF LockedItem, l, u
-----------------------------------------------------------------------------
(***************************************************************************)
(* The operations on items.                                                *)
(***************************************************************************)
LEMMA RunsThree ==
  ASSUME NEW t, NEW h, NEW a, NEW b, NEW c, Runs(t, a, h, h), Runs(t, b, h, h), Runs(t, c, h, h)
  PROVE  Runs(t, a \o b, h, h) /\ Runs(t, a \o b \o c, h, h)
<1>1. Runs(t, a \o b, h, h)
  BY RunsJoin
<1> QED BY <1>1, RunsJoin

\* A thread between locks, with a right more.
LEMMA RightsMore ==
  ASSUME NEW t, NEW h \in SUBSET Things, NEW r \in SUBSET Rights
  PROVE  /\ h \cup r \in SUBSET Things
         /\ NoItemHeld(h) => NoItemHeld(h \cup r)
         /\ Above(t, h, 1) => Above(t, h \cup r, 1)
         /\ Above(t, h, 2) => Above(t, h \cup r, 2)
         /\ (h \cup r) \cap Mutexes = h \cap Mutexes
<1>1. \A m \in r : m \in Things /\ m \notin Mutexes /\ Rank(m) = 0
  BY RightsApart DEF Things
<1>2. NoItemHeld(h) => NoItemHeld(h \cup r)
  BY <1>1, MutexesNamed DEF NoItemHeld
<1>3. ASSUME NEW n \in 1 .. 3, Above(t, h, n) PROVE Above(t, h \cup r, n)
  BY <1>1, <1>3 DEF Above
<1>4. (h \cup r) \cap Mutexes = h \cap Mutexes
  BY <1>1
<1> QED BY <1>1, <1>2, <1>3, <1>4

\* The item's rights and its mutex differ.
LEMMA ItemApart ==
  ASSUME NEW i \in Items
  PROVE  /\ {Ref(i), Unpushed(i), Dying(i), Gone(i), AtFront(i), Seen(i)} \in SUBSET Rights
         /\ ItemMutex(i) \notin {Ref(i), Unpushed(i), Dying(i), Gone(i), AtFront(i), Seen(i)}
         /\ Ref(i) \notin {Unpushed(i), Dying(i), Gone(i), AtFront(i), Seen(i)}
         /\ Unpushed(i) \notin {Dying(i), Gone(i), AtFront(i), Seen(i)}
         /\ Dying(i) \notin {Gone(i), AtFront(i), Seen(i)}
         /\ Gone(i) \notin {AtFront(i), Seen(i)} /\ AtFront(i) # Seen(i)
<1>1. ItemMutex(i) \notin {Ref(i), Unpushed(i), Dying(i), Gone(i), AtFront(i), Seen(i)}
  BY DEF ItemMutex, Ref, Unpushed, Dying, Gone, AtFront, Seen
<1>2. /\ Ref(i) \notin {Unpushed(i), Dying(i), Gone(i), AtFront(i), Seen(i)}
      /\ Unpushed(i) \notin {Dying(i), Gone(i), AtFront(i), Seen(i)}
      /\ Dying(i) \notin {Gone(i), AtFront(i), Seen(i)}
      /\ Gone(i) \notin {AtFront(i), Seen(i)} /\ AtFront(i) # Seen(i)
  BY DEF Ref, Unpushed, Dying, Gone, AtFront, Seen
<1> QED BY <1>1, <1>2, RightsApart

LEMMA DropRuns ==
  ASSUME NEW t, NEW h \in SUBSET Things, NoItemHeld(h), Above(t, h, 2), NEW i \in Items,
         Ref(i) \in h, Unpushed(i) \notin h
  PROVE  Runs(t, Do("drop", i), h, h \ {Ref(i)})
<1> DEFINE s == Step("drop", "", i)
<1>1. s \in StepSet /\ s.op = "drop" /\ s.item = i
  BY DEF Step, StepSet, Ops, Ons
<1> HIDE DEF s
<1>2. Ordered(t, s, h) /\ After(s, h) = h \ {Ref(i)}
  BY <1>1 DEF Ordered, Takes, OfItems, After, Gains, Loses
<1>3. Runs(t, <<s>>, h, After(s, h))
  BY <1>1, <1>2, RunsOne
<1> QED BY <1>2, <1>3 DEF Do, s

LEMMA FreeingRuns ==
  ASSUME NEW t, NEW h \in SUBSET Things, NoItemHeld(h), NEW i \in Items, Gone(i) \in h
  PROVE  Runs(t, Do("free", i), h, h \ {Gone(i)})
<1> DEFINE s == Step("free", "", i)
<1>1. s \in StepSet /\ s.op = "free" /\ s.item = i
  BY DEF Step, StepSet, Ops, Ons
<1> HIDE DEF s
<1>2. Ordered(t, s, h) /\ After(s, h) = h \ {Gone(i)}
  BY <1>1 DEF Ordered, Takes, OfItems, After, Gains, Loses
<1>3. Runs(t, <<s>>, h, After(s, h))
  BY <1>1, <1>2, RunsOne
<1> QED BY <1>2, <1>3 DEF Do, s

\* The destructor.
LEMMA DestroyRuns ==
  ASSUME NEW t, NEW h \in SUBSET Things, NoItemHeld(h), Above(t, h, 2), NEW i \in Items,
         Dying(i) \notin h, Gone(i) \notin h
  PROVE  Runs(t, Destroy(i), h \cup {Dying(i)}, h)
<1> DEFINE m == ItemMutex(i)
           d == h \cup {Dying(i)}
           g == h \cup {Gone(i)}
           body == Do("unregister", i) \o RemoveTimeout(i)
<1>1. {Dying(i)} \in SUBSET Rights /\ {Gone(i)} \in SUBSET Rights
  BY ItemApart
<1>2. /\ d \in SUBSET Things /\ NoItemHeld(d) /\ Above(t, d, 2) /\ Dying(i) \in d
      /\ g \in SUBSET Things /\ NoItemHeld(g) /\ Above(t, g, 2) /\ Gone(i) \in g
  <2>1. d \in SUBSET Things /\ NoItemHeld(d) /\ Above(t, d, 2)
    BY <1>1, RightsMore
  <2>2. g \in SUBSET Things /\ NoItemHeld(g) /\ Above(t, g, 2)
    BY <1>1, RightsMore
  <2> QED BY <2>1, <2>2
<1>12. g \ {Gone(i)} = h
  OBVIOUS
<1>3. Dying(i) \in d \cup {m} /\ ((d \cup {m}) \ {Dying(i)}) \cup {Gone(i)} = g \cup {m}
  BY ItemApart
<1> HIDE DEF d, g
<1>4. /\ d \cup {m} \in SUBSET Things /\ Above(t, d \cup {m}, 3)
      /\ g \cup {m} \in SUBSET Things /\ Above(t, g \cup {m}, 3) /\ m \notin g
  BY <1>2, ItemsAbove
<1>5. Runs(t, Do("unregister", i), d \cup {m}, g \cup {m})
  BY <1>3, <1>4, UnregisterRuns
<1>6. Runs(t, RemoveTimeout(i), g \cup {m}, g \cup {m})
  BY <1>4, TimersRun
<1>7. Runs(t, body, d \cup {m}, g \cup {m})
  BY <1>5, <1>6, RunsJoin
<1> HIDE DEF body
<1>8. ItemNext(t, d, i)
  BY <1>2 DEF ItemNext, Keeps
<1>9. Runs(t, LockedItem(i, body), d, g)
  BY <1>2, <1>4, <1>7, <1>8, LockedItemRuns
<1>10. Runs(t, Do("free", i), g, h)
  <2>1. Runs(t, Do("free", i), g, g \ {Gone(i)})
    BY <1>2, FreeingRuns
  <2> QED BY <1>12, <2>1
<1>11. Runs(t, LockedItem(i, body) \o Do("free", i), d, h)
  BY <1>9, <1>10, RunsJoin
<1> QED BY <1>11 DEF Destroy, body, d

\* download_items_async(), upload_items_async(): by who has the new item.
LEMMA NewItemRuns ==
  ASSUME NEW t, NEW h \in SUBSET Things, NoItemHeld(h), t = "receive" \/ h \cap Mutexes = {},
         NEW i \in Items, Ref(i) \notin h, Unpushed(i) \notin h
  PROVE  Runs(t, NewItem(i), h \cup {Ref(i), Unpushed(i)}, h)
<1> DEFINE m == ItemMutex(i)
           n == h \cup {Ref(i), Unpushed(i)}
           p == h \cup {Ref(i)}
<1>1. /\ {Ref(i), Unpushed(i)} \in SUBSET Rights /\ {Ref(i)} \in SUBSET Rights
      /\ Ref(i) # Unpushed(i)
  BY ItemApart
<1>2. Above(t, h, 1) /\ Above(t, h, 2)
  <2>1. \A r \in Rights : Rank(r) = 0
    BY RightsApart
  <2> QED BY <2>1 DEF Above, Things
<1>3. /\ n \in SUBSET Things /\ NoItemHeld(n) /\ Above(t, n, 1) /\ Above(t, n, 2)
      /\ Ref(i) \in n /\ Unpushed(i) \in n
  <2>1. n \in SUBSET Things /\ NoItemHeld(n) /\ Above(t, n, 1) /\ Above(t, n, 2)
    BY <1>1, <1>2, RightsMore
  <2> QED BY <2>1
<1>10. p \in SUBSET Things /\ NoItemHeld(p) /\ Above(t, p, 2) /\ Ref(i) \in p
  <2>1. p \in SUBSET Things /\ NoItemHeld(p) /\ Above(t, p, 2)
    BY <1>1, <1>2, RightsMore
  <2> QED BY <2>1
<1>11. n \ {Unpushed(i)} = p /\ Unpushed(i) \notin p /\ p \ {Ref(i)} = h
  BY <1>1
<1> HIDE DEF n, p
<1>4. n \cup {m} \in SUBSET Things /\ Above(t, n \cup {m}, 3) /\ m \notin n /\ Ref(i) \in n \cup {m}
  BY <1>3, ItemsAbove
<1>5. Runs(t, Construct(i), n, n)
  <2> DEFINE body == Register("COUNT", i) \o Register("ITEM", i)
  <2>1. Runs(t, Register("COUNT", i), n \cup {m}, n \cup {m})
        /\ Runs(t, Register("ITEM", i), n \cup {m}, n \cup {m})
    BY <1>4, RegisterRuns DEF MessageNames
  <2>2. Runs(t, body, n \cup {m}, n \cup {m})
    BY <2>1, RunsJoin
  <2> HIDE DEF body
  <2>3. ItemNext(t, n, i)
    BY <1>3 DEF ItemNext, Keeps
  <2>4. Runs(t, LockedItem(i, body), n, n)
    BY <1>3, <1>4, <2>2, <2>3, LockedItemRuns
  <2>5. Runs(t, <<>>, n, n)
    BY <1>3, RunsEmpty
  <2> QED BY <2>4, <2>5 DEF Construct, body
<1>6. Runs(t, Do("push", i), n, p)
  <2> DEFINE s == Step("push", "", i)
  <2>1. s \in StepSet /\ s.op = "push" /\ s.item = i /\ Mutex(s) = Of("queue")
    BY DEF Step, StepSet, Ops, Ons, Takes, Mutex, Of
  <2>2. Of("queue") \in Mutexes /\ Rank(Of("queue")) = 1
    BY MutexesNamed DEF MutexNames, Rank, Of
  <2> HIDE DEF s
  <2>3. Ordered(t, s, n) /\ After(s, n) = p
    BY <1>3, <1>11, <2>1, <2>2 DEF Ordered, Takes, OfItems, After, Gains, Loses
  <2>4. Runs(t, <<s>>, n, After(s, n))
    BY <1>3, <2>1, <2>3, RunsOne
  <2> QED BY <2>3, <2>4 DEF Do, s
<1>7. Runs(t, Do("drop", i), p, h)
  <2>1. Runs(t, Do("drop", i), p, p \ {Ref(i)})
    BY <1>10, <1>11, DropRuns
  <2> QED BY <1>11, <2>1
<1>8. Runs(t, Construct(i) \o Do("push", i), n, p)
  BY <1>5, <1>6, RunsJoin
<1>9. Runs(t, (Construct(i) \o Do("push", i)) \o Do("drop", i), n, h)
  BY <1>7, <1>8, RunsJoin
<1> QED BY <1>9 DEF NewItem, n

LEMMA StartsRun ==
  ASSUME NEW t, NEW h \in SUBSET Things, NoItemHeld(h), Above(t, h, 2), NEW i \in Items,
         Ref(i) \in h, NEW steps \in Starts(i)
  PROVE  Runs(t, steps, h, h)
<1> DEFINE k == h \cup {ItemMutex(i)}
<1>1. k \in SUBSET Things /\ Above(t, k, 3) /\ Ref(i) \in k /\ ItemMutex(i) \notin h
  BY ItemsAbove
<1>0. ItemNext(t, h, i)
  BY DEF ItemNext, Keeps
<1> HIDE DEF k
<1>2. /\ Runs(t, AddTimeout(i), k, k) /\ Runs(t, RemoveTimeout(i), k, k)
      /\ Runs(t, CallbackAndReset(i), k, k) /\ Runs(t, <<>>, k, k)
  BY <1>1, TimersRun, CallbackRuns, RunsEmpty
<1>3. /\ Runs(t, Register("ACK", i), k, k) /\ Runs(t, Register("READ", i), k, k)
      /\ Runs(t, Register("ITEM", i), k, k)
  BY <1>1, RegisterRuns DEF MessageNames
<1>4. ASSUME NEW body, Runs(t, body, k, k), steps = LockedItem(i, body) PROVE Runs(t, steps, h, h)
  BY <1>0, <1>1, <1>4, LockedItemRuns DEF k
<1>5. CASE side = "station"
  <2>1. \/ steps = LockedItem(i, AddTimeout(i))
        \/ steps = LockedItem(i, AddTimeout(i) \o RemoveTimeout(i) \o CallbackAndReset(i))
    BY <1>5 DEF Starts
  <2>2. Runs(t, AddTimeout(i) \o RemoveTimeout(i) \o CallbackAndReset(i), k, k)
    BY <1>2, RunsThree
  <2> QED BY <1>2, <1>4, <2>1, <2>2
<1>6. CASE side # "station" /\ side = "vehicle" /\ kind[i] = "upload"
  <2>1. PICK rest \in {<<>>, CallbackAndReset(i), Register("READ", i)} :
          steps = LockedItem(i, Register("ACK", i) \o AddTimeout(i) \o rest)
    BY <1>6 DEF Starts
  <2>2. Runs(t, rest, k, k)
    BY <1>2, <1>3
  <2>3. Runs(t, Register("ACK", i) \o AddTimeout(i) \o rest, k, k)
    BY <1>2, <1>3, <2>2, RunsThree
  <2> QED BY <1>4, <2>1, <2>3
<1>7. CASE side # "station" /\ ~(side = "vehicle" /\ kind[i] = "upload")
  <2>1. PICK rest \in {CallbackAndReset(i), AddTimeout(i)} :
          steps = LockedItem(i, Register("ITEM", i) \o rest)
    BY <1>7 DEF Starts
  <2>2. Runs(t, rest, k, k)
    BY <1>2
  <2>3. Runs(t, Register("ITEM", i) \o rest, k, k)
    BY <1>3, <2>2, RunsJoin
  <2> QED BY <1>4, <2>1, <2>3
<1> QED BY <1>5, <1>6, <1>7

LEMMA HandlersRun ==
  ASSUME NEW t, NEW h \in SUBSET Things, NEW i \in Items, ItemNext(t, h, i)
  PROVE  /\ \A finish \in BOOLEAN : Runs(t, Handles(i, finish), h, h)
         /\ \A steps \in TimeoutHandlers(i) : Runs(t, steps, h, h)
         /\ Ref(i) \in h /\ Unpushed(i) \notin h => Runs(t, Cancels(i), h, h \ {Ref(i)})
<1> DEFINE k == h \cup {ItemMutex(i)}
<1>1. k \in SUBSET Things /\ Above(t, k, 3) /\ ItemMutex(i) \notin h
  BY ItemsAbove DEF ItemNext
<1> HIDE DEF k
<1>2. /\ Runs(t, AddTimeout(i), k, k) /\ Runs(t, RemoveTimeout(i), k, k)
      /\ Runs(t, CallbackAndReset(i), k, k) /\ Runs(t, RefreshTimeout, k, k)
  BY <1>1, TimersRun, CallbackRuns
<1>3. Runs(t, RemoveTimeout(i) \o CallbackAndReset(i), k, k)
  BY <1>2, RunsJoin
<1>4. ASSUME NEW body, Runs(t, body, k, k) PROVE Runs(t, LockedItem(i, body), h, h)
  BY <1>1, <1>4, LockedItemRuns DEF k
<1>5. ASSUME NEW finish \in BOOLEAN PROVE Runs(t, Handles(i, finish), h, h)
  <2> DEFINE body == IF finish THEN RemoveTimeout(i) \o CallbackAndReset(i) ELSE RefreshTimeout
  <2>1. Runs(t, body, k, k)
    BY <1>2, <1>3
  <2> HIDE DEF body
  <2>2. Runs(t, LockedItem(i, body), h, h)
    BY <1>4, <2>1
  <2> QED BY <2>2 DEF Handles, body
<1>6. ASSUME NEW steps \in TimeoutHandlers(i) PROVE Runs(t, steps, h, h)
  BY <1>2, <1>4 DEF TimeoutHandlers
<1>7. ASSUME Ref(i) \in h, Unpushed(i) \notin h PROVE Runs(t, Cancels(i), h, h \ {Ref(i)})
  <2>1. Runs(t, LockedItem(i, RemoveTimeout(i) \o CallbackAndReset(i)), h, h)
    BY <1>3, <1>4
  <2>2. Runs(t, Do("drop", i), h, h \ {Ref(i)})
    BY <1>7, DropRuns DEF ItemNext
  <2> QED BY <2>1, <2>2, RunsJoin DEF Cancels
<1> QED BY <1>5, <1>6, <1>7
-----------------------------------------------------------------------------
(***************************************************************************)
(* What the threads begin and what they go on with.                        *)
(***************************************************************************)
\* A thread with no mutex may take any.
LEMMA NoneAbove ==
  ASSUME NEW t, NEW h \in SUBSET Things, h \cap Mutexes = {}
  PROVE  NoItemHeld(h) /\ Above(t, h, 1) /\ Above(t, h, 2) /\ Above(t, h, 3)
<1>1. \A r \in h : Rank(r) = 0
  BY RightsApart DEF Things
<1>2. NoItemHeld(h)
  BY MutexesNamed DEF NoItemHeld
<1> QED BY <1>1, <1>2 DEF Above

LEMMA OneMutex ==
  ASSUME NEW t, NEW h \in SUBSET Things, NEW name \in MutexNames, h \cap Mutexes = {}
  PROVE  /\ h \cup {Of(name)} \in SUBSET Things /\ NoItemHeld(h \cup {Of(name)})
         /\ (h \cup {Of(name)}) \cap Mutexes = {Of(name)} /\ Of(name) \notin h
         /\ Above(t, h, Rank(Of(name)))
         /\ \A r \in 1 .. 3 : Rank(Of(name)) < r => Above(t, h \cup {Of(name)}, r)
<1>1. \A r \in h : Rank(r) = 0
  BY RightsApart DEF Things
<1>2. Of(name) \in Mutexes /\ Rank(Of(name)) \in 1 .. 3 /\ \A i \in Items : Of(name) # ItemMutex(i)
  BY MutexesNamed, RanksOfMutexes
<1>3. NoItemHeld(h \cup {Of(name)})
  BY <1>2, MutexesNamed DEF NoItemHeld
<1> QED BY <1>1, <1>2, <1>3 DEF Above, Things

LEMMA LookRight == {Look} \in SUBSET Things /\ {Look} \cap Mutexes = {}
                   /\ {Turn} \in SUBSET Things /\ {Turn} \cap Mutexes = {}
  BY RightsApart DEF Things

\* do_work(), when there is a front.
LEMMA DoWorkRuns == Runs("system", DoWork, {Look}, {})
<1> DEFINE t == "system"
           s == Step("front", "", NoItem)
           m == Of("queue")
           h == {Look} \cup {m}
<1>1. s \in StepSet /\ s.op = "front" /\ "queue" \in MutexNames \ {"table"} /\ Rank(m) = 1
  BY DEF Step, StepSet, Ops, Ons, MutexNames, Rank, Of
<1>2. /\ h \in SUBSET Things /\ NoItemHeld(h) /\ Above(t, {Look}, Rank(m)) /\ Above(t, h, 2)
      /\ m \notin {Look}
  <2> DEFINE l == {Look}
  <2>1. l \in SUBSET Things /\ l \cap Mutexes = {} /\ "queue" \in MutexNames
    BY <1>1, LookRight
  <2> HIDE DEF l
  <2>2. /\ l \cup {m} \in SUBSET Things /\ NoItemHeld(l \cup {m}) /\ Above(t, l, Rank(m))
        /\ m \notin l /\ \A r \in 1 .. 3 : Rank(m) < r => Above(t, l \cup {m}, r)
    BY <2>1, OneMutex
  <2>3. Above(t, l \cup {m}, 2)
    <3>1. 2 \in 1 .. 3 /\ Rank(m) < 2
      BY DEF Rank, Of
    <3> HIDE DEF m
    <3> QED BY <2>2, <3>1
  <2> QED BY <2>2, <2>3 DEF l
<1>3. Look \in h /\ \A j \in Items : Ref(j) \notin h /\ AtFront(j) \notin h
  BY DEF Look, Ref, AtFront, Of
<1>4. After(s, h) = {} \cup {m}
  <2>1. After(s, h) = h \ {Look}
    BY <1>1 DEF After, Gains, Loses
  <2> QED BY <1>2, <2>1
<1> HIDE DEF s, m, t
<1>5. Ordered(t, s, h)
  BY <1>1, <1>2, <1>3 DEF Ordered, Takes, OfItems
<1> HIDE DEF h
<1>6. Runs(t, <<s>>, h, After(s, h))
  BY <1>1, <1>2, <1>5, RunsOne
<1>7. Runs(t, Do("front", NoItem), {Look} \cup {m}, {} \cup {m})
  BY <1>4, <1>6 DEF Do, s, h
<1>8. Runs(t, Locked("queue", Do("front", NoItem)), {Look}, {})
  BY <1>1, <1>2, <1>7, LookRight, LockedRuns DEF m
<1> QED BY <1>8 DEF DoWork, t

\* run_once(), when there is an entry.
LEMMA ExpireRuns == Runs("work", Locked("timeouts", Do("expire", NoItem)), {}, {})
<1> DEFINE t == "work"
           s == Step("expire", "", NoItem)
           m == Of("timeouts")
           h == {} \cup {m}
<1>1. s \in StepSet /\ s.op = "expire" /\ "timeouts" \in MutexNames \ {"table"}
  BY DEF Step, StepSet, Ops, Ons, MutexNames
<1>2. h \in SUBSET Things /\ h \cap Mutexes = {m} /\ Above(t, {}, Rank(m)) /\ {} \in SUBSET Things
  <2> DEFINE l == {}
  <2>1. l \in SUBSET Things /\ l \cap Mutexes = {} /\ "timeouts" \in MutexNames
    BY <1>1
  <2> HIDE DEF l
  <2>2. l \cup {m} \in SUBSET Things /\ (l \cup {m}) \cap Mutexes = {m} /\ Above(t, l, Rank(m))
    BY <2>1, OneMutex
  <2> QED BY <2>1, <2>2 DEF l
<1> HIDE DEF s, m
<1>3. Ordered(t, s, h) /\ s.op \notin Changing
  BY <1>1, <1>2 DEF Ordered, Takes, OfItems, Changing, m
<1> HIDE DEF h
<1>4. Runs(t, <<s>>, h, h)
  BY <1>1, <1>2, <1>3, RunsQuiet
<1> HIDE DEF t
<1>5. Runs(t, Do("expire", NoItem), {} \cup {m}, {} \cup {m})
  BY <1>4 DEF Do, s, h
<1>6. Runs(t, Locked("timeouts", Do("expire", NoItem)), {}, {})
  BY <1>1, <1>2, <1>5, LockedRuns DEF m
<1> QED BY <1>6 DEF t

\* What get_front() is followed by, for the front.
LEMMA WorkOnRuns ==
  ASSUME NEW t, NEW h \in SUBSET Things, NoItemHeld(h), Above(t, h, 2), NEW i \in Items,
         Ref(i) \notin h, AtFront(i) \notin h, Unpushed(i) \notin h
  PROVE  Runs(t, WorkOn(i), h \cup {Ref(i), AtFront(i)}, h)
<1> DEFINE n == h \cup {Ref(i), AtFront(i)}
           p == h \cup {Ref(i)}
<1>1. /\ {Ref(i), AtFront(i)} \in SUBSET Rights /\ {Ref(i)} \in SUBSET Rights
      /\ Ref(i) # AtFront(i) /\ Ref(i) # Unpushed(i) /\ AtFront(i) # Unpushed(i)
  BY ItemApart
<1>2. n \in SUBSET Things /\ NoItemHeld(n) /\ Above(t, n, 2)
  BY <1>1, RightsMore
<1>3. p \in SUBSET Things /\ NoItemHeld(p) /\ Above(t, p, 2)
  BY <1>1, RightsMore
<1>4. /\ Ref(i) \in n /\ AtFront(i) \in n /\ n \ {AtFront(i)} = p
      /\ Ref(i) \in p /\ Unpushed(i) \notin p /\ p \ {Ref(i)} = h
  BY <1>1
<1> HIDE DEF n, p
<1>5. ItemMutex(i) \in Mutexes /\ Rank(ItemMutex(i)) = 2
  BY MutexesNamed
<1>6. Runs(t, Do("started?", i), n, n)
  <2> DEFINE s == Step("started?", "", i)
  <2>1. s \in StepSet /\ s.op = "started?" /\ s.item = i /\ Mutex(s) = ItemMutex(i)
    BY DEF Step, StepSet, Ops, Ons, Takes, Mutex, ItemMutex
  <2> HIDE DEF s
  <2>2. Ordered(t, s, n) /\ s.op \notin Changing
    BY <1>2, <1>4, <1>5, <2>1 DEF Ordered, Takes, OfItems, Changing
  <2> QED BY <1>2, <2>1, <2>2, RunsQuiet DEF Do, s
<1>7. Runs(t, Do("done?", i), n, p)
  <2> DEFINE s == Step("done?", "", i)
  <2>1. s \in StepSet /\ s.op = "done?" /\ s.item = i /\ Mutex(s) = ItemMutex(i)
    BY DEF Step, StepSet, Ops, Ons, Takes, Mutex, ItemMutex
  <2> HIDE DEF s
  <2>2. Ordered(t, s, n) /\ After(s, n) = p
    BY <1>2, <1>4, <1>5, <2>1 DEF Ordered, Takes, OfItems, After, Gains, Loses
  <2>3. Runs(t, <<s>>, n, After(s, n))
    BY <1>2, <2>1, <2>2, RunsOne
  <2> QED BY <2>2, <2>3 DEF Do, s
<1>8. Runs(t, Do("drop", i), p, h)
  <2>1. Runs(t, Do("drop", i), p, p \ {Ref(i)})
    BY <1>3, <1>4, DropRuns
  <2> QED BY <1>4, <2>1
<1>9. Runs(t, Do("started?", i) \o Do("done?", i), n, p)
  BY <1>6, <1>7, RunsJoin
<1>10. Runs(t, (Do("started?", i) \o Do("done?", i)) \o Do("drop", i), n, h)
  BY <1>8, <1>9, RunsJoin
<1> QED BY <1>10 DEF WorkOn, n

\* receive_message(), with the message to be dispatched.
LEMMA ReceivingMutexes ==
  /\ Receiving \in SUBSET Mutexes /\ NoItemHeld(Receiving)
  /\ {"systems", "table", "link", "data"} \subseteq MutexNames
  /\ \A name \in MutexNames \ {"systems", "table"} : Of(name) \notin Receiving
<1>1. {"systems", "table", "link", "data"} \subseteq MutexNames
  BY DEF MutexNames
<1>2. \A name \in MutexNames \ {"systems", "table"} : Of(name) \notin Receiving
  BY DEF Receiving, Of
<1>3. Receiving \in SUBSET Mutexes /\ NoItemHeld(Receiving)
  BY <1>1, MutexesNamed DEF Receiving, NoItemHeld
<1> QED BY <1>1, <1>2, <1>3

LEMMA ReceiveAbove == \A h, r : Above("receive", h, r)
  BY DEF Above

LEMMA ReceiveRuns ==
  ASSUME NEW message \in MessageNames
  PROVE  Runs("receive", Receive(message), {Turn}, {})
<1> DEFINE t == "receive"
           s == Step("dispatch", message, NoItem)
           l == Step("lock", "table", NoItem)
           u == Step("unlock", "table", NoItem)
           m == Of("table")
           a == {Turn} \cup {Of("systems")}
           b == {} \cup {Of("systems")}
<1>1. /\ s \in StepSet /\ s.op = "dispatch"
      /\ l \in StepSet /\ l.op = "lock" /\ Mutex(l) = m /\ l.on = "table"
      /\ u \in StepSet /\ u.op = "unlock" /\ Mutex(u) = m /\ u.on = "table"
  BY DEF Step, StepSet, Ops, Ons, Takes, MutexNames, Mutex, Of
<1>2. /\ Turn \notin Mutexes /\ Turn \in Things
      /\ Of("systems") \in Mutexes /\ m \in Mutexes /\ Of("systems") # m
  BY RightsApart, ReceivingMutexes, MutexesNamed DEF Things, Of
<1>3. /\ a \in SUBSET Things /\ b \in SUBSET Things /\ m \notin b /\ Turn \in a
      /\ a \cup {m} \in SUBSET Things /\ (a \cup {m}) \ {Turn} = b \cup {m}
      /\ (a \cup {m}) \cap Mutexes = Receiving /\ (b \cup {m}) \cap Mutexes = Receiving
  BY <1>2 DEF Things, Receiving
<1> HIDE DEF s, l, u, a, b, m
<1>4. Ordered(t, l, a) /\ Ordered(t, u, b \cup {m}) /\ Ordered(t, s, a \cup {m})
  BY <1>1, <1>2, <1>3, ReceiveAbove DEF Ordered, Takes, OfItems
<1>5. After(s, a \cup {m}) = b \cup {m}
  BY <1>1, <1>3 DEF After, Gains, Loses
<1>6. Runs(t, <<s>>, a \cup {m}, b \cup {m})
  <2>1. Runs(t, <<s>>, a \cup {m}, After(s, a \cup {m}))
    BY <1>1, <1>3, <1>4, RunsOne
  <2> QED BY <1>5, <2>1
<1>7. Runs(t, <<l>> \o <<s>> \o <<u>>, a, b)
  BY <1>1, <1>2, <1>3, <1>4, <1>6, AroundRuns
<1>8. Runs(t, Locked("table", <<s>>), {Turn} \cup {Of("systems")}, {} \cup {Of("systems")})
  BY <1>7 DEF Locked, l, u, a, b
<1>9. {Turn} \in SUBSET Things /\ {} \in SUBSET Things /\ Of("systems") \notin {}
      /\ "systems" \in MutexNames \ {"table"} /\ Above(t, {Turn}, Rank(Of("systems")))
  BY <1>2, ReceivingMutexes, ReceiveAbove
<1> HIDE DEF t
<1>10. Runs(t, Locked("systems", Locked("table", <<s>>)), {Turn}, {})
  BY <1>8, <1>9, LockedRuns
<1> QED BY <1>10 DEF Receive, s, t

\* A handler of the receive thread that takes a mutex around one step.
LEMMA LockedStepRuns ==
  ASSUME NEW h \in SUBSET Things, h \cap Mutexes = Receiving, NEW name \in {"data", "link"},
         NEW s \in StepSet, Ordered("receive", s, h \cup {Of(name)}), s.op \notin Changing
  PROVE  Runs("receive", Locked(name, <<s>>), h, h)
<1> DEFINE t == "receive"
<1>1. name \in MutexNames \ {"table"} /\ Of(name) \notin Receiving /\ Of(name) \in Mutexes
  BY ReceivingMutexes, MutexesNamed
<1>2. h \cup {Of(name)} \in SUBSET Things /\ Of(name) \notin h
  BY <1>1 DEF Things
<1>3. Runs("receive", <<s>>, h \cup {Of(name)}, h \cup {Of(name)})
  BY <1>2, RunsQuiet
<1>4. Above("receive", h, Rank(Of(name)))
  BY ReceiveAbove
<1> QED BY <1>1, <1>2, <1>3, <1>4, LockedRuns

LEMMA ServesRuns ==
  ASSUME NEW message \in MessageNames, NEW h \in SUBSET Things, h \cap Mutexes = Receiving
  PROVE  Runs("receive", Serves(message), h, h)
<1> DEFINE s == Step("serve", message, NoItem)
           k == h \cup {Of("data")}
<1>1. s \in StepSet /\ s.op = "serve"
  BY DEF Step, StepSet, Ops, Ons
<1>2. NoItemHeld(k)
  BY ReceivingMutexes, MutexesNamed DEF NoItemHeld
<1> HIDE DEF s, k
<1>3. Ordered("receive", s, k) /\ s.op \notin Changing
  BY <1>1, <1>2 DEF Ordered, Takes, OfItems, Changing
<1>4. Runs("receive", Locked("data", <<s>>), h, h)
  BY <1>1, <1>3, LockedStepRuns DEF k
<1> QED BY <1>4 DEF Serves, s

\* set_connected()
LEMMA SetConnectedRuns ==
  ASSUME NEW h \in SUBSET Things, h \cap Mutexes = Receiving
  PROVE  Runs("receive", SetConnected, h, h)
<1> DEFINE s == Step("connect", "", NoItem)
           k == h \cup {Of("link")}
<1>1. s \in StepSet /\ s.op = "connect" /\ Of("link") \in k
  BY DEF Step, StepSet, Ops, Ons
<1> HIDE DEF s, k
<1>2. Ordered("receive", s, k) /\ s.op \notin Changing
  BY <1>1 DEF Ordered, Takes, OfItems, Changing
<1>3. Runs("receive", Locked("link", <<s>>), h, h)
  BY <1>1, <1>2, LockedStepRuns DEF k
<1> QED BY <1>3 DEF SetConnected, Do, s

\* The handlers of items that are in the table.
LEMMA HandleAllRuns ==
  ASSUME NEW h \in SUBSET Things, h \cap Mutexes = Receiving, NEW seen, NEW order \in Seq(seen),
         seen \subseteq Items, \A i \in seen : Seen(i) \in h
  PROVE  Runs("receive", [n \in DOMAIN order |-> Step("handle", "", order[n])], h, h)
<1> DEFINE q == [n \in DOMAIN order |-> Step("handle", "", order[n])]
           f == [n \in 1 .. Len(order) + 1 |-> h]
<1>1. DOMAIN order = 1 .. Len(order) /\ Len(order) \in Nat
  OBVIOUS
<1>2. ASSUME NEW n \in 1 .. Len(order)
      PROVE  q[n] \in StepSet /\ q[n].op = "handle" /\ q[n].item \in seen
  <2>1. order[n] \in seen /\ order[n] \in Items /\ q[n] = Step("handle", "", order[n])
    BY <1>1
  <2>2. ASSUME NEW e \in Items
        PROVE  /\ Step("handle", "", e) \in StepSet
               /\ Step("handle", "", e).op = "handle" /\ Step("handle", "", e).item = e
    BY DEF Step, StepSet, Ops, Ons
  <2> HIDE DEF q
  <2> QED BY <2>1, <2>2
<1>3. q \in Seq(StepSet) /\ Len(q) = Len(order)
  <2>1. \A n \in 1 .. Len(order) : Step("handle", "", order[n]) \in StepSet
    <3> TAKE n \in 1 .. Len(order)
    <3>1. q[n] = Step("handle", "", order[n])
      BY <1>1
    <3> QED BY <1>2, <3>1
  <2>2. q = [n \in 1 .. Len(order) |-> Step("handle", "", order[n])]
    BY <1>1
  <2>3. q \in [1 .. Len(order) -> StepSet]
    BY <2>1, <2>2
  <2>4. DOMAIN q = 1 .. Len(order)
    BY <2>2
  <2> HIDE DEF q
  <2> QED BY <1>1, <2>3, <2>4
<1>4. NoItemHeld(h)
  BY ReceivingMutexes, MutexesNamed DEF NoItemHeld
<1>5. f \in [1 .. Len(order) + 1 -> SUBSET Things] /\ \A n \in 1 .. Len(order) + 1 : f[n] = h
  OBVIOUS
<1> HIDE DEF q, f
<1>6. ASSUME NEW s \in StepSet, s.op = "handle", s.item \in seen
      PROVE  Ordered("receive", s, h) /\ After(s, h) = h
  <2>1. Of("table") \in h
    BY DEF Receiving
  <2>2. s.item \in Items /\ Keeps(h, s.item)
    BY <1>6, <2>1 DEF Keeps
  <2>3. Ordered("receive", s, h)
    BY <1>4, <1>6, <2>2 DEF Ordered, Takes, OfItems
  <2> QED BY <1>6, <2>3 DEF After, Gains, Loses
<1>7. ASSUME NEW n \in 1 .. Len(order)
      PROVE  Ordered("receive", q[n], f[n]) /\ f[n + 1] = After(q[n], f[n])
  <2>1. n \in 1 .. Len(order) + 1 /\ n + 1 \in 1 .. Len(order) + 1
    BY <1>1
  <2> QED BY <1>2, <1>5, <1>6, <2>1
<1>8. f[1] = h /\ f[Len(order) + 1] = h
  BY <1>1, <1>5
<1> QED BY <1>3, <1>5, <1>7, <1>8 DEF Runs, q

\* set_disconnected(), in the work thread.
LEMMA TimedOutRuns ==
  ASSUME NEW t, NEW h \in SUBSET Things, h \cap Mutexes = {}
  PROVE  Runs(t, HeartbeatsTimedOut, h, h)
<1>1. /\ {"link", "plugins", "data", "news"} \subseteq MutexNames \ {"table"}
      /\ Rank(Of("link")) = 1 /\ Rank(Of("plugins")) = 1
      /\ Rank(Of("news")) = 2 /\ Rank(Of("data")) = 3
  BY DEF MutexNames, Rank, Of
<1> DEFINE k == h \cup {Of("link")}
           l == h \cup {Of("plugins")}
           body == Do("disconnect", NoItem) \o Notify
<1>2. /\ k \in SUBSET Things /\ Of("link") \notin h /\ Above(t, h, Rank(Of("link")))
      /\ \A r \in 1 .. 3 : Rank(Of("link")) < r => Above(t, k, r)
  BY <1>1, OneMutex
<1>3. /\ l \in SUBSET Things /\ Of("plugins") \notin h /\ Above(t, h, Rank(Of("plugins")))
      /\ \A r \in 1 .. 3 : Rank(Of("plugins")) < r => Above(t, l, r)
  BY <1>1, OneMutex
<1> HIDE DEF k, l
<1>4. Above(t, k, Rank(Of("news"))) /\ Above(t, l, Rank(Of("data")))
  BY <1>1, <1>2, <1>3
<1>5. Runs(t, Do("disconnect", NoItem), k, k)
  <2>1. Step("disconnect", "", NoItem) \in StepSet /\ Step("disconnect", "", NoItem).op = "disconnect"
    BY DEF Step, StepSet, Ops, Ons
  <2> QED BY <1>2, <2>1, FreeRuns DEF Do
<1>6. Runs(t, Notify, k, k)
  BY <1>1, <1>2, <1>4, PassRuns DEF Notify
<1>7. Runs(t, body, k, k)
  BY <1>5, <1>6, RunsJoin
<1> HIDE DEF body
<1>8. Runs(t, Locked("link", body), h, h)
  BY <1>1, <1>2, <1>7, LockedRuns DEF k
<1>9. Runs(t, DisableAll, h, h)
  <2>1. Runs(t, Pass("data"), l, l)
    BY <1>1, <1>3, <1>4, PassRuns
  <2>2. Runs(t, Locked("plugins", Pass("data")), h, h)
    BY <1>1, <1>3, <2>1, LockedRuns DEF l
  <2>3. Runs(t, Pass("plugins"), h, h)
    BY <1>1, <1>3, PassRuns
  <2> QED BY <2>2, <2>3 DEF DisableAll
<1> QED BY <1>8, <1>9, RunsJoin DEF HeartbeatsTimedOut, body

\* run_once() has unlocked while it calls.
LEMMA UnlockedRuns ==
  ASSUME NEW t, NEW h \in SUBSET Things, h \cap Mutexes = {Of("timeouts")},
         NEW callback, Runs(t, callback, h \ {Of("timeouts")}, h \ {Of("timeouts")})
  PROVE  Runs(t, RunUnlocked(callback), h, h)
<1> DEFINE u == Step("unlock", "timeouts", NoItem)
           l == Step("lock", "timeouts", NoItem)
           k == h \ {Of("timeouts")}
<1>1. /\ l \in StepSet /\ l.op = "lock" /\ Mutex(l) = Of("timeouts") /\ l.on = "timeouts"
      /\ u \in StepSet /\ u.op = "unlock" /\ Mutex(u) = Of("timeouts") /\ u.on = "timeouts"
      /\ Rank(Of("timeouts")) = 3
  BY DEF Step, StepSet, Ops, Ons, Takes, MutexNames, Mutex, Of, Rank
<1> HIDE DEF l, u
<1>2. Of("timeouts") \in Mutexes /\ Of("timeouts") \in h /\ k \in SUBSET Things /\ k \cap Mutexes = {}
  BY MutexesNamed DEF MutexNames
<1>3. Runs(t, callback, k, k) /\ k \cup {Of("timeouts")} = h
  BY <1>2
<1> HIDE DEF k
<1>4. Above(t, k, 3)
  BY <1>2, NoneAbove
<1>5. Ordered(t, u, h) /\ Ordered(t, l, k)
  BY <1>1, <1>2, <1>4 DEF Ordered, Takes, OfItems
<1>6. After(u, h) = k /\ After(l, k) = h
  <2>1. After(u, h) = h \ {Of("timeouts")} /\ After(l, k) = k \cup {Of("timeouts")}
    BY <1>1 DEF After, Gains, Loses
  <2> QED BY <1>3, <2>1 DEF k
<1>7. Runs(t, <<u>>, h, k) /\ Runs(t, <<l>>, k, h)
  <2>1. Runs(t, <<u>>, h, After(u, h)) /\ Runs(t, <<l>>, k, After(l, k))
    BY <1>1, <1>2, <1>5, RunsOne
  <2> QED BY <1>6, <2>1
<1>8. Runs(t, <<u>> \o callback, h, k)
  BY <1>3, <1>7, RunsJoin
<1>9. Runs(t, (<<u>> \o callback) \o <<l>>, h, h)
  BY <1>7, <1>8, RunsJoin
<1> QED BY <1>9 DEF RunUnlocked, l, u

\* The user's calls that make no item.
LEMMA CallsRun ==
  ASSUME NEW t
  PROVE  /\ Runs(t, SubscribeOnNewSystem, {}, {})
         /\ Runs(t, RegisterPlugin, {}, {}) /\ Runs(t, UnregisterPlugin, {}, {})
<1> DEFINE h == {}
<1>1. /\ {"news", "systems", "table", "plugins", "data"} \subseteq MutexNames
      /\ "news" \in MutexNames \ {"table"}
      /\ Rank(Of("news")) = 2 /\ Rank(Of("systems")) = 3
  BY DEF MutexNames, Rank, Of
<1>2. h \in SUBSET Things /\ h \cap Mutexes = {} /\ \A r : Above(t, h, r)
  BY DEF Above
<1> HIDE DEF h
<1>3. ASSUME NEW name \in MutexNames PROVE Runs(t, Pass(name), h, h)
  BY <1>2, PassRuns
<1>4. Runs(t, SubscribeOnNewSystem, h, h)
  <2> DEFINE k == h \cup {Of("news")}
  <2>1. /\ k \in SUBSET Things /\ Of("news") \notin h
        /\ \A r \in 1 .. 3 : Rank(Of("news")) < r => Above(t, k, r)
    BY <1>1, <1>2, OneMutex
  <2> HIDE DEF k
  <2>2. Above(t, k, Rank(Of("systems")))
    BY <1>1, <2>1
  <2>3. Runs(t, Pass("systems"), k, k)
    BY <1>1, <2>1, <2>2, PassRuns
  <2> QED BY <1>1, <1>2, <2>1, <2>3, LockedRuns DEF SubscribeOnNewSystem, k
<1>5. Runs(t, <<>>, h, h)
  BY <1>2, RunsEmpty
<1>6. Runs(t, RegisterPlugin, h, h)
  BY <1>1, <1>3, RunsJoin DEF RegisterPlugin
<1>7. Runs(t, UnregisterPlugin, h, h)
  <2> DEFINE a == IF side = "station" THEN Pass("data") ELSE <<>>
  <2>1. Runs(t, a, h, h)
    BY <1>1, <1>3, <1>5
  <2> HIDE DEF a
  <2>2. Runs(t, Pass("table"), h, h) /\ Runs(t, Pass("plugins"), h, h)
    BY <1>1, <1>3
  <2> QED BY <2>1, <2>2, RunsThree DEF UnregisterPlugin, a
<1> QED BY <1>4, <1>6, <1>7 DEF h
-----------------------------------------------------------------------------
(***************************************************************************)
(* The invariant: what the threads have, x, agrees with the state, and     *)
(* every thread finds what it needs on the rest of its way, in the end     *)
(* with nothing left.                                                      *)
(***************************************************************************)
InTable(i) == \E e \in table : e[2] = i

StateOK ==
  /\ todo \in [Threads -> Seq(StepSet)]
  /\ holder \in [Mutexes -> Threads \cup {Nobody}]
  /\ armed \subseteq Items \cup {NoItem}
  /\ refs \in [Items -> SUBSET (Threads \cup {"queue"})]
  /\ fifo \in Seq(Items)

\* Items with handlers in the table and items that someone has exist.
ItemsExist ==
  /\ \A i \in Items : refs[i] # {} => i \in exists
  /\ \A i \in Items : InTable(i) => i \in exists

Queued ==
  /\ \A n \in 1 .. Len(fifo) : "queue" \in refs[fifo[n]]
  /\ \A m, n \in 1 .. Len(fifo) : fifo[m] = fifo[n] => m = n

MutexesHeld(x) == \A t \in Threads, m \in Mutexes : m \in x[t] <=> holder[m] = t

RefsHeld(x) == \A t \in Threads, i \in Items : Ref(i) \in x[t] <=> t \in refs[i]

PushesLeft(x) ==
  \A t \in Threads, i \in Items : Unpushed(i) \in x[t] =>
    /\ Ref(i) \in x[t] /\ "queue" \notin refs[i]
    /\ \A u \in Threads : Unpushed(i) \in x[u] => u = t

Destroyed(x) ==
  \A t \in Threads, i \in Items : Dying(i) \in x[t] \/ Gone(i) \in x[t] =>
    /\ i \in exists /\ refs[i] = {}
    /\ \A u \in Threads : Dying(i) \in x[u] \/ Gone(i) \in x[u] => u = t
    /\ Gone(i) \in x[t] => ~InTable(i) /\ Dying(i) \notin x[t]

FrontHeld(x) ==
  \A t \in Threads :
    /\ Look \in x[t] => t = "system" /\ fifo # <<>>
    /\ \A i \in Items : AtFront(i) \in x[t] =>
         t = "system" /\ fifo # <<>> /\ Head(fifo) = i /\ Look \notin x[t]

TableSeen(x) ==
  \A t \in Threads, i \in Items : Seen(i) \in x[t] =>
    /\ Turn \notin x[t]
    /\ Of("table") \in x[t] => InTable(i)

ItemsKept(x) ==
  \A t \in Threads, i \in Items : t # "work" /\ ItemMutex(i) \in x[t] => Keeps(x[t], i)

GoesOn(x) == \A t \in Threads : \E k \in SUBSET Seens : Runs(t, todo[t], x[t], k)

Fits(x) ==
  /\ x \in [Threads -> SUBSET Things]
  /\ MutexesHeld(x) /\ RefsHeld(x) /\ PushesLeft(x) /\ Destroyed(x) /\ FrontHeld(x) /\ TableSeen(x)
  /\ ItemsKept(x) /\ GoesOn(x)

LockInv == StateOK /\ ItemsExist /\ Queued /\ \E x : Fits(x)

\* The rights differ, and so do those of different items.
LEMMA Apart ==
  /\ \A i, j \in Items : /\ Ref(i) = Ref(j) => i = j
                         /\ Unpushed(i) = Unpushed(j) => i = j
                         /\ Dying(i) = Dying(j) => i = j
                         /\ Gone(i) = Gone(j) => i = j
                         /\ AtFront(i) = AtFront(j) => i = j
                         /\ Seen(i) = Seen(j) => i = j
                         /\ ItemMutex(i) = ItemMutex(j) => i = j
  /\ \A i, j \in Items : /\ Ref(i) \notin {Unpushed(j), Dying(j), Gone(j), AtFront(j), Seen(j)}
                         /\ Unpushed(i) \notin {Dying(j), Gone(j), AtFront(j), Seen(j)}
                         /\ Dying(i) \notin {Gone(j), AtFront(j), Seen(j)}
                         /\ Gone(i) \notin {AtFront(j), Seen(j)} /\ AtFront(i) # Seen(j)
  /\ \A i \in Items : {Look, Turn} \cap {Ref(i), Unpushed(i), Dying(i), Gone(i), AtFront(i), Seen(i)} = {}
  /\ Look # Turn
<1>1. \A i, j \in Items : /\ Ref(i) = Ref(j) => i = j
                          /\ Unpushed(i) = Unpushed(j) => i = j
                          /\ Dying(i) = Dying(j) => i = j
                          /\ Gone(i) = Gone(j) => i = j
                          /\ AtFront(i) = AtFront(j) => i = j
                          /\ Seen(i) = Seen(j) => i = j
                          /\ ItemMutex(i) = ItemMutex(j) => i = j
  BY DEF Ref, Unpushed, Dying, Gone, AtFront, Seen, ItemMutex
<1>2. \A i, j \in Items : /\ Ref(i) \notin {Unpushed(j), Dying(j), Gone(j), AtFront(j), Seen(j)}
                          /\ Unpushed(i) \notin {Dying(j), Gone(j), AtFront(j), Seen(j)}
                          /\ Dying(i) \notin {Gone(j), AtFront(j), Seen(j)}
                          /\ Gone(i) \notin {AtFront(j), Seen(j)} /\ AtFront(i) # Seen(j)
  BY DEF Ref, Unpushed, Dying, Gone, AtFront, Seen
<1>3. \A i \in Items : {Look, Turn} \cap {Ref(i), Unpushed(i), Dying(i), Gone(i), AtFront(i), Seen(i)} = {}
  BY DEF Ref, Unpushed, Dying, Gone, AtFront, Seen, Look, Turn, Of
<1>4. Look # Turn
  BY DEF Look, Turn, Of
<1> QED BY <1>1, <1>2, <1>3, <1>4

\* A thread with nothing to do has nothing but what it once saw.
LEMMA NothingLeft ==
  ASSUME NEW t, NEW h, NEW k, Runs(t, <<>>, h, k)
  PROVE  h = k
  BY DEF Runs

\* The thread has h and goes on with q.
LEMMA GoesOnWith ==
  ASSUME NEW x, x \in [Threads -> SUBSET Things], StateOK, GoesOn(x), NEW t \in Threads, NEW q,
         todo' = [todo EXCEPT ![t] = q], NEW h \in SUBSET Things, NEW k \in SUBSET Seens,
         Runs(t, q, h, k)
  PROVE  /\ GoesOn([x EXCEPT ![t] = h])'
         /\ todo' \in [Threads -> Seq(StepSet)]
         /\ [x EXCEPT ![t] = h] \in [Threads -> SUBSET Things]
<1> DEFINE y == [x EXCEPT ![t] = h]
<1>1. q \in Seq(StepSet)
  BY DEF Runs
<1>2. todo' \in [Threads -> Seq(StepSet)] /\ y \in [Threads -> SUBSET Things]
  BY <1>1 DEF StateOK
<1>3. todo'[t] = q /\ y[t] = h /\ \A u \in Threads \ {t} : todo'[u] = todo[u] /\ y[u] = x[u]
  BY DEF StateOK
<1> HIDE DEF y
<1>4. ASSUME NEW u \in Threads PROVE \E l \in SUBSET Seens : Runs(u, todo'[u], y[u], l)
  <2>1. CASE u = t
    BY <1>3, <2>1
  <2>2. CASE u # t
    BY <1>3, <2>2 DEF GoesOn
  <2> QED BY <2>1, <2>2
<1>5. GoesOn(y)'
  BY <1>4 DEF GoesOn
<1> QED BY <1>2, <1>5 DEF y

\* Where a thread that is not idle stands.
LEMMA Standing ==
  ASSUME NEW x, StateOK, Fits(x), NEW t \in Threads, ~Idle(t)
  PROVE  /\ Now(t) \in StepSet /\ Ordered(t, Now(t), x[t])
         /\ x[t] \in SUBSET Things /\ After(Now(t), x[t]) \in SUBSET Things
         /\ \E k \in SUBSET Seens : Runs(t, Tail(todo[t]), After(Now(t), x[t]), k)
<1>1. PICK k \in SUBSET Seens : Runs(t, todo[t], x[t], k)
  BY DEF Fits, GoesOn
<1>2. todo[t] # <<>>
  BY DEF Idle
<1> QED BY <1>1, <1>2, RunsTail DEF Now

\* Steps that take nothing away from what others rely on.
LEMMA LessFits ==
  ASSUME NEW x, StateOK, Fits(x), NEW t \in Threads, NEW q, todo' = [todo EXCEPT ![t] = q],
         NEW h \in SUBSET Things, NEW k \in SUBSET Seens, Runs(t, q, h, k),
         h \subseteq x[t], x[t] \cap Mutexes \subseteq h,
         \A i \in Items : Ref(i) \in x[t] => Ref(i) \in h,
         \A i \in Items : Dying(i) \in x[t] => Dying(i) \in h,
         \A i \in Items : Gone(i) \in x[t] => Gone(i) \in h,
         \A i \in Items : Seen(i) \in x[t] => Seen(i) \in h,
         UNCHANGED <<holder, table, fifo, refs, exists>>
  PROVE  \E y : Fits(y)'
<1> DEFINE y == [x EXCEPT ![t] = h]
<1>1. GoesOn(y)' /\ y \in [Threads -> SUBSET Things]
  BY GoesOnWith DEF Fits
<1>2. y[t] = h /\ \A u \in Threads \ {t} : y[u] = x[u]
  BY DEF Fits
<1> HIDE DEF y
<1>3. /\ \A u \in Threads : y[u] \subseteq x[u]
      /\ \A u \in Threads, m \in Mutexes : m \in y[u] <=> m \in x[u]
      /\ \A u \in Threads, i \in Items : Ref(i) \in y[u] <=> Ref(i) \in x[u]
      /\ \A u \in Threads, i \in Items : Dying(i) \in y[u] <=> Dying(i) \in x[u]
      /\ \A u \in Threads, i \in Items : Gone(i) \in y[u] <=> Gone(i) \in x[u]
      /\ \A u \in Threads, i \in Items : Seen(i) \in y[u] <=> Seen(i) \in x[u]
  BY <1>2
<1>4. \A i : InTable(i)' <=> InTable(i)
  BY DEF InTable
<1>5. MutexesHeld(y)' /\ RefsHeld(y)'
  BY <1>3 DEF Fits, MutexesHeld, RefsHeld
<1>6. PushesLeft(y)'
  BY <1>3 DEF Fits, PushesLeft
<1>7. Destroyed(y)'
  BY <1>3, <1>4 DEF Fits, Destroyed
<1>8. FrontHeld(y)'
  BY <1>3 DEF Fits, FrontHeld
<1>9. TableSeen(y)'
  <2>1. \A u \in Threads : Of("table") \in y[u] => Of("table") \in x[u]
    BY <1>3
  <2> QED BY <1>3, <1>4, <2>1 DEF Fits, TableSeen
<1>10. ItemsKept(y)'
  <2>1. Of("table") \in Mutexes /\ \A i \in Items : ItemMutex(i) \in Mutexes
    BY MutexesNamed DEF MutexNames
  <2> QED BY <1>3, <2>1 DEF Fits, ItemsKept, Keeps
<1> QED BY <1>1, <1>5, <1>6, <1>7, <1>8, <1>9, <1>10 DEF Fits

\* A step that leaves the items and the mutexes alone and what t has too.
LEMMA SameInv ==
  ASSUME LockInv, NEW t \in Threads, ~Idle(t), NEW steps, GoOn(t, steps),
         \A h \in SUBSET Things : Ordered(t, Now(t), h) => Runs(t, steps, h, After(Now(t), h)),
         armed' \subseteq Items \cup {NoItem}, UNCHANGED <<holder, table, fifo, refs, exists>>
  PROVE  LockInv'
<1>1. PICK x : Fits(x)
  BY DEF LockInv
<1>2. StateOK
  BY DEF LockInv
<1> DEFINE q == steps \o Tail(todo[t])
<1>3. /\ Ordered(t, Now(t), x[t]) /\ x[t] \in SUBSET Things
      /\ \E k \in SUBSET Seens : Runs(t, Tail(todo[t]), After(Now(t), x[t]), k)
  BY <1>1, <1>2, Standing
<1>4. PICK k \in SUBSET Seens : Runs(t, Tail(todo[t]), After(Now(t), x[t]), k)
  BY <1>3
<1>5. Runs(t, q, x[t], k)
  BY <1>3, <1>4, RunsJoin
<1>6. todo' = [todo EXCEPT ![t] = q]
  BY DEF GoOn
<1> HIDE DEF q
<1>7. \E y : Fits(y)'
  BY <1>1, <1>2, <1>3, <1>5, <1>6, LessFits
<1>8. todo' \in [Threads -> Seq(StepSet)]
  BY <1>2, <1>5, <1>6 DEF StateOK, Runs
<1>9. StateOK'
  BY <1>2, <1>8 DEF StateOK
<1>10. ItemsExist' /\ Queued'
  BY DEF LockInv, ItemsExist, Queued, InTable
<1> QED BY <1>7, <1>9, <1>10 DEF LockInv

\* The step taken needs nothing after it.
LEMMA StepOnly ==
  ASSUME NEW t, NEW s, NEW h \in SUBSET Things, s.op \notin Changing
  PROVE  After(s, h) = h /\ Runs(t, <<>>, h, After(s, h))
<1>1. After(s, h) = h
  BY DEF After, Gains, Loses, Changing
<1> QED BY <1>1, RunsEmpty

LEMMA LockAndUnlockInv == ASSUME LockInv, NEW t \in Threads, LockAndUnlock(t) PROVE LockInv'
<1>1. ~Idle(t) /\ Now(t).op \notin Changing /\ GoOn(t, <<>>)
  BY DEF LockAndUnlock, Due, Changing
<1>2. armed' \subseteq Items \cup {NoItem} /\ UNCHANGED <<holder, table, fifo, refs, exists>>
  BY DEF LockAndUnlock, LockInv, StateOK, itemVars
<1> QED BY <1>1, <1>2, StepOnly, SameInv

LEMMA FinishInv == ASSUME LockInv, NEW t \in Threads, Finish(t) PROVE LockInv'
<1>1. ~Idle(t) /\ Now(t).op \notin Changing /\ GoOn(t, <<>>)
  BY DEF Finish, Due, Changing
<1>2. armed' \subseteq Items \cup {NoItem} /\ UNCHANGED <<holder, table, fifo, refs, exists>>
  BY DEF Finish, LockInv, StateOK
<1> QED BY <1>1, <1>2, StepOnly, SameInv

\* The thread's next step is in order.
LEMMA NowOrdered ==
  ASSUME LockInv, NEW t \in Threads, ~Idle(t)
  PROVE  Now(t) \in StepSet /\ \E h \in SUBSET Things : Ordered(t, Now(t), h)
  BY Standing DEF LockInv

LEMMA ChangeTimersInv == ASSUME LockInv, NEW t \in Threads, ChangeTimers(t) PROVE LockInv'
<1>1. ~Idle(t) /\ Now(t).op \notin Changing /\ GoOn(t, <<>>)
  BY DEF ChangeTimers, Due, Changing
<1>2. UNCHANGED <<holder, table, fifo, refs, exists>>
  BY DEF ChangeTimers
<1>3. Now(t) \in StepSet
  BY <1>1, NowOrdered
<1>4. armed' \subseteq Items \cup {NoItem}
  <2>1. Now(t).item \in Items \cup {NoItem} /\ armed \subseteq Items \cup {NoItem}
    BY <1>3 DEF StepSet, LockInv, StateOK
  <2> QED BY <2>1 DEF ChangeTimers
<1> QED BY <1>1, <1>2, <1>4, StepOnly, SameInv

LEMMA ExpireInv == ASSUME LockInv, NEW t \in Threads, Expire(t) PROVE LockInv'
<1>1. ~Idle(t) /\ Now(t).op = "expire" /\ Now(t).op \notin Changing
  BY DEF Expire, Due, Changing
<1>2. UNCHANGED <<holder, table, fifo, refs, exists>>
  BY DEF Expire
<1>3. armed \subseteq Items \cup {NoItem}
  BY DEF LockInv, StateOK
<1>4. CASE GoOn(t, <<>>) /\ UNCHANGED armed
  BY <1>1, <1>2, <1>3, <1>4, StepOnly, SameInv
<1>5. CASE \E i \in armed :
             /\ armed' = armed \ {i}
             /\ \E steps \in IF i = NoItem THEN {HeartbeatsTimedOut} ELSE TimeoutHandlers(i) :
                  GoOn(t, RunUnlocked(steps))
  <2>1. PICK i \in armed :
             /\ armed' = armed \ {i}
             /\ \E steps \in IF i = NoItem THEN {HeartbeatsTimedOut} ELSE TimeoutHandlers(i) :
                  GoOn(t, RunUnlocked(steps))
    BY <1>5
  <2>2. PICK steps \in IF i = NoItem THEN {HeartbeatsTimedOut} ELSE TimeoutHandlers(i) :
          GoOn(t, RunUnlocked(steps))
    BY <2>1
  <2>3. ASSUME NEW h \in SUBSET Things, Ordered(t, Now(t), h)
        PROVE  Runs(t, RunUnlocked(steps), h, After(Now(t), h))
    <3> DEFINE g == h \ {Of("timeouts")}
    <3>1. t = "work" /\ h \cap Mutexes = {Of("timeouts")} /\ After(Now(t), h) = h
      BY <1>1, <2>3, StepOnly DEF Ordered
    <3>2. g \in SUBSET Things /\ g \cap Mutexes = {}
      BY <3>1
    <3> HIDE DEF g
    <3>3. NoItemHeld(g) /\ Above(t, g, 2)
      BY <3>2, NoneAbove
    <3>4. CASE i = NoItem
      <4>1. steps = HeartbeatsTimedOut
        BY <2>2, <3>4
      <4>2. Runs(t, steps, g, g)
        BY <3>2, <4>1, TimedOutRuns
      <4> QED BY <3>1, <4>2, UnlockedRuns DEF g
    <3>5. CASE i # NoItem
      <4>1. i \in Items /\ steps \in TimeoutHandlers(i)
        BY <1>3, <2>2, <3>5
      <4>2. ItemNext(t, g, i)
        BY <3>1, <3>3 DEF ItemNext
      <4>3. Runs(t, steps, g, g)
        BY <3>2, <4>1, <4>2, HandlersRun
      <4> QED BY <3>1, <4>3, UnlockedRuns DEF g
    <3> QED BY <3>4, <3>5
  <2>4. armed' \subseteq Items \cup {NoItem}
    BY <1>3, <2>1
  <2> QED BY <1>1, <1>2, <2>2, <2>3, <2>4, SameInv
<1> QED BY <1>4, <1>5 DEF Expire

LEMMA AskStartedInv == ASSUME LockInv, NEW t \in Threads, AskStarted(t) PROVE LockInv'
<1> DEFINE i == Now(t).item
<1>1. ~Idle(t) /\ Now(t).op = "started?" /\ Now(t).op \notin Changing
  BY DEF AskStarted, Due, Changing
<1>2. armed' \subseteq Items \cup {NoItem} /\ UNCHANGED <<holder, table, fifo, refs, exists>>
  BY DEF AskStarted, LockInv, StateOK
<1>3. PICK steps \in IF i \in started THEN {<<>>} ELSE Starts(i) : GoOn(t, steps)
  BY DEF AskStarted
<1>4. ASSUME NEW h \in SUBSET Things, Ordered(t, Now(t), h)
      PROVE  Runs(t, steps, h, After(Now(t), h))
  <2>1. After(Now(t), h) = h /\ Runs(t, <<>>, h, After(Now(t), h))
    BY <1>1, StepOnly
  <2>2. i \in Items /\ NoItemHeld(h) /\ Ref(i) \in h
    BY <1>1, <1>4 DEF Ordered, OfItems
  <2>3. Mutex(Now(t)) = ItemMutex(i)
    BY <1>1 DEF Mutex, ItemMutex
  <2>4. Above(t, h, 2)
    BY <1>1, <1>4, <2>2, <2>3, MutexesNamed DEF Ordered, Takes
  <2>5. CASE i \in started
    BY <1>3, <2>1, <2>5
  <2>6. CASE i \notin started
    <3>1. steps \in Starts(i)
      BY <1>3, <2>6
    <3> HIDE DEF i
    <3>2. Runs(t, steps, h, h)
      BY <2>2, <2>4, <3>1, StartsRun
    <3> QED BY <2>1, <3>2
  <2> QED BY <2>5, <2>6
<1> QED BY <1>1, <1>2, <1>3, <1>4, SameInv

LEMMA HandleInv == ASSUME LockInv, NEW t \in Threads, Handle(t) PROVE LockInv'
<1> DEFINE i == Now(t).item
<1>1. ~Idle(t) /\ Now(t).op = "handle" /\ Now(t).op \notin Changing
  BY DEF Handle, Due, Changing
<1>2. armed' \subseteq Items \cup {NoItem} /\ UNCHANGED <<holder, table, fifo, refs, exists>>
  BY DEF Handle, LockInv, StateOK, itemVars
<1>3. PICK finish \in BOOLEAN : GoOn(t, Handles(i, finish))
  BY DEF Handle
<1>4. ASSUME NEW h \in SUBSET Things, Ordered(t, Now(t), h)
      PROVE  Runs(t, Handles(i, finish), h, After(Now(t), h))
  <2>1. After(Now(t), h) = h
    BY <1>1, StepOnly
  <2>2. i \in Items /\ NoItemHeld(h) /\ Keeps(h, i) /\ t = "receive"
    BY <1>1, <1>4 DEF Ordered, OfItems
  <2>3. ItemNext(t, h, i)
    BY <2>2 DEF ItemNext, Above
  <2> HIDE DEF i
  <2>4. Runs(t, Handles(i, finish), h, h)
    BY <2>2, <2>3, HandlersRun
  <2> QED BY <2>1, <2>4
<1> QED BY <1>1, <1>2, <1>3, <1>4, SameInv

\* set_connected() goes on after the unlock that is due next.
LEMMA ConnectRuns ==
  ASSUME NEW seq, NEW h, NEW k \in SUBSET Seens, Runs("receive", seq, h, k), seq # <<>>,
         Head(seq).op = "connect"
  PROVE  Runs("receive", Notify \o AddTimeout(NoItem) \o <<seq[2]>> \o EnableAll
                         \o SubSeq(seq, 3, Len(seq)), h, k)
<1> DEFINE t == "receive"
           rest == Tail(seq)
           s == Head(rest)
           g == After(s, h)
<1>1. /\ Ordered(t, Head(seq), h) /\ h \in SUBSET Things /\ seq \in Seq(StepSet)
      /\ Runs(t, rest, After(Head(seq), h), k)
  <2>1. seq \in Seq(StepSet)
    BY DEF Runs
  <2> QED BY <2>1, RunsTail
<1>2. After(Head(seq), h) = h /\ Of("link") \in h
  BY <1>1 DEF Ordered, After, Gains, Loses
<1>3. rest # <<>>
  <2>1. Of("link") \notin k
    BY DEF Seens, Seen, Of
  <2>2. Runs(t, rest, h, k)
    BY <1>1, <1>2
  <2> HIDE DEF rest
  <2> QED BY <1>2, <2>1, <2>2, NothingLeft
<1>4. s \in StepSet /\ Ordered(t, s, h) /\ g \in SUBSET Things /\ Runs(t, Tail(rest), g, k)
  <2>1. Runs(t, rest, h, k)
    BY <1>1, <1>2
  <2> HIDE DEF rest
  <2> QED BY <1>3, <2>1, RunsTail
<1>5. s = seq[2] /\ Tail(rest) = SubSeq(seq, 3, Len(seq))
  BY <1>1, <1>3
<1> HIDE DEF rest, s, g
<1>6. Runs(t, <<s>>, h, g)
  BY <1>1, <1>4, RunsOne DEF g
<1>7. {"news", "plugins"} \subseteq MutexNames /\ Above(t, h, 3)
  BY ReceiveAbove DEF MutexNames
<1>8. Runs(t, Notify, h, h) /\ Runs(t, AddTimeout(NoItem), h, h)
  <2>1. Above(t, h, Rank(Of("news")))
    BY ReceiveAbove
  <2> QED BY <1>1, <1>7, <2>1, PassRuns, TimersRun DEF Notify
<1>9. Runs(t, EnableAll, g, g)
  <2>1. Above(t, g, Rank(Of("plugins")))
    BY ReceiveAbove
  <2> QED BY <1>4, <1>7, <2>1, PassRuns DEF EnableAll
<1> HIDE DEF t
<1>10. Runs(t, Notify \o AddTimeout(NoItem), h, h)
  BY <1>8, RunsJoin
<1>11. Runs(t, (Notify \o AddTimeout(NoItem)) \o <<s>>, h, g)
  BY <1>6, <1>10, RunsJoin
<1>12. Runs(t, ((Notify \o AddTimeout(NoItem)) \o <<s>>) \o EnableAll, h, g)
  BY <1>9, <1>11, RunsJoin
<1>13. Runs(t, (((Notify \o AddTimeout(NoItem)) \o <<s>>) \o EnableAll) \o Tail(rest), h, k)
  BY <1>4, <1>12, RunsJoin
<1> QED BY <1>5, <1>13 DEF t

LEMMA ConnectInv == ASSUME LockInv, NEW t \in Threads, Connect(t) PROVE LockInv'
<1>1. /\ ~Idle(t) /\ armed' \subseteq Items \cup {NoItem}
      /\ UNCHANGED <<holder, table, fifo, refs, exists>>
  BY DEF Connect, Due, LockInv, StateOK, itemVars
<1>2. CASE /\ Due(t, "connect")
           /\ todo' = [todo EXCEPT ![t] = Notify \o AddTimeout(NoItem) \o <<@[2]>> \o EnableAll
                                            \o SubSeq(@, 3, Len(@))]
  <2>1. PICK x : Fits(x)
    BY DEF LockInv
  <2>2. StateOK
    BY DEF LockInv
  <2>3. PICK k \in SUBSET Seens : Runs(t, todo[t], x[t], k)
    BY <2>1 DEF Fits, GoesOn
  <2>4. todo[t] # <<>> /\ Head(todo[t]).op = "connect"
    BY <1>1, <1>2 DEF Idle, Due, Now
  <2>5. x[t] \in SUBSET Things /\ t = "receive"
    <3>1. x[t] \in SUBSET Things /\ Ordered(t, Now(t), x[t])
      BY <1>1, <2>1, <2>2, Standing
    <3> QED BY <2>4, <3>1 DEF Ordered, Now
  <2> DEFINE q == Notify \o AddTimeout(NoItem) \o <<todo[t][2]>> \o EnableAll
                  \o SubSeq(todo[t], 3, Len(todo[t]))
  <2>6. Runs(t, q, x[t], k)
    BY <2>3, <2>4, <2>5, ConnectRuns
  <2>7. todo' = [todo EXCEPT ![t] = q]
    BY <1>2
  <2> HIDE DEF q
  <2>8. \E y : Fits(y)'
    BY <1>1, <2>1, <2>2, <2>5, <2>6, <2>7, LessFits
  <2>9. todo' \in [Threads -> Seq(StepSet)]
    BY <2>2, <2>6, <2>7 DEF StateOK, Runs
  <2>10. StateOK' /\ ItemsExist' /\ Queued'
    BY <1>1, <2>2, <2>9 DEF LockInv, StateOK, ItemsExist, Queued, InTable
  <2> QED BY <2>8, <2>10 DEF LockInv
<1>3. CASE Due(t, "connect") /\ GoOn(t, RefreshTimeout)
  <2>1. Now(t).op = "connect" /\ Now(t).op \notin Changing
    BY <1>3 DEF Due, Changing
  <2>2. ASSUME NEW h \in SUBSET Things, Ordered(t, Now(t), h)
        PROVE  Runs(t, RefreshTimeout, h, After(Now(t), h))
    <3>1. After(Now(t), h) = h
      BY <2>1, StepOnly
    <3>2. Above(t, h, 3)
      BY <2>1, <2>2 DEF Ordered, Above
    <3> QED BY <3>1, <3>2, TimersRun
  <2> QED BY <1>1, <1>3, <2>2, SameInv
<1>4. CASE Due(t, "disconnect") /\ GoOn(t, <<>>)
  <2>1. Now(t).op \notin Changing
    BY <1>4 DEF Due, Changing
  <2> QED BY <1>1, <1>4, <2>1, StepOnly, SameInv
<1> QED BY <1>2, <1>3, <1>4 DEF Connect
-----------------------------------------------------------------------------
(***************************************************************************)
(* Mutexes taken and released.                                             *)
(***************************************************************************)
LEMMA RightsFit ==
  ASSUME NEW x, Fits(x), NEW y, \A u \in Threads, r \in Rights : r \in y[u] <=> r \in x[u],
         UNCHANGED <<table, fifo, refs, exists>>
  PROVE  RefsHeld(y)' /\ PushesLeft(y)' /\ Destroyed(y)' /\ FrontHeld(y)'
<1>1. /\ \A u \in Threads, i \in Items : Ref(i) \in y[u] <=> Ref(i) \in x[u]
      /\ \A u \in Threads, i \in Items : Unpushed(i) \in y[u] <=> Unpushed(i) \in x[u]
      /\ \A u \in Threads, i \in Items : Dying(i) \in y[u] <=> Dying(i) \in x[u]
      /\ \A u \in Threads, i \in Items : Gone(i) \in y[u] <=> Gone(i) \in x[u]
      /\ \A u \in Threads, i \in Items : AtFront(i) \in y[u] <=> AtFront(i) \in x[u]
      /\ \A u \in Threads : Look \in y[u] <=> Look \in x[u]
  BY RightsApart
<1>2. \A i : InTable(i)' <=> InTable(i)
  BY DEF InTable
<1>3. RefsHeld(y)' /\ PushesLeft(y)'
  BY <1>1 DEF Fits, RefsHeld, PushesLeft
<1>4. Destroyed(y)'
  BY <1>1, <1>2 DEF Fits, Destroyed
<1>5. FrontHeld(y)'
  BY <1>1 DEF Fits, FrontHeld
<1> QED BY <1>3, <1>4, <1>5

\* What a step without a sequel leaves of GoesOn, and of the state's types.
LEMMA StepGoesOn ==
  ASSUME NEW x, StateOK, Fits(x), NEW t \in Threads, ~Idle(t), GoOn(t, <<>>),
         NEW h, h = After(Now(t), x[t]), NEW y, y = [x EXCEPT ![t] = h]
  PROVE  /\ GoesOn(y)' /\ h \in SUBSET Things
         /\ todo' \in [Threads -> Seq(StepSet)] /\ y \in [Threads -> SUBSET Things]
<1>1. h \in SUBSET Things /\ \E k \in SUBSET Seens : Runs(t, Tail(todo[t]), h, k)
  BY Standing
<1>2. PICK k \in SUBSET Seens : Runs(t, Tail(todo[t]), h, k)
  BY <1>1
<1>3. <<>> \o Tail(todo[t]) = Tail(todo[t])
  <2>1. Tail(todo[t]) \in Seq(StepSet)
    BY <1>2 DEF Runs
  <2> QED BY <2>1
<1> DEFINE q == Tail(todo[t])
<1>4. todo' = [todo EXCEPT ![t] = q]
  BY <1>3 DEF GoOn
<1>5. x \in [Threads -> SUBSET Things] /\ GoesOn(x) /\ Runs(t, q, h, k)
  BY <1>2 DEF Fits
<1> HIDE DEF q
<1>6. /\ GoesOn([x EXCEPT ![t] = h])'
      /\ todo' \in [Threads -> Seq(StepSet)] /\ [x EXCEPT ![t] = h] \in [Threads -> SUBSET Things]
  BY <1>1, <1>4, <1>5, GoesOnWith
<1>7. GoesOn(y)'
  BY <1>6 DEF GoesOn
<1> QED BY <1>1, <1>6, <1>7

LEMMA LockStepInv == ASSUME LockInv, NEW t \in Threads, Lock(t) PROVE LockInv'
<1>1. PICK x : Fits(x)
  BY DEF LockInv
<1>2. StateOK
  BY DEF LockInv
<1>0. PICK s, m, h, y : /\ s = Now(t) /\ m = Mutex(s) /\ h = After(s, x[t])
                        /\ y = [x EXCEPT ![t] = h]
  OBVIOUS
<1>3. ~Idle(t) /\ s.op = "lock" /\ GoOn(t, <<>>) /\ holder[m] = Nobody
      /\ holder' = [holder EXCEPT ![m] = t] /\ UNCHANGED <<table, armed, fifo, refs, exists>>
  BY <1>0 DEF Lock, Due, MayTake, itemVars
<1>4. Ordered(t, s, x[t]) /\ x \in [Threads -> SUBSET Things]
  BY <1>0, <1>1, <1>2, <1>3, Standing DEF Fits
<1>5. GoesOn(y)' /\ todo' \in [Threads -> Seq(StepSet)] /\ y \in [Threads -> SUBSET Things]
  <2>1. h = After(Now(t), x[t]) /\ y = [x EXCEPT ![t] = h] /\ ~Idle(t) /\ GoOn(t, <<>>)
    BY <1>0, <1>3
  <2>2. y \in [Threads -> SUBSET Things]
    <3>1. h \in SUBSET Things
      BY <1>1, <1>2, <2>1, Standing
    <3> QED BY <1>4, <2>1, <3>1
  <2>3. todo' \in [Threads -> Seq(StepSet)]
    BY <1>1, <1>2, <2>1, StepGoesOn
  <2>4. GoesOn(y)'
    BY <1>1, <1>2, <2>1, StepGoesOn
  <2> QED BY <2>2, <2>3, <2>4
<1>6. y[t] = x[t] \cup {m} /\ \A u \in Threads \ {t} : y[u] = x[u]
  BY <1>0, <1>3, <1>4 DEF After, Gains, Loses
<1>7. m \in Mutexes /\ m = <<s.on, s.item>>
  BY <1>0, <1>3, <1>4 DEF Ordered, Takes, Mutex
<1>8. MutexesHeld(y)'
  <2>1. \A u \in Threads : u # Nobody
    BY DEF Threads, Nobody
  <2>2. holder'[m] = t /\ \A n \in Mutexes \ {m} : holder'[n] = holder[n]
    BY <1>2, <1>3, <1>7 DEF StateOK
  <2>3. MutexesHeld(x)
    BY <1>1 DEF Fits
  <2>4. ASSUME NEW u \in Threads, NEW n \in Mutexes PROVE n \in y[u] <=> holder'[n] = u
    <3>1. CASE n = m
      BY <1>3, <1>6, <1>7, <2>1, <2>2, <2>3, <3>1 DEF MutexesHeld
    <3>2. CASE n # m
      BY <1>6, <2>2, <2>3, <3>2 DEF MutexesHeld
    <3> QED BY <3>1, <3>2
  <2> QED BY <2>4 DEF MutexesHeld
<1>9. RefsHeld(y)' /\ PushesLeft(y)' /\ Destroyed(y)' /\ FrontHeld(y)'
  <2>1. \A u \in Threads, r \in Rights : r \in y[u] <=> r \in x[u]
    BY <1>6, <1>7, RightsApart
  <2> QED BY <1>1, <1>3, <2>1, RightsFit
<1>10. TableSeen(y)'
  <2>1. \A u \in Threads, i \in Items : Seen(i) \in y[u] <=> Seen(i) \in x[u]
    BY <1>6, <1>7, RightsApart
  <2>2. \A u \in Threads : Turn \in y[u] <=> Turn \in x[u]
    BY <1>6, <1>7, RightsApart
  <2>3. m = Of("table") => Turn \in x[t]
    BY <1>3, <1>4, <1>7 DEF Ordered, Of
  <2>4. \A i : InTable(i)' <=> InTable(i)
    BY <1>3 DEF InTable
  <2>5. TableSeen(x)
    BY <1>1 DEF Fits
  <2> QED BY <1>6, <2>1, <2>2, <2>3, <2>4, <2>5 DEF TableSeen
<1>11. ItemsKept(y)'
  <2>1. \A u \in Threads : x[u] \subseteq y[u]
    BY <1>6
  <2>2. \A u \in Threads, i \in Items : Keeps(x[u], i) => Keeps(y[u], i)
    BY <2>1 DEF Keeps
  <2>3. ASSUME NEW i \in Items, m = ItemMutex(i), t # "work" PROVE Keeps(x[t], i)
    BY <1>3, <1>4, <1>7, <2>3 DEF Ordered, ItemMutex
  <2>4. ItemsKept(x)
    BY <1>1 DEF Fits
  <2> QED BY <1>6, <2>2, <2>3, <2>4 DEF ItemsKept
<1>12. StateOK'
  BY <1>2, <1>3, <1>5, <1>7 DEF StateOK
<1>13. ItemsExist' /\ Queued'
  BY <1>3 DEF LockInv, ItemsExist, Queued, InTable
<1> QED BY <1>5, <1>8, <1>9, <1>10, <1>11, <1>12, <1>13 DEF LockInv, Fits

LEMMA UnlockInv == ASSUME LockInv, NEW t \in Threads, Unlock(t) PROVE LockInv'
<1>1. PICK x : Fits(x)
  BY DEF LockInv
<1>2. StateOK
  BY DEF LockInv
<1>0. PICK s, m, h, y : /\ s = Now(t) /\ m = Mutex(s) /\ h = After(s, x[t])
                        /\ y = [x EXCEPT ![t] = h]
  OBVIOUS
<1>3. ~Idle(t) /\ s.op = "unlock" /\ GoOn(t, <<>>)
      /\ holder' = [holder EXCEPT ![m] = Nobody] /\ UNCHANGED <<table, armed, fifo, refs, exists>>
  BY <1>0 DEF Unlock, Due, itemVars
<1>4. Ordered(t, s, x[t]) /\ x \in [Threads -> SUBSET Things]
  BY <1>0, <1>1, <1>2, <1>3, Standing DEF Fits
<1>5. GoesOn(y)' /\ todo' \in [Threads -> Seq(StepSet)] /\ y \in [Threads -> SUBSET Things]
  <2>1. h = After(Now(t), x[t]) /\ y = [x EXCEPT ![t] = h] /\ ~Idle(t) /\ GoOn(t, <<>>)
    BY <1>0, <1>3
  <2>2. y \in [Threads -> SUBSET Things]
    <3>1. h \in SUBSET Things
      BY <1>1, <1>2, <2>1, Standing
    <3> QED BY <1>4, <2>1, <3>1
  <2>3. todo' \in [Threads -> Seq(StepSet)]
    BY <1>1, <1>2, <2>1, StepGoesOn
  <2>4. GoesOn(y)'
    BY <1>1, <1>2, <2>1, StepGoesOn
  <2> QED BY <2>2, <2>3, <2>4
<1>6. y[t] = x[t] \ {m} /\ \A u \in Threads \ {t} : y[u] = x[u]
  BY <1>0, <1>3, <1>4 DEF After, Gains, Loses
<1>7. m \in Mutexes /\ m = <<s.on, s.item>> /\ m \in x[t]
  BY <1>0, <1>3, <1>4 DEF Ordered, Takes, Mutex
<1>8. MutexesHeld(y)'
  <2>1. \A u \in Threads : u # Nobody
    BY DEF Threads, Nobody
  <2>2. holder'[m] = Nobody /\ \A n \in Mutexes \ {m} : holder'[n] = holder[n]
    BY <1>2, <1>3, <1>7 DEF StateOK
  <2>3. MutexesHeld(x)
    BY <1>1 DEF Fits
  <2>4. ASSUME NEW u \in Threads, NEW n \in Mutexes PROVE n \in y[u] <=> holder'[n] = u
    <3>1. CASE n = m
      BY <1>3, <1>6, <1>7, <2>1, <2>2, <2>3, <3>1 DEF MutexesHeld
    <3>2. CASE n # m
      BY <1>6, <2>2, <2>3, <3>2 DEF MutexesHeld
    <3> QED BY <3>1, <3>2
  <2> QED BY <2>4 DEF MutexesHeld
<1>9. RefsHeld(y)' /\ PushesLeft(y)' /\ Destroyed(y)' /\ FrontHeld(y)'
  <2>1. \A u \in Threads, r \in Rights : r \in y[u] <=> r \in x[u]
    BY <1>6, <1>7, RightsApart
  <2> QED BY <1>1, <1>3, <2>1, RightsFit
<1>10. TableSeen(y)'
  <2>1. \A u \in Threads : y[u] \subseteq x[u]
    BY <1>6
  <2>2. \A i : InTable(i)' <=> InTable(i)
    BY <1>3 DEF InTable
  <2>3. TableSeen(x)
    BY <1>1 DEF Fits
  <2> QED BY <2>1, <2>2, <2>3 DEF TableSeen
<1>11. ItemsKept(y)'
  <2>1. \A u \in Threads, r \in Rights : r \in y[u] <=> r \in x[u]
    BY <1>6, <1>7, RightsApart
  <2>2. ItemsKept(x)
    BY <1>1 DEF Fits
  <2>3. ASSUME NEW i \in Items, t # "work", ItemMutex(i) \in y[t] PROVE Keeps(y[t], i)
    <3>1. ItemMutex(i) \in x[t] /\ Keeps(x[t], i)
      BY <1>6, <2>2, <2>3 DEF ItemsKept
    <3>2. m # Of("table")
      <4>1. ASSUME m = Of("table") PROVE ItemMutex(i) \in Receiving
        BY <1>3, <1>4, <1>7, <3>1, <4>1, MutexesNamed DEF Ordered, Of
      <4> QED BY <4>1, ReceivingMutexes DEF NoItemHeld
    <3>3. Of("table") \in x[t] => Of("table") \in y[t]
      BY <1>6, <3>2
    <3> QED BY <2>1, <3>1, <3>3, RightsApart DEF Keeps
  <2> QED BY <1>6, <2>2, <2>3 DEF ItemsKept
<1>12. StateOK'
  BY <1>2, <1>3, <1>5, <1>7 DEF StateOK
<1>13. ItemsExist' /\ Queued'
  BY <1>3 DEF LockInv, ItemsExist, Queued, InTable
<1> QED BY <1>5, <1>8, <1>9, <1>10, <1>11, <1>12, <1>13 DEF LockInv, Fits
-----------------------------------------------------------------------------
(***************************************************************************)
(* The table of handlers.                                                  *)
(***************************************************************************)
LEMMA RegisterInv ==
  ASSUME LockInv, NEW t \in Threads, ChangeTable(t), Due(t, "register")
  PROVE  LockInv'
<1>1. PICK x : Fits(x)
  BY DEF LockInv
<1>2. StateOK /\ ItemsExist /\ Queued
  BY DEF LockInv
<1>3. PICK s, i : s = Now(t) /\ i = s.item
  OBVIOUS
<1>4. /\ ~Idle(t) /\ s.op = "register" /\ GoOn(t, <<>>) /\ table' = table \cup {<<s.on, i>>}
      /\ UNCHANGED <<holder, armed, fifo, refs, exists>>
  BY <1>3 DEF ChangeTable, Due
<1>5. Ordered(t, s, x[t]) /\ x \in [Threads -> SUBSET Things] /\ After(s, x[t]) = x[t]
  <2>1. Ordered(t, s, x[t]) /\ x \in [Threads -> SUBSET Things]
    BY <1>1, <1>2, <1>3, <1>4, Standing DEF Fits
  <2> QED BY <1>4, <2>1, StepOnly DEF Changing
<1>6. GoesOn(x)' /\ todo' \in [Threads -> Seq(StepSet)]
  <2>1. PICK h : h = After(Now(t), x[t])
    OBVIOUS
  <2>2. x = [x EXCEPT ![t] = h]
    BY <1>3, <1>5, <2>1
  <2> QED BY <1>1, <1>2, <1>4, <2>1, <2>2, StepGoesOn
<1>7. i \in Items /\ refs[i] # {} /\ i \in exists
  <2>1. i \in Items /\ Ref(i) \in x[t]
    BY <1>3, <1>4, <1>5 DEF Ordered, OfItems
  <2>2. t \in refs[i]
    BY <1>1, <2>1 DEF Fits, RefsHeld
  <2> QED BY <1>2, <2>1, <2>2 DEF ItemsExist
<1>8. \A j : InTable(j)' <=> InTable(j) \/ j = i
  <2>1. PICK p : p = <<s.on, i>> /\ p[2] = i
    <3>1. <<s.on, i>>[2] = i
      OBVIOUS
    <3> QED BY <3>1
  <2>2. table' = table \cup {p}
    BY <1>4, <2>1
  <2>3. \A j : InTable(j)' <=> \E e \in table \cup {p} : e[2] = j
    BY <2>2 DEF InTable
  <2> QED BY <2>1, <2>3 DEF InTable
<1>9. MutexesHeld(x)' /\ RefsHeld(x)' /\ PushesLeft(x)' /\ FrontHeld(x)' /\ ItemsKept(x)'
  BY <1>1, <1>4 DEF Fits, MutexesHeld, RefsHeld, PushesLeft, FrontHeld, ItemsKept
<1>10. Destroyed(x)'
  BY <1>1, <1>4, <1>7, <1>8 DEF Fits, Destroyed
<1>11. TableSeen(x)'
  BY <1>1, <1>8 DEF Fits, TableSeen
<1>12. StateOK' /\ ItemsExist' /\ Queued'
  BY <1>2, <1>4, <1>6, <1>7, <1>8 DEF StateOK, ItemsExist, Queued
<1> QED BY <1>5, <1>6, <1>9, <1>10, <1>11, <1>12 DEF LockInv, Fits

LEMMA UnregisterInv ==
  ASSUME LockInv, NEW t \in Threads, ChangeTable(t), Due(t, "unregister")
  PROVE  LockInv'
<1>1. PICK x : Fits(x)
  BY DEF LockInv
<1>2. StateOK /\ ItemsExist /\ Queued
  BY DEF LockInv
<1>3. PICK s, i, h, y : /\ s = Now(t) /\ i = s.item /\ h = After(s, x[t])
                        /\ y = [x EXCEPT ![t] = h]
  OBVIOUS
<1>4. /\ ~Idle(t) /\ s.op = "unregister" /\ GoOn(t, <<>>) /\ table' = {e \in table : e[2] # i}
      /\ holder[Mutex(s)] = Nobody
      /\ UNCHANGED <<holder, armed, fifo, refs, exists>>
  BY <1>3 DEF ChangeTable, Due, MayTake
<1>5. Ordered(t, s, x[t]) /\ x \in [Threads -> SUBSET Things]
  BY <1>1, <1>2, <1>3, <1>4, Standing DEF Fits
<1>6. GoesOn(y)' /\ todo' \in [Threads -> Seq(StepSet)] /\ y \in [Threads -> SUBSET Things]
  <2>1. h = After(Now(t), x[t]) /\ y = [x EXCEPT ![t] = h] /\ ~Idle(t) /\ GoOn(t, <<>>)
    BY <1>3, <1>4
  <2>2. GoesOn(y)' /\ todo' \in [Threads -> Seq(StepSet)]
    BY <1>1, <1>2, <2>1, StepGoesOn
  <2>3. h \in SUBSET Things
    BY <1>1, <1>2, <2>1, Standing
  <2> QED BY <1>5, <2>1, <2>2, <2>3
<1>7. i \in Items /\ Dying(i) \in x[t]
  BY <1>3, <1>4, <1>5 DEF Ordered, OfItems
<1>8. y[t] = (x[t] \ {Dying(i)}) \cup {Gone(i)} /\ \A u \in Threads \ {t} : y[u] = x[u]
  BY <1>3, <1>4, <1>5 DEF After, Gains, Loses
<1>9. /\ \A u \in Threads, j \in Items : Ref(j) \in y[u] <=> Ref(j) \in x[u]
      /\ \A u \in Threads, j \in Items : Unpushed(j) \in y[u] <=> Unpushed(j) \in x[u]
      /\ \A u \in Threads, j \in Items : AtFront(j) \in y[u] <=> AtFront(j) \in x[u]
      /\ \A u \in Threads, j \in Items : Seen(j) \in y[u] <=> Seen(j) \in x[u]
      /\ \A u \in Threads : Look \in y[u] <=> Look \in x[u]
      /\ \A u \in Threads : Turn \in y[u] <=> Turn \in x[u]
  <2>1. \A r : r \notin {Dying(i), Gone(i)} => \A u \in Threads : r \in y[u] <=> r \in x[u]
    BY <1>8
  <2>2. /\ \A j \in Items : {Ref(j), Unpushed(j), AtFront(j), Seen(j)} \cap {Dying(i), Gone(i)} = {}
        /\ {Look, Turn} \cap {Dying(i), Gone(i)} = {}
    BY <1>7, Apart
  <2> QED BY <2>1, <2>2
<1>10. /\ \A u \in Threads, j \in Items : Dying(j) \in y[u] <=> Dying(j) \in x[u] /\ ~(u = t /\ j = i)
       /\ \A u \in Threads, j \in Items : Gone(j) \in y[u] <=> Gone(j) \in x[u] \/ (u = t /\ j = i)
  BY <1>7, <1>8, Apart
<1>11. \A u \in Threads, m \in Mutexes : m \in y[u] <=> m \in x[u]
  BY <1>7, <1>8, RightsApart
<1>12. \A j : InTable(j)' <=> InTable(j) /\ j # i
  <2>1. \A j : InTable(j)' <=> \E e \in {e \in table : e[2] # i} : e[2] = j
    BY <1>4 DEF InTable
  <2> QED BY <2>1 DEF InTable
<1>13. MutexesHeld(y)' /\ RefsHeld(y)' /\ PushesLeft(y)' /\ FrontHeld(y)'
  BY <1>1, <1>4, <1>9, <1>11 DEF Fits, MutexesHeld, RefsHeld, PushesLeft, FrontHeld
<1>14. Destroyed(y)'
  BY <1>1, <1>4, <1>7, <1>10, <1>12 DEF Fits, Destroyed
<1>15. TableSeen(y)'
  <2>1. Mutex(s) = Of("table") /\ Of("table") \in Mutexes
    BY <1>4, MutexesNamed DEF Mutex, Of, MutexNames
  <2>2. \A u \in Threads : Of("table") \notin x[u]
    BY <1>1, <1>4, <2>1 DEF Fits, MutexesHeld, Threads, Nobody
  <2> QED BY <1>1, <1>9, <1>11, <2>1, <2>2 DEF Fits, TableSeen
<1>16. ItemsKept(y)'
  <2>1. Of("table") \in Mutexes /\ \A j \in Items : ItemMutex(j) \in Mutexes
    BY MutexesNamed DEF MutexNames
  <2>2. \A u \in Threads, j \in Items : Keeps(x[u], j) => Keeps(y[u], j)
    BY <1>9, <1>10, <1>11, <2>1 DEF Keeps
  <2> QED BY <1>1, <1>11, <2>1, <2>2 DEF Fits, ItemsKept
<1>17. StateOK' /\ ItemsExist' /\ Queued'
  BY <1>2, <1>4, <1>6, <1>12 DEF StateOK, ItemsExist, Queued
<1> QED BY <1>6, <1>13, <1>14, <1>15, <1>16, <1>17 DEF LockInv, Fits

LEMMA ChangeTableInv == ASSUME LockInv, NEW t \in Threads, ChangeTable(t) PROVE LockInv'
<1>1. Due(t, "register") \/ Due(t, "unregister")
  BY DEF ChangeTable
<1> QED BY <1>1, RegisterInv, UnregisterInv
-----------------------------------------------------------------------------
(***************************************************************************)
(* The queue of items.                                                     *)
(***************************************************************************)
\* The thread takes its step and goes on with more.
LEMMA SequelGoesOn ==
  ASSUME NEW x, StateOK, Fits(x), NEW t \in Threads, ~Idle(t), NEW steps, GoOn(t, steps),
         NEW h \in SUBSET Things, Runs(t, steps, h, After(Now(t), x[t])),
         NEW y, y = [x EXCEPT ![t] = h]
  PROVE  GoesOn(y)' /\ todo' \in [Threads -> Seq(StepSet)]
<1>1. PICK k \in SUBSET Seens : Runs(t, Tail(todo[t]), After(Now(t), x[t]), k)
  BY Standing
<1> DEFINE q == steps \o Tail(todo[t])
<1>2. Runs(t, q, h, k)
  BY <1>1, RunsJoin
<1>3. todo' = [todo EXCEPT ![t] = q]
  BY DEF GoOn
<1>4. x \in [Threads -> SUBSET Things] /\ GoesOn(x)
  BY DEF Fits
<1> HIDE DEF q
<1>5. GoesOn([x EXCEPT ![t] = h])' /\ todo' \in [Threads -> Seq(StepSet)]
  BY <1>2, <1>3, <1>4, GoesOnWith
<1>6. GoesOn(y)'
  BY <1>5 DEF GoesOn
<1> QED BY <1>5, <1>6

Haves == [Threads -> SUBSET Things]

\* The same for a step without a sequel.
LEMMA StepTaken ==
  ASSUME NEW x, StateOK, Fits(x), NEW t \in Threads, ~Idle(t), GoOn(t, <<>>),
         NEW h, h = After(Now(t), x[t]), NEW y, y = [x EXCEPT ![t] = h]
  PROVE  /\ GoesOn(y)' /\ todo' \in [Threads -> Seq(StepSet)] /\ y \in Haves
         /\ y[t] = h /\ \A u \in Threads \ {t} : y[u] = x[u]
<1>1. x \in [Threads -> SUBSET Things]
  BY DEF Fits
<1>2. GoesOn(y)' /\ todo' \in [Threads -> Seq(StepSet)]
  BY StepGoesOn
<1>3. h \in SUBSET Things
  BY Standing
<1>4. y \in [Threads -> SUBSET Things] /\ y[t] = h /\ \A u \in Threads \ {t} : y[u] = x[u]
  BY <1>1, <1>3
<1> QED BY <1>2, <1>4 DEF Haves

LEMMA PushInv == ASSUME LockInv, NEW t \in Threads, Push(t) PROVE LockInv'
<1>1. PICK x : Fits(x)
  BY DEF LockInv
<1>2. StateOK /\ ItemsExist /\ Queued
  BY DEF LockInv
<1>3. PICK s, i, h, y : /\ s = Now(t) /\ i = s.item /\ h = After(s, x[t])
                        /\ y = [x EXCEPT ![t] = h]
  OBVIOUS
<1>4. /\ ~Idle(t) /\ s.op = "push" /\ GoOn(t, <<>>)
      /\ fifo' = Append(fifo, i) /\ refs' = [refs EXCEPT ![i] = @ \cup {"queue"}]
      /\ UNCHANGED <<holder, table, armed, exists>>
  BY <1>3 DEF Push, Due
<1>5. Ordered(t, s, x[t]) /\ x \in [Threads -> SUBSET Things]
  BY <1>1, <1>2, <1>3, <1>4, Standing DEF Fits
<1>6. /\ GoesOn(y)' /\ todo' \in [Threads -> Seq(StepSet)] /\ y \in Haves
      /\ y[t] = h /\ \A u \in Threads \ {t} : y[u] = x[u]
  <2>1. h = After(Now(t), x[t]) /\ y = [x EXCEPT ![t] = h] /\ ~Idle(t) /\ GoOn(t, <<>>)
    BY <1>3, <1>4
  <2>2. GoesOn(y)' /\ todo' \in [Threads -> Seq(StepSet)]
    BY <1>1, <1>2, <2>1, StepTaken
  <2>3. y \in Haves
    BY <1>1, <1>2, <2>1, StepTaken
  <2>4. y[t] = h /\ \A u \in Threads \ {t} : y[u] = x[u]
    BY <1>5, <2>1
  <2> QED BY <2>2, <2>3, <2>4
<1>7. i \in Items /\ Unpushed(i) \in x[t] /\ Ref(i) \in x[t]
  BY <1>3, <1>4, <1>5 DEF Ordered, OfItems
<1>8. y[t] = x[t] \ {Unpushed(i)}
  BY <1>3, <1>4, <1>6 DEF After, Gains, Loses
<1>9. /\ \A u \in Threads, m \in Mutexes : m \in y[u] <=> m \in x[u]
      /\ \A r : r # Unpushed(i) => \A u \in Threads : r \in y[u] <=> r \in x[u]
  <2>1. \A r : r # Unpushed(i) => \A u \in Threads : r \in y[u] <=> r \in x[u]
    BY <1>6, <1>8
  <2>2. \A m \in Mutexes : m # Unpushed(i)
    BY <1>7, RightsApart
  <2> QED BY <2>1, <2>2
<1>10. /\ \A u \in Threads, j \in Items : Ref(j) \in y[u] <=> Ref(j) \in x[u]
       /\ \A u \in Threads, j \in Items : Dying(j) \in y[u] <=> Dying(j) \in x[u]
       /\ \A u \in Threads, j \in Items : Gone(j) \in y[u] <=> Gone(j) \in x[u]
       /\ \A u \in Threads, j \in Items : AtFront(j) \in y[u] <=> AtFront(j) \in x[u]
       /\ \A u \in Threads, j \in Items : Seen(j) \in y[u] <=> Seen(j) \in x[u]
       /\ \A u \in Threads : Look \in y[u] <=> Look \in x[u]
       /\ \A u \in Threads : Turn \in y[u] <=> Turn \in x[u]
  <2>1. \A j \in Items : Unpushed(i) \notin {Ref(j), Dying(j), Gone(j), AtFront(j), Seen(j)}
    BY <1>7, Apart
  <2>2. Unpushed(i) \notin {Look, Turn}
    BY <1>7, Apart
  <2> QED BY <1>9, <2>1, <2>2
<1>11. /\ refs[i] # {} /\ "queue" \notin refs[i] /\ t \in refs[i]
       /\ \A u \in Threads : Unpushed(i) \notin y[u]
       /\ \A u \in Threads, j \in Items : Unpushed(j) \in y[u] => Unpushed(j) \in x[u] /\ j # i
  <2>1. "queue" \notin refs[i] /\ \A u \in Threads : Unpushed(i) \in x[u] => u = t
    BY <1>1, <1>7 DEF Fits, PushesLeft
  <2>2. t \in refs[i]
    BY <1>1, <1>7 DEF Fits, RefsHeld
  <2>3. \A u \in Threads : y[u] \subseteq x[u]
    BY <1>6, <1>8
  <2>4. \A u \in Threads : Unpushed(i) \notin y[u]
    BY <1>8, <2>1, <2>3
  <2> QED BY <2>1, <2>2, <2>3, <2>4
<1>12. /\ refs'[i] = refs[i] \cup {"queue"} /\ \A j \in Items \ {i} : refs'[j] = refs[j]
       /\ refs' \in [Items -> SUBSET (Threads \cup {"queue"})]
  BY <1>2, <1>4, <1>7 DEF StateOK
<1>13. "queue" \notin Threads
  BY DEF Threads
<1>14. MutexesHeld(y)'
  BY <1>1, <1>4, <1>9 DEF Fits, MutexesHeld
<1>15. RefsHeld(y)'
  BY <1>1, <1>10, <1>12, <1>13 DEF Fits, RefsHeld
<1>16. PushesLeft(y)'
  BY <1>1, <1>10, <1>11, <1>12 DEF Fits, PushesLeft
<1>17. \A j : InTable(j)' <=> InTable(j)
  BY <1>4 DEF InTable
<1>18. Destroyed(y)'
  BY <1>1, <1>4, <1>10, <1>11, <1>12, <1>17 DEF Fits, Destroyed
<1>19. FrontHeld(y)'
  <2>1. fifo # <<>> => fifo' # <<>> /\ Head(fifo') = Head(fifo)
    BY <1>2, <1>4, <1>7 DEF StateOK
  <2> QED BY <1>1, <1>10, <2>1 DEF Fits, FrontHeld
<1>20. TableSeen(y)'
  <2>1. Of("table") \in Mutexes
    BY MutexesNamed DEF MutexNames
  <2> QED BY <1>1, <1>9, <1>10, <1>17, <2>1 DEF Fits, TableSeen
<1>21. ItemsKept(y)'
  <2>1. Of("table") \in Mutexes /\ \A j \in Items : ItemMutex(j) \in Mutexes
    BY MutexesNamed DEF MutexNames
  <2>2. \A u \in Threads, j \in Items : Keeps(x[u], j) => Keeps(y[u], j)
    BY <1>9, <1>10, <2>1 DEF Keeps
  <2> QED BY <1>1, <1>9, <2>1, <2>2 DEF Fits, ItemsKept
<1>22. StateOK' /\ ItemsExist'
  <2>1. fifo' \in Seq(Items)
    BY <1>2, <1>4, <1>7 DEF StateOK
  <2>2. StateOK'
    BY <1>2, <1>4, <1>6, <1>12, <2>1 DEF StateOK
  <2>3. \A j \in Items : refs'[j] # {} => refs[j] # {}
    BY <1>11, <1>12
  <2> QED BY <1>2, <1>4, <1>17, <2>2, <2>3 DEF ItemsExist
<1>23. Queued'
  <2>1. /\ Len(fifo') = Len(fifo) + 1 /\ Len(fifo) \in Nat
        /\ \A n \in 1 .. Len(fifo) : fifo'[n] = fifo[n] /\ fifo[n] \in Items
        /\ fifo'[Len(fifo) + 1] = i
    BY <1>2, <1>4, <1>7 DEF StateOK
  <2>2. \A n \in 1 .. Len(fifo) : "queue" \in refs[fifo[n]] /\ fifo[n] # i
    BY <1>2, <1>11 DEF Queued
  <2>3. \A n \in 1 .. Len(fifo') : "queue" \in refs'[fifo'[n]]
    <3> TAKE n \in 1 .. Len(fifo')
    <3>1. CASE n \in 1 .. Len(fifo)
      BY <1>12, <2>1, <2>2, <3>1
    <3>2. CASE n = Len(fifo) + 1
      BY <1>12, <2>1, <3>2
    <3> QED BY <2>1, <3>1, <3>2
  <2>4. \A m, n \in 1 .. Len(fifo') : fifo'[m] = fifo'[n] => m = n
    <3>1. \A n \in 1 .. Len(fifo') : n \in 1 .. Len(fifo) \/ n = Len(fifo) + 1
      BY <2>1
    <3>2. \A m, n \in 1 .. Len(fifo) : fifo[m] = fifo[n] => m = n
      BY <1>2 DEF Queued
    <3> QED BY <2>1, <2>2, <3>1, <3>2
  <2> QED BY <2>3, <2>4 DEF Queued
<1> QED BY <1>6, <1>14, <1>15, <1>16, <1>18, <1>19, <1>20, <1>21, <1>22, <1>23
    DEF LockInv, Fits, Haves

\* The mutexes stay as they are, and so does what keeps the items.
LEMMA MutexesStay ==
  ASSUME NEW x, Fits(x), NEW y, \A u \in Threads, m \in Mutexes : m \in y[u] <=> m \in x[u],
         UNCHANGED holder, NEW t \in Threads, \A u \in Threads \ {t} : y[u] = x[u],
         NoItemHeld(x[t]) \/ \A j \in Items : Keeps(x[t], j) => Keeps(y[t], j)
  PROVE  MutexesHeld(y)' /\ ItemsKept(y)'
<1>1. MutexesHeld(y)'
  BY DEF Fits, MutexesHeld
<1>2. \A j \in Items : ItemMutex(j) \in Mutexes
  BY MutexesNamed
<1>3. ASSUME NEW u \in Threads, NEW j \in Items, u # "work", ItemMutex(j) \in y[u]
      PROVE  Keeps(y[u], j)
  <2>1. ItemMutex(j) \in x[u] /\ Keeps(x[u], j)
    BY <1>2, <1>3 DEF Fits, ItemsKept
  <2>2. CASE u = t
    BY <2>1, <2>2 DEF NoItemHeld
  <2>3. CASE u # t
    BY <2>1, <2>3
  <2> QED BY <2>2, <2>3
<1> QED BY <1>1, <1>3 DEF ItemsKept

LEMMA TableSeenStays ==
  ASSUME NEW x, Fits(x), NEW y, \A u \in Threads, m \in Mutexes : m \in y[u] <=> m \in x[u],
         \A u \in Threads, j \in Items : Seen(j) \in y[u] <=> Seen(j) \in x[u],
         \A u \in Threads : Turn \in y[u] => Turn \in x[u], UNCHANGED table
  PROVE  TableSeen(y)' /\ \A j : InTable(j)' <=> InTable(j)
<1>1. \A j : InTable(j)' <=> InTable(j)
  BY DEF InTable
<1>2. Of("table") \in Mutexes
  BY MutexesNamed DEF MutexNames
<1> QED BY <1>1, <1>2 DEF Fits, TableSeen

LEMMA GetFrontInv == ASSUME LockInv, NEW t \in Threads, GetFront(t) PROVE LockInv'
<1>1. PICK x : Fits(x)
  BY DEF LockInv
<1>2. StateOK /\ ItemsExist /\ Queued
  BY DEF LockInv
<1>3. PICK s, i, g, h, y : /\ s = Now(t) /\ i = Head(fifo) /\ g = x[t] \ {Look}
                           /\ h = g \cup {Ref(i), AtFront(i)} /\ y = [x EXCEPT ![t] = h]
  OBVIOUS
<1>4. /\ ~Idle(t) /\ s.op = "front" /\ GoOn(t, WorkOn(i))
      /\ refs' = [refs EXCEPT ![i] = @ \cup {t}]
      /\ UNCHANGED <<holder, table, armed, fifo, exists>>
  BY <1>3 DEF GetFront, Due
<1>5. Ordered(t, s, x[t]) /\ x \in [Threads -> SUBSET Things]
  BY <1>1, <1>2, <1>3, <1>4, Standing DEF Fits
<1>6. /\ NoItemHeld(x[t]) /\ Above(t, x[t], 2) /\ Look \in x[t]
      /\ \A j \in Items : Ref(j) \notin x[t] /\ AtFront(j) \notin x[t]
  BY <1>4, <1>5 DEF Ordered
<1>7. t = "system" /\ fifo # <<>>
  BY <1>1, <1>6 DEF Fits, FrontHeld
<1>8. i \in Items /\ "queue" \in refs[i] /\ fifo \in Seq(Items)
  <2>1. fifo \in Seq(Items) /\ Len(fifo) \in Nat \ {0} /\ i = fifo[1] /\ i \in Items
    BY <1>2, <1>3, <1>7 DEF StateOK
  <2> QED BY <1>2, <2>1 DEF Queued
<1>9. Unpushed(i) \notin x[t]
  BY <1>1, <1>6, <1>8 DEF Fits, PushesLeft
<1>10. /\ g \in SUBSET Things /\ NoItemHeld(g) /\ Above(t, g, 2)
       /\ Ref(i) \notin g /\ AtFront(i) \notin g /\ Unpushed(i) \notin g
       /\ After(s, x[t]) = g
  <2>1. g \in SUBSET Things /\ NoItemHeld(g) /\ Above(t, g, 2)
    BY <1>3, <1>5, <1>6 DEF NoItemHeld, Above
  <2>2. Ref(i) \notin g /\ AtFront(i) \notin g /\ Unpushed(i) \notin g
    BY <1>3, <1>6, <1>8, <1>9
  <2>3. After(s, x[t]) = g
    BY <1>3, <1>4 DEF After, Gains, Loses
  <2> QED BY <2>1, <2>2, <2>3
<1>11. h \in SUBSET Things
  BY <1>3, <1>8, <1>10, RightsApart DEF Things
<1>12. GoesOn(y)' /\ todo' \in [Threads -> Seq(StepSet)]
  <2>1. Runs(t, WorkOn(i), h, g)
    BY <1>3, <1>8, <1>10, WorkOnRuns
  <2>2. Runs(t, WorkOn(i), h, After(Now(t), x[t])) /\ y = [x EXCEPT ![t] = h]
    BY <1>3, <1>10, <2>1
  <2> QED BY <1>1, <1>2, <1>4, <1>11, <2>2, SequelGoesOn
<1>13. y \in Haves /\ y[t] = h /\ \A u \in Threads \ {t} : y[u] = x[u]
  BY <1>3, <1>5, <1>11 DEF Haves
<1>14. \A r : r \notin {Look, Ref(i), AtFront(i)} => \A u \in Threads : r \in y[u] <=> r \in x[u]
  BY <1>3, <1>13
<1>15. /\ \A u \in Threads, m \in Mutexes : m \in y[u] <=> m \in x[u]
       /\ \A u \in Threads, j \in Items : Unpushed(j) \in y[u] <=> Unpushed(j) \in x[u]
       /\ \A u \in Threads, j \in Items : Dying(j) \in y[u] <=> Dying(j) \in x[u]
       /\ \A u \in Threads, j \in Items : Gone(j) \in y[u] <=> Gone(j) \in x[u]
       /\ \A u \in Threads, j \in Items : Seen(j) \in y[u] <=> Seen(j) \in x[u]
       /\ \A u \in Threads : Turn \in y[u] <=> Turn \in x[u]
  <2>1. \A m \in Mutexes : m \notin {Look, Ref(i), AtFront(i)}
    BY <1>8, RightsApart
  <2>2. /\ \A j \in Items : {Look, Ref(i), AtFront(i)} \cap {Unpushed(j), Dying(j), Gone(j), Seen(j)} = {}
        /\ Turn \notin {Look, Ref(i), AtFront(i)}
    BY <1>8, Apart
  <2> QED BY <1>14, <2>1, <2>2
<1>16. \A u \in Threads, j \in Items : Ref(j) \in y[u] <=> Ref(j) \in x[u] \/ (u = t /\ j = i)
  <2>1. \A j \in Items : Ref(j) # Look /\ Ref(j) # AtFront(i) /\ (Ref(j) = Ref(i) => j = i)
    BY <1>8, Apart
  <2> QED BY <1>3, <1>13, <1>14, <2>1
<1>17. /\ refs'[i] = refs[i] \cup {t} /\ \A j \in Items \ {i} : refs'[j] = refs[j]
       /\ refs' \in [Items -> SUBSET (Threads \cup {"queue"})]
  BY <1>2, <1>4, <1>8 DEF StateOK
<1>18. MutexesHeld(y)' /\ ItemsKept(y)'
  BY <1>1, <1>4, <1>6, <1>13, <1>15, MutexesStay
<1>19. TableSeen(y)' /\ \A j : InTable(j)' <=> InTable(j)
  BY <1>1, <1>4, <1>15, TableSeenStays
<1>20. RefsHeld(y)'
  BY <1>1, <1>16, <1>17 DEF Fits, RefsHeld
<1>21. PushesLeft(y)'
  <2>1. \A u \in Threads : Unpushed(i) \notin x[u]
    BY <1>1, <1>8 DEF Fits, PushesLeft
  <2> QED BY <1>1, <1>15, <1>16, <1>17, <2>1 DEF Fits, PushesLeft
<1>22. Destroyed(y)'
  BY <1>1, <1>4, <1>8, <1>15, <1>17, <1>19 DEF Fits, Destroyed
<1>23. FrontHeld(y)'
  <2>1. \A u \in Threads : Look \in y[u] => Look \in x[u] /\ u # t
    <3>1. Look \notin h
      BY <1>3, <1>8, Apart
    <3> QED BY <1>13, <3>1
  <2>2. \A u \in Threads, j \in Items : AtFront(j) \in y[u] => AtFront(j) \in x[u] \/ (u = t /\ j = i)
    <3>1. \A j \in Items : AtFront(j) # Look /\ AtFront(j) # Ref(i) /\ (AtFront(j) = AtFront(i) => j = i)
      BY <1>8, Apart
    <3> QED BY <1>3, <1>13, <1>14, <3>1
  <2> QED BY <1>1, <1>3, <1>4, <1>7, <2>1, <2>2 DEF Fits, FrontHeld
<1>24. StateOK' /\ ItemsExist' /\ Queued'
  <2>1. StateOK'
    BY <1>2, <1>4, <1>12, <1>17 DEF StateOK
  <2>2. ItemsExist'
    BY <1>2, <1>4, <1>8, <1>17, <1>19 DEF ItemsExist
  <2>3. \A n \in 1 .. Len(fifo) : fifo[n] \in Items
    BY <1>8
  <2>4. Queued'
    BY <1>2, <1>4, <1>17, <2>3 DEF Queued
  <2> QED BY <2>1, <2>2, <2>4
<1> QED BY <1>12, <1>13, <1>18, <1>19, <1>20, <1>21, <1>22, <1>23, <1>24 DEF LockInv, Fits, Haves

LEMMA AskDoneInv == ASSUME LockInv, NEW t \in Threads, AskDone(t) PROVE LockInv'
<1>1. PICK x : Fits(x)
  BY DEF LockInv
<1>2. StateOK /\ ItemsExist /\ Queued
  BY DEF LockInv
<1>3. PICK s, i, h, y : /\ s = Now(t) /\ i = s.item /\ h = After(s, x[t])
                        /\ y = [x EXCEPT ![t] = h]
  OBVIOUS
<1>4. /\ ~Idle(t) /\ s.op = "done?" /\ GoOn(t, <<>>)
      /\ \/ fifo' = Tail(fifo) /\ refs' = [refs EXCEPT ![i] = @ \ {"queue"}]
         \/ UNCHANGED <<fifo, refs>>
      /\ UNCHANGED <<holder, table, armed, exists>>
  BY <1>3 DEF AskDone, Due
<1>5. Ordered(t, s, x[t]) /\ x \in [Threads -> SUBSET Things]
  BY <1>1, <1>2, <1>3, <1>4, Standing DEF Fits
<1>6. /\ GoesOn(y)' /\ todo' \in [Threads -> Seq(StepSet)] /\ y \in Haves
      /\ y[t] = h /\ \A u \in Threads \ {t} : y[u] = x[u]
  <2>1. h = After(Now(t), x[t]) /\ y = [x EXCEPT ![t] = h] /\ ~Idle(t) /\ GoOn(t, <<>>)
    BY <1>3, <1>4
  <2>2. GoesOn(y)' /\ todo' \in [Threads -> Seq(StepSet)]
    BY <1>1, <1>2, <2>1, StepTaken
  <2>3. y \in Haves
    BY <1>1, <1>2, <2>1, StepTaken
  <2>4. y[t] = h /\ \A u \in Threads \ {t} : y[u] = x[u]
    BY <1>5, <2>1
  <2> QED BY <2>2, <2>3, <2>4
<1>7. i \in Items /\ AtFront(i) \in x[t] /\ Ref(i) \in x[t]
  <2>1. Mutex(s) = <<"item", i>> /\ Mutex(s) \in Mutexes
    BY <1>3, <1>4, <1>5 DEF Ordered, Takes, Mutex
  <2> QED BY <1>3, <1>4, <1>5, <2>1 DEF Ordered, OfItems
<1>8. y[t] = x[t] \ {AtFront(i)}
  BY <1>3, <1>4, <1>6 DEF After, Gains, Loses
<1>9. /\ t = "system" /\ fifo # <<>> /\ Head(fifo) = i /\ Look \notin x[t]
      /\ t \in refs[i]
  BY <1>1, <1>7 DEF Fits, FrontHeld, RefsHeld
<1>10. \A r : r # AtFront(i) => \A u \in Threads : r \in y[u] <=> r \in x[u]
  BY <1>6, <1>8
<1>11. /\ \A u \in Threads, m \in Mutexes : m \in y[u] <=> m \in x[u]
       /\ \A u \in Threads, j \in Items : Ref(j) \in y[u] <=> Ref(j) \in x[u]
       /\ \A u \in Threads, j \in Items : Unpushed(j) \in y[u] <=> Unpushed(j) \in x[u]
       /\ \A u \in Threads, j \in Items : Dying(j) \in y[u] <=> Dying(j) \in x[u]
       /\ \A u \in Threads, j \in Items : Gone(j) \in y[u] <=> Gone(j) \in x[u]
       /\ \A u \in Threads, j \in Items : Seen(j) \in y[u] <=> Seen(j) \in x[u]
       /\ \A u \in Threads : Turn \in y[u] <=> Turn \in x[u]
       /\ \A u \in Threads : Look \in y[u] <=> Look \in x[u]
  <2>1. \A m \in Mutexes : m # AtFront(i)
    BY <1>7, RightsApart
  <2>2. \A j \in Items : AtFront(i) \notin {Ref(j), Unpushed(j), Dying(j), Gone(j), Seen(j)}
    BY <1>7, Apart
  <2>3. AtFront(i) # Turn /\ AtFront(i) # Look
    BY <1>7, Apart
  <2> QED BY <1>10, <2>1, <2>2, <2>3
<1>12. /\ refs' \in [Items -> SUBSET (Threads \cup {"queue"})]
       /\ \A j \in Items : refs'[j] \subseteq refs[j]
       /\ \A j \in Items, u \in Threads : u \in refs'[j] <=> u \in refs[j]
       /\ \A j \in Items \ {i} : refs'[j] = refs[j]
  <2>1. "queue" \notin Threads
    BY DEF Threads
  <2> QED BY <1>2, <1>4, <1>7, <2>1 DEF StateOK
<1>13. MutexesHeld(y)' /\ ItemsKept(y)'
  <2>1. Of("table") \in Mutexes
    BY MutexesNamed DEF MutexNames
  <2>2. \A j \in Items : Keeps(x[t], j) => Keeps(y[t], j)
    BY <1>11, <2>1 DEF Keeps
  <2> QED BY <1>1, <1>4, <1>6, <1>11, <2>2, MutexesStay
<1>14. TableSeen(y)' /\ \A j : InTable(j)' <=> InTable(j)
  BY <1>1, <1>4, <1>11, TableSeenStays
<1>15. RefsHeld(y)' /\ PushesLeft(y)'
  BY <1>1, <1>11, <1>12 DEF Fits, RefsHeld, PushesLeft
<1>16. Destroyed(y)'
  <2>1. \A j \in Items : refs[j] = {} => refs'[j] = {}
    BY <1>12
  <2> QED BY <1>1, <1>4, <1>11, <1>14, <2>1 DEF Fits, Destroyed
<1>17. FrontHeld(y)'
  <2>1. \A u \in Threads : Look \notin y[u]
    BY <1>1, <1>9, <1>11 DEF Fits, FrontHeld
  <2>2. \A u \in Threads, j \in Items : AtFront(j) \notin y[u]
    <3>1. \A u \in Threads, j \in Items : AtFront(j) \in x[u] => u = t /\ j = i
      BY <1>1, <1>9 DEF Fits, FrontHeld
    <3> QED BY <1>6, <1>8, <3>1
  <2> QED BY <2>1, <2>2 DEF FrontHeld
<1>18. /\ fifo \in Seq(Items) /\ Len(fifo) \in Nat \ {0} /\ fifo[1] = i
       /\ \A n \in 1 .. Len(fifo) : fifo[n] \in Items
  BY <1>2, <1>9 DEF StateOK
<1>19. StateOK' /\ ItemsExist'
  <2>1. fifo' \in Seq(Items)
    BY <1>4, <1>18
  <2> QED BY <1>2, <1>4, <1>6, <1>12, <1>14, <2>1 DEF StateOK, ItemsExist
<1>20. Queued'
  <2>1. CASE UNCHANGED <<fifo, refs>>
    BY <1>2, <2>1 DEF Queued
  <2>2. CASE fifo' = Tail(fifo)
    <3>1. Len(fifo') = Len(fifo) - 1 /\ \A n \in 1 .. Len(fifo) - 1 : fifo'[n] = fifo[n + 1]
      BY <1>18, <2>2
    <3>2. \A n \in 1 .. Len(fifo) - 1 : n + 1 \in 1 .. Len(fifo) /\ n + 1 # 1 /\ 1 \in 1 .. Len(fifo)
      BY <1>18
    <3>3. \A n \in 1 .. Len(fifo) - 1 : "queue" \in refs'[fifo'[n]]
      <4> TAKE n \in 1 .. Len(fifo) - 1
      <4>1. fifo[n + 1] # i /\ fifo[n + 1] \in Items /\ "queue" \in refs[fifo[n + 1]]
        BY <1>2, <1>18, <3>2 DEF Queued
      <4> QED BY <1>12, <3>1, <4>1
    <3>4. ASSUME NEW m \in 1 .. Len(fifo) - 1, NEW n \in 1 .. Len(fifo) - 1, fifo'[m] = fifo'[n]
          PROVE  m = n
      <4>1. m + 1 = n + 1
        BY <1>2, <3>1, <3>2, <3>4 DEF Queued
      <4> QED BY <1>18, <4>1
    <3> QED BY <3>1, <3>3, <3>4 DEF Queued
  <2> QED BY <1>4, <2>1, <2>2
<1> QED BY <1>6, <1>13, <1>14, <1>15, <1>16, <1>17, <1>19, <1>20 DEF LockInv, Fits, Haves
-----------------------------------------------------------------------------
(***************************************************************************)
(* Items dropped, destroyed and freed.                                     *)
(***************************************************************************)
LEMMA DropInv == ASSUME LockInv, NEW t \in Threads, Drop(t) PROVE LockInv'
<1>1. PICK x : Fits(x)
  BY DEF LockInv
<1>2. StateOK /\ ItemsExist /\ Queued
  BY DEF LockInv
<1>3. PICK s, i, g, d, h, y, steps :
        /\ s = Now(t) /\ i = s.item /\ g = x[t] \ {Ref(i)}
        /\ d = (IF refs[i] = {t} THEN {Dying(i)} ELSE {}) /\ h = g \cup d
        /\ y = [x EXCEPT ![t] = h]
        /\ steps = IF refs[i] = {t} THEN Destroy(i) ELSE <<>>
  OBVIOUS
<1>4. /\ ~Idle(t) /\ s.op = "drop" /\ GoOn(t, steps)
      /\ refs' = [refs EXCEPT ![i] = @ \ {t}]
      /\ UNCHANGED <<holder, table, armed, fifo, exists>>
  BY <1>3 DEF Drop, Due
<1>5. Ordered(t, s, x[t]) /\ x \in [Threads -> SUBSET Things]
  BY <1>1, <1>2, <1>3, <1>4, Standing DEF Fits
<1>6. /\ NoItemHeld(x[t]) /\ Above(t, x[t], 2) /\ i \in Items /\ Ref(i) \in x[t]
      /\ Unpushed(i) \notin x[t]
  BY <1>3, <1>4, <1>5 DEF Ordered, OfItems
<1>7. t \in refs[i] /\ i \in exists
  BY <1>1, <1>2, <1>6 DEF Fits, RefsHeld, ItemsExist
<1>8. \A u \in Threads : Dying(i) \notin x[u] /\ Gone(i) \notin x[u]
  BY <1>1, <1>6, <1>7 DEF Fits, Destroyed
<1>9. /\ g \in SUBSET Things /\ NoItemHeld(g) /\ Above(t, g, 2)
      /\ Dying(i) \notin g /\ Gone(i) \notin g /\ After(s, x[t]) = g
  <2>1. g \in SUBSET Things /\ NoItemHeld(g) /\ Above(t, g, 2)
    BY <1>3, <1>5, <1>6 DEF NoItemHeld, Above
  <2>2. Dying(i) \notin g /\ Gone(i) \notin g
    BY <1>3, <1>8
  <2>3. After(s, x[t]) = g
    BY <1>3, <1>4 DEF After, Gains, Loses
  <2> QED BY <2>1, <2>2, <2>3
<1>10. h \in SUBSET Things
  BY <1>3, <1>6, <1>9, RightsApart DEF Things
<1>11. Runs(t, steps, h, g)
  <2>1. CASE refs[i] = {t}
    BY <1>3, <1>6, <1>9, <2>1, DestroyRuns
  <2>2. CASE refs[i] # {t}
    <3>1. h = g /\ steps = <<>>
      BY <1>3, <2>2
    <3> QED BY <1>9, <3>1, RunsEmpty
  <2> QED BY <2>1, <2>2
<1>12. GoesOn(y)' /\ todo' \in [Threads -> Seq(StepSet)]
  <2>1. Runs(t, steps, h, After(Now(t), x[t])) /\ y = [x EXCEPT ![t] = h]
    BY <1>3, <1>9, <1>11
  <2> QED BY <1>1, <1>2, <1>4, <1>10, <2>1, SequelGoesOn
<1>13. y \in Haves /\ y[t] = h /\ \A u \in Threads \ {t} : y[u] = x[u]
  BY <1>3, <1>5, <1>10 DEF Haves
<1>14. \A r : r \notin {Ref(i), Dying(i)} => \A u \in Threads : r \in y[u] <=> r \in x[u]
  BY <1>3, <1>13
<1>15. /\ \A u \in Threads, m \in Mutexes : m \in y[u] <=> m \in x[u]
       /\ \A u \in Threads, j \in Items : Unpushed(j) \in y[u] <=> Unpushed(j) \in x[u]
       /\ \A u \in Threads, j \in Items : Gone(j) \in y[u] <=> Gone(j) \in x[u]
       /\ \A u \in Threads, j \in Items : AtFront(j) \in y[u] <=> AtFront(j) \in x[u]
       /\ \A u \in Threads, j \in Items : Seen(j) \in y[u] <=> Seen(j) \in x[u]
       /\ \A u \in Threads : Turn \in y[u] <=> Turn \in x[u]
       /\ \A u \in Threads : Look \in y[u] <=> Look \in x[u]
  <2>1. \A m \in Mutexes : m \notin {Ref(i), Dying(i)}
    BY <1>6, RightsApart
  <2>2. /\ \A j \in Items : {Ref(i), Dying(i)} \cap {Unpushed(j), Gone(j), AtFront(j), Seen(j)} = {}
        /\ {Turn, Look} \cap {Ref(i), Dying(i)} = {}
    BY <1>6, Apart
  <2> QED BY <1>14, <2>1, <2>2
<1>16. \A u \in Threads, j \in Items : Ref(j) \in y[u] <=> Ref(j) \in x[u] /\ ~(u = t /\ j = i)
  <2>1. \A j \in Items : Ref(j) # Dying(i) /\ (Ref(j) = Ref(i) => j = i)
    BY <1>6, Apart
  <2>2. Ref(i) \notin h
    BY <1>3, <1>6, <2>1
  <2> QED BY <1>13, <1>14, <2>1, <2>2
<1>17. \A u \in Threads, j \in Items :
         Dying(j) \in y[u] <=> Dying(j) \in x[u] \/ (u = t /\ j = i /\ refs[i] = {t})
  <2>1. \A j \in Items : Dying(j) # Ref(i) /\ (Dying(j) = Dying(i) => j = i)
    BY <1>6, Apart
  <2>2. Dying(i) \in h <=> refs[i] = {t}
    BY <1>3, <1>8
  <2> QED BY <1>8, <1>13, <1>14, <2>1, <2>2
<1>18. /\ refs'[i] = refs[i] \ {t} /\ \A j \in Items \ {i} : refs'[j] = refs[j]
       /\ refs' \in [Items -> SUBSET (Threads \cup {"queue"})]
  BY <1>2, <1>4, <1>6 DEF StateOK
<1>19. MutexesHeld(y)' /\ ItemsKept(y)'
  BY <1>1, <1>4, <1>6, <1>13, <1>15, MutexesStay
<1>20. TableSeen(y)' /\ \A j : InTable(j)' <=> InTable(j)
  BY <1>1, <1>4, <1>15, TableSeenStays
<1>21. RefsHeld(y)'
  BY <1>1, <1>16, <1>18 DEF Fits, RefsHeld
<1>22. PushesLeft(y)'
  BY <1>1, <1>6, <1>15, <1>16, <1>18 DEF Fits, PushesLeft
<1>23. Destroyed(y)'
  <2>1. refs[i] = {t} => refs'[i] = {}
    BY <1>18
  <2>2. ASSUME NEW u \in Threads, NEW j \in Items, Dying(j) \in y[u] \/ Gone(j) \in y[u]
        PROVE  /\ j \in exists /\ refs'[j] = {}
               /\ \A v \in Threads : Dying(j) \in y[v] \/ Gone(j) \in y[v] => v = u
               /\ Gone(j) \in y[u] => ~InTable(j) /\ Dying(j) \notin y[u]
    <3>1. CASE j = i
      BY <1>7, <1>8, <1>15, <1>17, <2>1, <2>2, <3>1
    <3>2. CASE j # i
      <4>1. Dying(j) \in x[u] \/ Gone(j) \in x[u]
        BY <1>15, <1>17, <2>2, <3>2
      <4>2. /\ j \in exists /\ refs[j] = {}
            /\ \A v \in Threads : Dying(j) \in x[v] \/ Gone(j) \in x[v] => v = u
            /\ Gone(j) \in x[u] => ~InTable(j) /\ Dying(j) \notin x[u]
        BY <1>1, <4>1 DEF Fits, Destroyed
      <4> QED BY <1>15, <1>17, <1>18, <3>2, <4>2
    <3> QED BY <3>1, <3>2
  <2> QED BY <1>4, <1>20, <2>2 DEF Destroyed
<1>24. FrontHeld(y)'
  BY <1>1, <1>4, <1>15 DEF Fits, FrontHeld
<1>25. StateOK' /\ ItemsExist' /\ Queued'
  <2>1. StateOK'
    BY <1>2, <1>4, <1>12, <1>18 DEF StateOK
  <2>2. ItemsExist'
    BY <1>2, <1>4, <1>7, <1>18, <1>20 DEF ItemsExist
  <2>3. "queue" # t /\ \A n \in 1 .. Len(fifo) : fifo[n] \in Items
    BY <1>2 DEF Threads, StateOK
  <2>4. Queued'
    BY <1>2, <1>4, <1>18, <2>3 DEF Queued
  <2> QED BY <2>1, <2>2, <2>4
<1> QED BY <1>12, <1>13, <1>19, <1>20, <1>21, <1>22, <1>23, <1>24, <1>25 DEF LockInv, Fits, Haves

LEMMA FreeInv == ASSUME LockInv, NEW t \in Threads, Free(t) PROVE LockInv'
<1>1. PICK x : Fits(x)
  BY DEF LockInv
<1>2. StateOK /\ ItemsExist /\ Queued
  BY DEF LockInv
<1>3. PICK s, i, h, y : /\ s = Now(t) /\ i = s.item /\ h = After(s, x[t])
                        /\ y = [x EXCEPT ![t] = h]
  OBVIOUS
<1>4. /\ ~Idle(t) /\ s.op = "free" /\ GoOn(t, <<>>) /\ exists' = exists \ {i}
      /\ UNCHANGED <<holder, table, armed, fifo, refs>>
  BY <1>3 DEF Free, Due
<1>5. Ordered(t, s, x[t]) /\ x \in [Threads -> SUBSET Things]
  BY <1>1, <1>2, <1>3, <1>4, Standing DEF Fits
<1>6. /\ GoesOn(y)' /\ todo' \in [Threads -> Seq(StepSet)] /\ y \in Haves
      /\ y[t] = h /\ \A u \in Threads \ {t} : y[u] = x[u]
  <2>1. h = After(Now(t), x[t]) /\ y = [x EXCEPT ![t] = h] /\ ~Idle(t) /\ GoOn(t, <<>>)
    BY <1>3, <1>4
  <2>2. GoesOn(y)' /\ todo' \in [Threads -> Seq(StepSet)]
    BY <1>1, <1>2, <2>1, StepTaken
  <2>3. y \in Haves
    BY <1>1, <1>2, <2>1, StepTaken
  <2>4. y[t] = h /\ \A u \in Threads \ {t} : y[u] = x[u]
    BY <1>5, <2>1
  <2> QED BY <2>2, <2>3, <2>4
<1>7. i \in Items /\ Gone(i) \in x[t] /\ NoItemHeld(x[t])
  BY <1>3, <1>4, <1>5 DEF Ordered, OfItems
<1>8. y[t] = x[t] \ {Gone(i)}
  BY <1>3, <1>4, <1>6 DEF After, Gains, Loses
<1>9. /\ refs[i] = {} /\ ~InTable(i) /\ Dying(i) \notin x[t]
      /\ \A u \in Threads : Dying(i) \in x[u] \/ Gone(i) \in x[u] => u = t
  BY <1>1, <1>7 DEF Fits, Destroyed
<1>10. \A r : r # Gone(i) => \A u \in Threads : r \in y[u] <=> r \in x[u]
  BY <1>6, <1>8
<1>11. /\ \A u \in Threads, m \in Mutexes : m \in y[u] <=> m \in x[u]
       /\ \A u \in Threads, j \in Items : Ref(j) \in y[u] <=> Ref(j) \in x[u]
       /\ \A u \in Threads, j \in Items : Unpushed(j) \in y[u] <=> Unpushed(j) \in x[u]
       /\ \A u \in Threads, j \in Items : Dying(j) \in y[u] <=> Dying(j) \in x[u]
       /\ \A u \in Threads, j \in Items : AtFront(j) \in y[u] <=> AtFront(j) \in x[u]
       /\ \A u \in Threads, j \in Items : Seen(j) \in y[u] <=> Seen(j) \in x[u]
       /\ \A u \in Threads : Turn \in y[u] <=> Turn \in x[u]
       /\ \A u \in Threads : Look \in y[u] <=> Look \in x[u]
  <2>1. \A m \in Mutexes : m # Gone(i)
    BY <1>7, RightsApart
  <2>2. \A j \in Items : Gone(i) \notin {Ref(j), Unpushed(j), Dying(j), AtFront(j), Seen(j)}
    BY <1>7, Apart
  <2>3. Gone(i) # Turn /\ Gone(i) # Look
    BY <1>7, Apart
  <2> QED BY <1>10, <2>1, <2>2, <2>3
<1>12. \A u \in Threads, j \in Items : Gone(j) \in y[u] <=> Gone(j) \in x[u] /\ ~(u = t /\ j = i)
  <2>1. \A j \in Items : Gone(j) = Gone(i) => j = i
    BY <1>7, Apart
  <2> QED BY <1>6, <1>8, <2>1
<1>13. MutexesHeld(y)' /\ ItemsKept(y)'
  BY <1>1, <1>4, <1>6, <1>7, <1>11, MutexesStay
<1>14. TableSeen(y)' /\ \A j : InTable(j)' <=> InTable(j)
  BY <1>1, <1>4, <1>11, TableSeenStays
<1>15. RefsHeld(y)' /\ PushesLeft(y)'
  BY <1>1, <1>4, <1>11 DEF Fits, RefsHeld, PushesLeft
<1>16. Destroyed(y)'
  <2>1. ASSUME NEW u \in Threads, NEW j \in Items, Dying(j) \in y[u] \/ Gone(j) \in y[u] PROVE j # i
    BY <1>9, <1>11, <1>12, <2>1
  <2> QED BY <1>1, <1>4, <1>11, <1>12, <1>14, <2>1 DEF Fits, Destroyed
<1>17. FrontHeld(y)'
  BY <1>1, <1>4, <1>11 DEF Fits, FrontHeld
<1>18. StateOK' /\ ItemsExist' /\ Queued'
  BY <1>2, <1>4, <1>6, <1>9, <1>14 DEF StateOK, ItemsExist, Queued
<1> QED BY <1>6, <1>13, <1>14, <1>15, <1>16, <1>17, <1>18 DEF LockInv, Fits, Haves
-----------------------------------------------------------------------------
(***************************************************************************)
(* Messages dispatched.                                                    *)
(***************************************************************************)
\* The handlers called are in the table.
LEMMA DispatchRuns ==
  ASSUME StateOK, NEW t \in Threads, Dispatch(t), t = "receive", NEW g \in SUBSET Things,
         g \cap Mutexes = Receiving
  PROVE  \E e \in SUBSET Seens : \E steps :
           /\ GoOn(t, steps) /\ Runs(t, steps, g \cup e, g \cup e)
           /\ \A i \in Items : Seen(i) \in e => InTable(i)
<1> DEFINE message == Now(t).on
           handlers == {i \in Items : <<message, i>> \in table}
<1>1. g \cup {} = g /\ {} \in SUBSET Seens
  OBVIOUS
<1>2. CASE message = "HEARTBEAT"
  <2>1. GoOn(t, SetConnected)
    <3>1. message \notin PluginMessages
      BY <1>2 DEF PluginMessages
    <3> QED BY <1>2, <3>1 DEF Dispatch
  <2>2. Runs(t, SetConnected, g \cup {}, g \cup {})
    BY <1>1, SetConnectedRuns
  <2> QED BY <1>1, <2>1, <2>2
<1>3. CASE message # "HEARTBEAT" /\ message \in PluginMessages
  <2>1. GoOn(t, Serves(message)) /\ message \in MessageNames
    BY <1>3 DEF Dispatch, PluginMessages, MessageNames
  <2> HIDE DEF message
  <2>2. Runs(t, Serves(message), g \cup {}, g \cup {})
    BY <1>1, <2>1, ServesRuns
  <2> QED BY <1>1, <2>1, <2>2
<1>4. CASE message # "HEARTBEAT" /\ message \notin PluginMessages
  <2>1. PICK order \in SetToSeqs(handlers) :
          GoOn(t, [n \in DOMAIN order |-> Step("handle", "", order[n])])
    BY <1>4 DEF Dispatch
  <2> DEFINE e == {Seen(i) : i \in handlers}
             steps == [n \in DOMAIN order |-> Step("handle", "", order[n])]
  <2>2. IsFiniteSet(handlers)
    BY LocksAssumption, FS_Subset
  <2>3. handlers \subseteq Items /\ \A i \in handlers : InTable(i)
    <3>1. \A i : <<message, i>>[2] = i
      OBVIOUS
    <3> QED BY <3>1 DEF InTable
  <2> HIDE DEF handlers
  <2>4. order \in Seq(handlers)
    <3>1. Cardinality(handlers) \in Nat
      BY <2>2, FS_CardinalityType
    <3>2. order \in [1 .. Cardinality(handlers) -> handlers]
      BY DEF SetToSeqs
    <3> QED BY <3>1, <3>2
  <2>5. /\ e \in SUBSET Seens /\ \A i \in handlers : Seen(i) \in g \cup e
        /\ \A i \in Items : Seen(i) \in e => i \in handlers
    BY <2>3, Apart DEF Seens
  <2>6. g \cup e \in SUBSET Things /\ (g \cup e) \cap Mutexes = Receiving
    <3>1. \A r \in e : r \in Things /\ r \notin Mutexes
      BY <2>5, RightsApart DEF Seens, Things
    <3> QED BY <3>1
  <2> HIDE DEF e
  <2>7. Runs(t, steps, g \cup e, g \cup e)
    BY <2>3, <2>4, <2>5, <2>6, HandleAllRuns
  <2> QED BY <2>1, <2>3, <2>5, <2>7
<1> QED BY <1>2, <1>3, <1>4

LEMMA DispatchInv == ASSUME LockInv, NEW t \in Threads, Dispatch(t) PROVE LockInv'
<1>1. PICK x : Fits(x)
  BY DEF LockInv
<1>2. StateOK /\ ItemsExist /\ Queued
  BY DEF LockInv
<1>3. PICK s, g : s = Now(t) /\ g = x[t] \ {Turn}
  OBVIOUS
<1>4. /\ ~Idle(t) /\ s.op = "dispatch"
      /\ UNCHANGED <<holder, table, armed, fifo, refs, exists>>
  BY <1>3 DEF Dispatch, Due, itemVars
<1>5. Ordered(t, s, x[t]) /\ x \in [Threads -> SUBSET Things]
  BY <1>1, <1>2, <1>3, <1>4, Standing DEF Fits
<1>6. t = "receive" /\ Turn \in x[t] /\ x[t] \cap Mutexes = Receiving
  BY <1>4, <1>5 DEF Ordered
<1>7. /\ g \in SUBSET Things /\ g \cap Mutexes = Receiving /\ After(s, x[t]) = g
      /\ NoItemHeld(x[t])
  <2>1. g \in SUBSET Things /\ g \cap Mutexes = Receiving
    BY <1>3, <1>5, <1>6, RightsApart
  <2>2. After(s, x[t]) = g
    BY <1>3, <1>4 DEF After, Gains, Loses
  <2>3. NoItemHeld(x[t])
    BY <1>6, ReceivingMutexes, MutexesNamed DEF NoItemHeld
  <2> QED BY <2>1, <2>2, <2>3
<1>8. PICK e \in SUBSET Seens : \E steps :
        /\ GoOn(t, steps) /\ Runs(t, steps, g \cup e, g \cup e)
        /\ \A i \in Items : Seen(i) \in e => InTable(i)
  BY <1>2, <1>6, <1>7, DispatchRuns
<1>9. PICK steps : /\ GoOn(t, steps) /\ Runs(t, steps, g \cup e, g \cup e)
                    /\ \A i \in Items : Seen(i) \in e => InTable(i)
  BY <1>8
<1>10. PICK h, y : h = g \cup e /\ y = [x EXCEPT ![t] = h]
  OBVIOUS
<1>11. h \in SUBSET Things
  BY <1>7, <1>10, RightsApart DEF Seens, Things
<1>12. y \in Haves /\ y[t] = h /\ \A u \in Threads \ {t} : y[u] = x[u]
  BY <1>5, <1>10, <1>11 DEF Haves
<1>13. GoesOn(y)' /\ todo' \in [Threads -> Seq(StepSet)]
  <2>1. PICK k \in SUBSET Seens : Runs(t, Tail(todo[t]), g, k)
    <3>1. \E k \in SUBSET Seens : Runs(t, Tail(todo[t]), After(Now(t), x[t]), k)
      BY <1>1, <1>2, <1>4, Standing
    <3> QED BY <1>3, <1>7, <3>1
  <2>2. Runs(t, Tail(todo[t]), h, k \cup e) /\ k \cup e \in SUBSET Seens
    BY <1>10, <2>1, RunsFrame
  <2> DEFINE q == steps \o Tail(todo[t])
  <2>3. Runs(t, q, h, k \cup e)
    BY <1>9, <1>10, <2>2, RunsJoin
  <2>4. todo' = [todo EXCEPT ![t] = q]
    BY <1>9 DEF GoOn
  <2> HIDE DEF q
  <2>5. GoesOn(x)
    BY <1>1 DEF Fits
  <2>6. GoesOn([x EXCEPT ![t] = h])' /\ todo' \in [Threads -> Seq(StepSet)]
    BY <1>2, <1>5, <1>11, <2>2, <2>3, <2>4, <2>5, GoesOnWith
  <2>7. GoesOn(y)'
    BY <1>10, <2>6 DEF GoesOn
  <2> QED BY <2>6, <2>7
<1>14. \A r : r # Turn /\ r \notin e => \A u \in Threads : r \in y[u] <=> r \in x[u]
  BY <1>3, <1>10, <1>12
<1>15. /\ \A u \in Threads, m \in Mutexes : m \in y[u] <=> m \in x[u]
       /\ \A u \in Threads, j \in Items : Ref(j) \in y[u] <=> Ref(j) \in x[u]
       /\ \A u \in Threads, j \in Items : Unpushed(j) \in y[u] <=> Unpushed(j) \in x[u]
       /\ \A u \in Threads, j \in Items : Dying(j) \in y[u] <=> Dying(j) \in x[u]
       /\ \A u \in Threads, j \in Items : Gone(j) \in y[u] <=> Gone(j) \in x[u]
       /\ \A u \in Threads, j \in Items : AtFront(j) \in y[u] <=> AtFront(j) \in x[u]
       /\ \A u \in Threads : Look \in y[u] <=> Look \in x[u]
  <2>1. \A m \in Mutexes : m # Turn /\ m \notin e
    BY RightsApart DEF Seens
  <2>2. \A j \in Items : /\ {Turn} \cap {Ref(j), Unpushed(j), Dying(j), Gone(j), AtFront(j)} = {}
                         /\ e \cap {Ref(j), Unpushed(j), Dying(j), Gone(j), AtFront(j)} = {}
    BY Apart DEF Seens
  <2>3. Look # Turn /\ Look \notin e
    <3>1. \A j \in Items : Look # Seen(j)
      BY DEF Look, Of, Seen
    <3> QED BY <3>1, Apart DEF Seens
  <2> QED BY <1>14, <2>1, <2>2, <2>3
<1>16. MutexesHeld(y)' /\ ItemsKept(y)'
  BY <1>1, <1>4, <1>7, <1>12, <1>15, MutexesStay
<1>17. \A j : InTable(j)' <=> InTable(j)
  BY <1>4 DEF InTable
<1>18. RefsHeld(y)' /\ PushesLeft(y)' /\ Destroyed(y)' /\ FrontHeld(y)'
  BY <1>1, <1>4, <1>15, <1>17 DEF Fits, RefsHeld, PushesLeft, Destroyed, FrontHeld
<1>19. TableSeen(y)'
  <2>1. Turn \notin h /\ \A j \in Items : Seen(j) \in h => Seen(j) \in x[t] \/ Seen(j) \in e
    <3>1. \A j \in Items : Turn # Seen(j)
      BY DEF Turn, Of, Seen
    <3> QED BY <1>3, <1>10, <3>1 DEF Seens
  <2>2. \A j \in Items : Seen(j) \notin x[t]
    BY <1>1, <1>6 DEF Fits, TableSeen
  <2>3. \A j \in Items : Seen(j) \in h => InTable(j)
    BY <1>9, <2>1, <2>2
  <2> QED BY <1>1, <1>12, <1>17, <2>1, <2>3 DEF Fits, TableSeen
<1>20. StateOK' /\ ItemsExist' /\ Queued'
  BY <1>2, <1>4, <1>13, <1>17 DEF StateOK, ItemsExist, Queued
<1> QED BY <1>12, <1>13, <1>16, <1>18, <1>19, <1>20 DEF LockInv, Fits, Haves
-----------------------------------------------------------------------------
(***************************************************************************)
(* New items.                                                              *)
(***************************************************************************)
\* The item is made of memory that nobody has anything to do with.
LEMMA FreshInv ==
  ASSUME StateOK, ItemsExist, Queued, NEW x, Fits(x), NEW t \in Threads, NEW i \in Items, NEW kd,
         Fresh(t, i, kd), NEW h, h = x[t] \cup {Ref(i), Unpushed(i)},
         NEW y, y = [x EXCEPT ![t] = h], GoesOn(y)', todo' \in [Threads -> Seq(StepSet)],
         UNCHANGED <<holder, table, armed, fifo>>
  PROVE  LockInv'
<1>1. /\ i \notin exists /\ exists' = exists \cup {i} /\ refs' = [refs EXCEPT ![i] = {t}]
      /\ x \in [Threads -> SUBSET Things]
  BY DEF Fresh, Fits
<1>2. refs[i] = {} /\ ~InTable(i)
  BY <1>1 DEF ItemsExist
<1>3. \A u \in Threads : {Ref(i), Unpushed(i), Dying(i), Gone(i)} \cap x[u] = {}
  <2>1. \A u \in Threads : Ref(i) \notin x[u]
    BY <1>2 DEF Fits, RefsHeld
  <2>2. \A u \in Threads : Unpushed(i) \notin x[u]
    BY <2>1 DEF Fits, PushesLeft
  <2>3. \A u \in Threads : Dying(i) \notin x[u] /\ Gone(i) \notin x[u]
    BY <1>1 DEF Fits, Destroyed
  <2> QED BY <2>1, <2>2, <2>3
<1>4. h \in SUBSET Things
  BY <1>1, RightsApart DEF Things
<1>5. y \in Haves /\ y[t] = h /\ \A u \in Threads \ {t} : y[u] = x[u]
  BY <1>1, <1>4 DEF Haves
<1>6. \A r : r \notin {Ref(i), Unpushed(i)} => \A u \in Threads : r \in y[u] <=> r \in x[u]
  BY <1>5
<1>7. /\ \A u \in Threads, m \in Mutexes : m \in y[u] <=> m \in x[u]
      /\ \A u \in Threads, j \in Items : Dying(j) \in y[u] <=> Dying(j) \in x[u]
      /\ \A u \in Threads, j \in Items : Gone(j) \in y[u] <=> Gone(j) \in x[u]
      /\ \A u \in Threads, j \in Items : AtFront(j) \in y[u] <=> AtFront(j) \in x[u]
      /\ \A u \in Threads, j \in Items : Seen(j) \in y[u] <=> Seen(j) \in x[u]
      /\ \A u \in Threads : Turn \in y[u] <=> Turn \in x[u]
      /\ \A u \in Threads : Look \in y[u] <=> Look \in x[u]
  <2>1. \A m \in Mutexes : m \notin {Ref(i), Unpushed(i)}
    BY RightsApart
  <2>2. \A j \in Items : {Dying(j), Gone(j), AtFront(j), Seen(j)} \cap {Ref(i), Unpushed(i)} = {}
    BY Apart
  <2>3. Turn \notin {Ref(i), Unpushed(i)} /\ Look \notin {Ref(i), Unpushed(i)}
    BY Apart
  <2> QED BY <1>6, <2>1, <2>2, <2>3
<1>8. \A u \in Threads, j \in Items :
        /\ Ref(j) \in y[u] <=> Ref(j) \in x[u] \/ (u = t /\ j = i)
        /\ Unpushed(j) \in y[u] <=> Unpushed(j) \in x[u] \/ (u = t /\ j = i)
  <2>1. \A j \in Items : /\ Ref(j) = Ref(i) => j = i
                         /\ Unpushed(j) = Unpushed(i) => j = i
                         /\ Ref(j) # Unpushed(i) /\ Unpushed(j) # Ref(i)
    BY Apart
  <2> QED BY <1>5, <2>1
<1>9. MutexesHeld(y)' /\ ItemsKept(y)'
  <2>1. \A j \in Items : Keeps(x[t], j) => Keeps(y[t], j)
    BY <1>5 DEF Keeps
  <2> QED BY <1>5, <1>7, <2>1, MutexesStay
<1>10. TableSeen(y)' /\ \A j : InTable(j)' <=> InTable(j)
  BY <1>7, TableSeenStays
<1>11. \A j \in Items : refs'[j] = IF j = i THEN {t} ELSE refs[j]
  BY <1>1 DEF StateOK
<1>12. RefsHeld(y)'
  <2>1. \A u \in Threads, j \in Items : Ref(j) \in x[u] <=> u \in refs[j]
    BY DEF Fits, RefsHeld
  <2>2. \A u \in Threads, j \in Items : Ref(j) \in y[u] <=> u \in refs'[j]
    BY <1>2, <1>8, <1>11, <2>1
  <2> QED BY <2>2 DEF RefsHeld
<1>13. PushesLeft(y)'
  <2>1. "queue" \notin {t}
    BY DEF Threads
  <2>2. ASSUME NEW u \in Threads, NEW j \in Items, Unpushed(j) \in y[u]
        PROVE  /\ Ref(j) \in y[u] /\ "queue" \notin refs'[j]
               /\ \A v \in Threads : Unpushed(j) \in y[v] => v = u
    <3>1. CASE j = i
      BY <1>3, <1>8, <1>11, <2>1, <2>2, <3>1
    <3>2. CASE j # i
      BY <1>8, <1>11, <2>2, <3>2 DEF Fits, PushesLeft
    <3> QED BY <3>1, <3>2
  <2> QED BY <2>2 DEF PushesLeft
<1>14. Destroyed(y)'
  <2>1. \A u \in Threads, j \in Items : Dying(j) \in y[u] \/ Gone(j) \in y[u] => j # i
    BY <1>3, <1>7
  <2> QED BY <1>1, <1>7, <1>10, <1>11, <2>1 DEF Fits, Destroyed
<1>15. FrontHeld(y)'
  BY <1>7 DEF Fits, FrontHeld
<1>16. StateOK'
  <2>1. refs' \in [Items -> SUBSET (Threads \cup {"queue"})]
    BY <1>1 DEF StateOK
  <2> QED BY <2>1 DEF StateOK
<1>17. ItemsExist'
  BY <1>1, <1>10, <1>11 DEF ItemsExist
<1>18. Queued'
  <2>1. \A n \in 1 .. Len(fifo) : fifo[n] \in Items /\ fifo[n] # i
    BY <1>2 DEF Queued, StateOK
  <2> QED BY <1>11, <2>1 DEF Queued
<1> QED BY <1>5, <1>9, <1>10, <1>12, <1>13, <1>14, <1>15, <1>16, <1>17, <1>18 DEF LockInv, Fits, Haves

LEMMA ServeInv == ASSUME LockInv, NEW t \in Threads, Serve(t) PROVE LockInv'
<1> DEFINE kd == IF Now(t).on = "REQUEST" THEN "upload" ELSE "download"
<1>1. ~Idle(t) /\ Now(t).op = "serve" /\ Now(t).op \notin Changing
      /\ UNCHANGED <<holder, table, armed, fifo>>
  BY DEF Serve, Due, Changing
<1>2. CASE Busy(kd)
  <2>1. GoOn(t, <<>>) /\ UNCHANGED <<refs, exists>>
    BY <1>2 DEF Serve
  <2>2. armed' \subseteq Items \cup {NoItem}
    BY <1>1 DEF LockInv, StateOK
  <2> QED BY <1>1, <2>1, <2>2, StepOnly, SameInv
<1>3. CASE ~Busy(kd)
  <2>1. PICK i \in Items : Fresh(t, i, kd) /\ GoOn(t, NewItem(i))
    BY <1>3 DEF Serve
  <2>2. PICK x : Fits(x)
    BY DEF LockInv
  <2>3. StateOK /\ ItemsExist /\ Queued
    BY DEF LockInv
  <2>4. Ordered(t, Now(t), x[t]) /\ x[t] \in SUBSET Things
    BY <1>1, <2>2, <2>3, Standing
  <2>5. t = "receive" /\ NoItemHeld(x[t]) /\ After(Now(t), x[t]) = x[t]
    BY <1>1, <2>4, StepOnly DEF Ordered
  <2>6. Ref(i) \notin x[t] /\ Unpushed(i) \notin x[t]
    <3>1. refs[i] = {}
      BY <2>1, <2>3 DEF Fresh, ItemsExist
    <3>2. Ref(i) \notin x[t]
      BY <2>2, <3>1 DEF Fits, RefsHeld
    <3> QED BY <2>2, <3>2 DEF Fits, PushesLeft
  <2>7. PICK h, y : h = x[t] \cup {Ref(i), Unpushed(i)} /\ y = [x EXCEPT ![t] = h]
    OBVIOUS
  <2>8. h \in SUBSET Things /\ Runs(t, NewItem(i), h, After(Now(t), x[t]))
    <3>1. h \in SUBSET Things
      BY <2>4, <2>7, RightsApart DEF Things
    <3>2. Runs(t, NewItem(i), h, x[t])
      BY <2>4, <2>5, <2>6, <2>7, NewItemRuns
    <3> QED BY <2>5, <3>1, <3>2
  <2>9. GoesOn(y)' /\ todo' \in [Threads -> Seq(StepSet)]
    BY <1>1, <2>1, <2>2, <2>3, <2>7, <2>8, SequelGoesOn
  <2> HIDE DEF kd
  <2> QED BY <1>1, <2>1, <2>2, <2>3, <2>7, <2>9, FreshInv
<1> QED BY <1>2, <1>3
-----------------------------------------------------------------------------
(***************************************************************************)
(* A thread begins an operation.                                           *)
(***************************************************************************)
\* A thread with nothing to do has nothing but what it once saw.
LEMMA IdleHas ==
  ASSUME NEW x, Fits(x), NEW t \in Threads, Idle(t)
  PROVE  /\ x[t] \in SUBSET Seens /\ x[t] \in SUBSET Things
         /\ x[t] \cap Mutexes = {} /\ NoItemHeld(x[t])
         /\ \A j \in Items : {Ref(j), Unpushed(j), Dying(j), Gone(j), AtFront(j)} \cap x[t] = {}
<1>1. PICK k \in SUBSET Seens : Runs(t, <<>>, x[t], k)
  BY DEF Fits, GoesOn, Idle
<1>2. x[t] \in SUBSET Seens
  BY <1>1, NothingLeft
<1>3. \A r \in Seens : r \in Things /\ r \notin Mutexes
  BY RightsApart DEF Seens, Things
<1>4. \A j \in Items : {Ref(j), Unpushed(j), Dying(j), Gone(j), AtFront(j)} \cap Seens = {}
  BY Apart DEF Seens
<1>5. x[t] \in SUBSET Things /\ x[t] \cap Mutexes = {}
  BY <1>2, <1>3
<1>6. NoItemHeld(x[t])
  BY <1>5, NoneAbove
<1> QED BY <1>2, <1>4, <1>5, <1>6

\* An operation that needs at most that there is a front, or a message.
LEMMA BeginInv ==
  ASSUME LockInv, NEW t \in Threads, NEW steps, Begin(t, steps), NEW h \in SUBSET {Look, Turn},
         Look \in h => t = "system" /\ fifo # <<>>, Runs(t, steps, h, {}),
         UNCHANGED <<holder, table, armed, fifo, refs, exists>>
  PROVE  LockInv'
<1>1. PICK x : Fits(x)
  BY DEF LockInv
<1>2. StateOK /\ ItemsExist /\ Queued
  BY DEF LockInv
<1>3. Idle(t) /\ todo' = [todo EXCEPT ![t] = steps]
  BY DEF Begin
<1>4. h \in SUBSET Things /\ {} \in SUBSET Seens /\ x \in [Threads -> SUBSET Things] /\ GoesOn(x)
  BY <1>1, RightsApart DEF Things, Fits
<1>5. PICK y : y = [x EXCEPT ![t] = h]
  OBVIOUS
<1>6. GoesOn(y)' /\ todo' \in [Threads -> Seq(StepSet)]
  <2>1. GoesOn([x EXCEPT ![t] = h])' /\ todo' \in [Threads -> Seq(StepSet)]
    BY <1>2, <1>3, <1>4, GoesOnWith
  <2>2. GoesOn(y)'
    BY <1>5, <2>1 DEF GoesOn
  <2> QED BY <2>1, <2>2
<1>7. y \in Haves /\ y[t] = h /\ \A u \in Threads \ {t} : y[u] = x[u]
  BY <1>4, <1>5 DEF Haves
<1>8. /\ x[t] \cap Mutexes = {} /\ NoItemHeld(x[t])
      /\ \A j \in Items : {Ref(j), Unpushed(j), Dying(j), Gone(j), AtFront(j)} \cap x[t] = {}
  BY <1>1, <1>3, IdleHas
<1>9. /\ h \cap Mutexes = {}
      /\ \A j \in Items : {Ref(j), Unpushed(j), Dying(j), Gone(j), AtFront(j), Seen(j)} \cap h = {}
  <2>1. h \cap Mutexes = {}
    BY RightsApart
  <2>2. \A j \in Items : {Look, Turn} \cap {Ref(j), Unpushed(j), Dying(j), Gone(j), AtFront(j), Seen(j)} = {}
    BY Apart
  <2> QED BY <2>1, <2>2
<1>10. /\ \A u \in Threads, m \in Mutexes : m \in y[u] <=> m \in x[u]
       /\ \A u \in Threads, j \in Items :
            /\ Ref(j) \in y[u] <=> Ref(j) \in x[u]
            /\ Unpushed(j) \in y[u] <=> Unpushed(j) \in x[u]
            /\ Dying(j) \in y[u] <=> Dying(j) \in x[u]
            /\ Gone(j) \in y[u] <=> Gone(j) \in x[u]
            /\ AtFront(j) \in y[u] <=> AtFront(j) \in x[u]
  BY <1>7, <1>8, <1>9
<1>11. MutexesHeld(y)' /\ ItemsKept(y)'
  BY <1>1, <1>7, <1>8, <1>10, MutexesStay
<1>12. \A j : InTable(j)' <=> InTable(j)
  BY DEF InTable
<1>13. RefsHeld(y)' /\ PushesLeft(y)' /\ Destroyed(y)'
  BY <1>1, <1>10, <1>12 DEF Fits, RefsHeld, PushesLeft, Destroyed
<1>14. FrontHeld(y)'
  <2>1. ASSUME NEW u \in Threads, Look \in y[u] PROVE u = "system" /\ fifo # <<>>
    BY <1>1, <1>7, <2>1 DEF Fits, FrontHeld
  <2>2. ASSUME NEW u \in Threads, NEW j \in Items, AtFront(j) \in y[u]
        PROVE  u = "system" /\ fifo # <<>> /\ Head(fifo) = j /\ Look \notin y[u]
    <3>1. u # t /\ y[u] = x[u]
      BY <1>7, <1>9, <2>2
    <3> QED BY <1>1, <2>2, <3>1 DEF Fits, FrontHeld
  <2> QED BY <2>1, <2>2 DEF FrontHeld
<1>15. TableSeen(y)'
  <2>1. ASSUME NEW u \in Threads, NEW j \in Items, Seen(j) \in y[u]
        PROVE  Turn \notin y[u] /\ (Of("table") \in y[u] => InTable(j))
    <3>1. u # t /\ y[u] = x[u]
      BY <1>7, <1>9, <2>1
    <3> QED BY <1>1, <2>1, <3>1 DEF Fits, TableSeen
  <2> QED BY <1>12, <2>1 DEF TableSeen
<1>16. StateOK' /\ ItemsExist' /\ Queued'
  BY <1>2, <1>6, <1>12 DEF StateOK, ItemsExist, Queued
<1> QED BY <1>6, <1>7, <1>11, <1>13, <1>14, <1>15, <1>16 DEF LockInv, Fits, Haves
-----------------------------------------------------------------------------
LEMMA DownloadInv == ASSUME LockInv, Download PROVE LockInv'
<1>1. PICK i \in Items : Fresh("user", i, "download") /\ Begin("user", NewItem(i))
  BY DEF Download
<1>2. UNCHANGED <<holder, table, armed, fifo>>
  BY DEF Download
<1>3. PICK x : Fits(x)
  BY DEF LockInv
<1>4. StateOK /\ ItemsExist /\ Queued /\ "user" \in Threads
  BY DEF LockInv, Threads
<1>5. PICK t : t = "user"
  OBVIOUS
<1>6. Idle(t) /\ todo' = [todo EXCEPT ![t] = NewItem(i)]
  BY <1>1, <1>5 DEF Begin
<1>7. /\ x[t] \in SUBSET Seens /\ x[t] \in SUBSET Things
      /\ x[t] \cap Mutexes = {} /\ NoItemHeld(x[t])
      /\ Ref(i) \notin x[t] /\ Unpushed(i) \notin x[t]
  BY <1>3, <1>4, <1>5, <1>6, IdleHas
<1>8. PICK h, y : h = x[t] \cup {Ref(i), Unpushed(i)} /\ y = [x EXCEPT ![t] = h]
  OBVIOUS
<1>9. h \in SUBSET Things
  BY <1>7, <1>8, RightsApart DEF Things
<1>10. Runs(t, NewItem(i), h, x[t])
  BY <1>7, <1>8, NewItemRuns
<1>11. GoesOn(y)' /\ todo' \in [Threads -> Seq(StepSet)]
  <2>1. x \in [Threads -> SUBSET Things] /\ GoesOn(x)
    BY <1>3 DEF Fits
  <2>2. GoesOn([x EXCEPT ![t] = h])' /\ todo' \in [Threads -> Seq(StepSet)]
    BY <1>4, <1>5, <1>6, <1>7, <1>9, <1>10, <2>1, GoesOnWith
  <2>3. GoesOn(y)'
    BY <1>8, <2>2 DEF GoesOn
  <2> QED BY <2>2, <2>3
<1> QED BY <1>1, <1>2, <1>3, <1>4, <1>5, <1>8, <1>11, FreshInv

\* lock() of a weak_ptr: another pointer to an item that someone has.
LEMMA CancelInv == ASSUME LockInv, Cancel PROVE LockInv'
<1>1. PICK i \in Items : /\ Alive(i) /\ refs' = [refs EXCEPT ![i] = @ \cup {"user"}]
                         /\ Begin("user", Cancels(i))
  BY DEF Cancel
<1>2. UNCHANGED <<holder, table, armed, fifo, exists>>
  BY DEF Cancel
<1>3. PICK x : Fits(x)
  BY DEF LockInv
<1>4. StateOK /\ ItemsExist /\ Queued
  BY DEF LockInv
<1>5. PICK t \in Threads : t = "user"
  BY DEF Threads
<1>6. Idle(t) /\ todo' = [todo EXCEPT ![t] = Cancels(i)]
  BY <1>1, <1>5 DEF Begin
<1>7. /\ x[t] \in SUBSET Seens /\ x[t] \in SUBSET Things
      /\ x[t] \cap Mutexes = {} /\ NoItemHeld(x[t])
      /\ Ref(i) \notin x[t] /\ Unpushed(i) \notin x[t]
  BY <1>3, <1>6, IdleHas
<1>8. PICK h, y : h = x[t] \cup {Ref(i)} /\ y = [x EXCEPT ![t] = h]
  OBVIOUS
<1>9. h \in SUBSET Things /\ x \in [Threads -> SUBSET Things] /\ GoesOn(x)
  BY <1>3, <1>7, <1>8, RightsApart DEF Things, Fits
<1>10. Runs(t, Cancels(i), h, x[t])
  <2>1. h \cap Mutexes = {}
    BY <1>7, <1>8, RightsApart
  <2>2. ItemNext(t, h, i)
    BY <1>8, <1>9, <2>1, NoneAbove DEF ItemNext, Keeps
  <2>3. Ref(i) \in h /\ Unpushed(i) \notin h /\ h \ {Ref(i)} = x[t]
    BY <1>7, <1>8, Apart
  <2>4. Runs(t, Cancels(i), h, h \ {Ref(i)})
    BY <1>9, <2>2, <2>3, HandlersRun
  <2> QED BY <2>3, <2>4
<1>11. GoesOn(y)' /\ todo' \in [Threads -> Seq(StepSet)]
  <2>1. GoesOn([x EXCEPT ![t] = h])' /\ todo' \in [Threads -> Seq(StepSet)]
    BY <1>4, <1>6, <1>7, <1>9, <1>10, GoesOnWith
  <2>2. GoesOn(y)'
    BY <1>8, <2>1 DEF GoesOn
  <2> QED BY <2>1, <2>2
<1>12. y \in Haves /\ y[t] = h /\ \A u \in Threads \ {t} : y[u] = x[u]
  BY <1>8, <1>9 DEF Haves
<1>13. \A r : r # Ref(i) => \A u \in Threads : r \in y[u] <=> r \in x[u]
  BY <1>8, <1>12
<1>14. /\ \A u \in Threads, m \in Mutexes : m \in y[u] <=> m \in x[u]
       /\ \A u \in Threads, j \in Items : Unpushed(j) \in y[u] <=> Unpushed(j) \in x[u]
       /\ \A u \in Threads, j \in Items : Dying(j) \in y[u] <=> Dying(j) \in x[u]
       /\ \A u \in Threads, j \in Items : Gone(j) \in y[u] <=> Gone(j) \in x[u]
       /\ \A u \in Threads, j \in Items : AtFront(j) \in y[u] <=> AtFront(j) \in x[u]
       /\ \A u \in Threads, j \in Items : Seen(j) \in y[u] <=> Seen(j) \in x[u]
       /\ \A u \in Threads : Turn \in y[u] <=> Turn \in x[u]
       /\ \A u \in Threads : Look \in y[u] <=> Look \in x[u]
  <2>1. \A m \in Mutexes : m # Ref(i)
    BY RightsApart
  <2>2. \A j \in Items : Ref(i) \notin {Unpushed(j), Dying(j), Gone(j), AtFront(j), Seen(j)}
    BY Apart
  <2>3. Ref(i) # Turn /\ Ref(i) # Look
    BY Apart
  <2> QED BY <1>13, <2>1, <2>2, <2>3
<1>15. \A u \in Threads, j \in Items : Ref(j) \in y[u] <=> Ref(j) \in x[u] \/ (u = t /\ j = i)
  <2>1. \A j \in Items : Ref(j) = Ref(i) => j = i
    BY Apart
  <2> QED BY <1>8, <1>12, <2>1
<1>16. MutexesHeld(y)' /\ ItemsKept(y)'
  BY <1>2, <1>3, <1>7, <1>12, <1>14, MutexesStay
<1>17. TableSeen(y)' /\ \A j : InTable(j)' <=> InTable(j)
  BY <1>2, <1>3, <1>14, TableSeenStays
<1>18. \A j \in Items : refs'[j] = IF j = i THEN refs[j] \cup {t} ELSE refs[j]
  BY <1>1, <1>4, <1>5 DEF StateOK
<1>19. RefsHeld(y)'
  <2>1. \A u \in Threads, j \in Items : Ref(j) \in x[u] <=> u \in refs[j]
    BY <1>3 DEF Fits, RefsHeld
  <2>2. \A u \in Threads, j \in Items : Ref(j) \in y[u] <=> u \in refs'[j]
    BY <1>15, <1>18, <2>1
  <2> QED BY <2>2 DEF RefsHeld
<1>20. PushesLeft(y)'
  <2>1. "queue" # t
    BY DEF Threads
  <2>2. ASSUME NEW u \in Threads, NEW j \in Items, Unpushed(j) \in y[u]
        PROVE  /\ Ref(j) \in y[u] /\ "queue" \notin refs'[j]
               /\ \A v \in Threads : Unpushed(j) \in y[v] => v = u
    <3>1. Unpushed(j) \in x[u]
      BY <1>14, <2>2
    <3>2. /\ Ref(j) \in x[u] /\ "queue" \notin refs[j]
          /\ \A v \in Threads : Unpushed(j) \in x[v] => v = u
      BY <1>3, <3>1 DEF Fits, PushesLeft
    <3> QED BY <1>14, <1>15, <1>18, <2>1, <3>2
  <2> QED BY <2>2 DEF PushesLeft
<1>21. Destroyed(y)'
  <2>1. \A u \in Threads : Dying(i) \notin x[u] /\ Gone(i) \notin x[u]
    BY <1>1, <1>3 DEF Alive, Fits, Destroyed
  <2>2. ASSUME NEW u \in Threads, NEW j \in Items, Dying(j) \in y[u] \/ Gone(j) \in y[u]
        PROVE  /\ j \in exists' /\ refs'[j] = {}
               /\ \A v \in Threads : Dying(j) \in y[v] \/ Gone(j) \in y[v] => v = u
               /\ Gone(j) \in y[u] => ~InTable(j)' /\ Dying(j) \notin y[u]
    <3>1. Dying(j) \in x[u] \/ Gone(j) \in x[u]
      BY <1>14, <2>2
    <3>2. /\ j \in exists /\ refs[j] = {}
          /\ \A v \in Threads : Dying(j) \in x[v] \/ Gone(j) \in x[v] => v = u
          /\ Gone(j) \in x[u] => ~InTable(j) /\ Dying(j) \notin x[u]
      BY <1>3, <3>1 DEF Fits, Destroyed
    <3>3. j # i
      BY <2>1, <3>1
    <3>4. refs'[j] = {} /\ j \in exists'
      BY <1>2, <1>18, <3>2, <3>3
    <3> QED BY <1>14, <1>17, <3>2, <3>4
  <2> QED BY <2>2 DEF Destroyed
<1>22. FrontHeld(y)'
  BY <1>2, <1>3, <1>14 DEF Fits, FrontHeld
<1>23. StateOK'
  <2>1. refs' \in [Items -> SUBSET (Threads \cup {"queue"})]
    BY <1>1, <1>4, <1>5 DEF StateOK
  <2> QED BY <1>2, <1>4, <1>11, <2>1 DEF StateOK
<1>24. ItemsExist'
  BY <1>1, <1>2, <1>4, <1>17, <1>18 DEF ItemsExist, Alive
<1>25. Queued'
  <2>1. \A n \in 1 .. Len(fifo) : fifo[n] \in Items
    BY <1>4 DEF StateOK
  <2> QED BY <1>2, <1>4, <1>18, <2>1 DEF Queued
<1> QED BY <1>11, <1>12, <1>16, <1>17, <1>19, <1>20, <1>21, <1>22, <1>23, <1>24, <1>25
        DEF LockInv, Fits, Haves

LEMMA ThreadsInv ==
  ASSUME LockInv, ReceiveThread \/ WorkThread \/ SystemThread \/ UserThread
  PROVE  LockInv'
<1>1. {} \in SUBSET {Look, Turn} /\ {Look} \in SUBSET {Look, Turn} /\ {Turn} \in SUBSET {Look, Turn}
      /\ Look # Turn /\ {"receive", "work", "system", "user"} \subseteq Threads
  BY RightsApart DEF Threads
<1>2. CASE ReceiveThread
  <2>1. PICK message \in ItemMessages \cup PluginMessages \cup {"HEARTBEAT"} :
          Begin("receive", Receive(message))
    BY <1>2 DEF ReceiveThread
  <2>2. message \in MessageNames
    BY DEF ItemMessages, PluginMessages, MessageNames
  <2>3. Runs("receive", Receive(message), {Turn}, {})
    BY <2>2, ReceiveRuns
  <2>4. UNCHANGED <<holder, table, armed, fifo, refs, exists>>
    BY <1>2 DEF ReceiveThread, itemVars
  <2> QED BY <1>1, <2>1, <2>3, <2>4, BeginInv
<1>3. CASE WorkThread
  <2>1. /\ Begin("work", Locked("timeouts", Do("expire", NoItem)))
        /\ UNCHANGED <<holder, table, armed, fifo, refs, exists>>
    BY <1>3 DEF WorkThread, itemVars
  <2> QED BY <1>1, <2>1, ExpireRuns, BeginInv
<1>4. CASE SystemThread
  <2>1. /\ Begin("system", DoWork) /\ fifo # <<>>
        /\ UNCHANGED <<holder, table, armed, fifo, refs, exists>>
    BY <1>4 DEF SystemThread, itemVars
  <2> QED BY <1>1, <2>1, DoWorkRuns, BeginInv
<1>5. ASSUME NEW name, NEW steps, OtherCall(name, steps), Runs("user", steps, {}, {}) PROVE LockInv'
  <2>1. Begin("user", steps) /\ UNCHANGED <<holder, table, armed, fifo, refs, exists>>
    BY <1>5 DEF OtherCall, itemVars
  <2> QED BY <1>1, <1>5, <2>1, BeginInv
<1>6. CASE UserThread
  <2>1. CASE Download
    BY <2>1, DownloadInv
  <2>2. CASE Cancel
    BY <2>2, CancelInv
  <2>3. CASE OtherCall("subscribe_on_new_system", SubscribeOnNewSystem)
    BY <1>5, <2>3, CallsRun
  <2>4. CASE OtherCall("register_plugin", RegisterPlugin)
    BY <1>5, <2>4, CallsRun
  <2>5. CASE OtherCall("unregister_plugin", UnregisterPlugin)
    BY <1>5, <2>5, CallsRun
  <2> QED BY <1>6, <2>1, <2>2, <2>3, <2>4, <2>5 DEF UserThread
<1> QED BY <1>2, <1>3, <1>4, <1>6

LEMMA PerformInv == ASSUME LockInv, NEW t \in Threads, Perform(t) PROVE LockInv'
  BY LockStepInv, UnlockInv, LockAndUnlockInv, ChangeTableInv, ChangeTimersInv, ExpireInv,
     PushInv, GetFrontInv, AskStartedInv, AskDoneInv, FinishInv, DropInv, FreeInv,
     DispatchInv, HandleInv, ServeInv, ConnectInv DEF Perform

LEMMA LockNext == ASSUME LockInv, [Next]_vars PROVE LockInv'
<1>1. CASE ReceiveThread \/ WorkThread \/ SystemThread \/ UserThread
  BY <1>1, ThreadsInv
<1>2. CASE \E t \in Threads : Perform(t)
  BY <1>2, PerformInv
<1>3. CASE UNCHANGED vars
  <2>1. UNCHANGED <<todo, holder, table, armed, fifo, refs, exists>>
    BY <1>3 DEF vars, itemVars
  <2>2. StateOK' /\ ItemsExist' /\ Queued'
    BY <2>1 DEF LockInv, StateOK, ItemsExist, Queued, InTable
  <2>3. PICK x : Fits(x)
    BY DEF LockInv
  <2>4. \A u \in Threads, r \in Rights : r \in x[u] <=> r \in x[u]
    OBVIOUS
  <2>5. MutexesHeld(x)' /\ ItemsKept(x)' /\ TableSeen(x)' /\ GoesOn(x)'
    BY <2>1, <2>3 DEF Fits, MutexesHeld, ItemsKept, TableSeen, GoesOn, InTable
  <2>6. RefsHeld(x)' /\ PushesLeft(x)' /\ Destroyed(x)' /\ FrontHeld(x)'
    BY <2>1, <2>3 DEF Fits, RefsHeld, PushesLeft, Destroyed, FrontHeld, InTable
  <2>7. x \in [Threads -> SUBSET Things]
    BY <2>3 DEF Fits
  <2> QED BY <2>2, <2>5, <2>6, <2>7 DEF LockInv, Fits
<1> QED BY <1>1, <1>2, <1>3 DEF Next

LEMMA LockInit == ASSUME Init PROVE LockInv
<1>1. PICK x : x = [t \in Threads |-> {}]
  OBVIOUS
<1>2. \A t \in Threads : x[t] = {} /\ todo[t] = <<>>
  BY <1>1 DEF Init
<1>3. \A i : ~InTable(i)
  BY DEF Init, InTable
<1>4. x \in [Threads -> SUBSET Things] /\ {} \in SUBSET Seens /\ {} \in SUBSET Things
  BY <1>1
<1>5. MutexesHeld(x)
  <2>1. \A t \in Threads, m \in Mutexes : holder[m] # t
    BY DEF Init, Threads, Nobody
  <2> QED BY <1>2, <2>1 DEF MutexesHeld
<1>6. RefsHeld(x)
  BY <1>2 DEF Init, RefsHeld
<1>7. PushesLeft(x) /\ Destroyed(x) /\ FrontHeld(x) /\ TableSeen(x) /\ ItemsKept(x)
  BY <1>2 DEF PushesLeft, Destroyed, FrontHeld, TableSeen, ItemsKept
<1>8. GoesOn(x)
  BY <1>2, <1>4, RunsEmpty DEF GoesOn
<1>9. StateOK
  BY DEF Init, StateOK
<1>10. ItemsExist /\ Queued
  BY <1>3 DEF Init, ItemsExist, Queued
<1> QED BY <1>4, <1>5, <1>6, <1>7, <1>8, <1>9, <1>10 DEF LockInv, Fits

(***************************************************************************)
(* Every thread finds what its steps need: it releases only mutexes it     *)
(* holds, takes those of its turn, destroys an item once and frees it with *)
(* no handler left in the table, and is left with nothing in the end.      *)
(***************************************************************************)
THEOREM LocksInOrder == Spec => []LockInv
<1>1. Init => LockInv
  BY LockInit
<1>2. LockInv /\ [Next]_vars => LockInv'
  BY LockNext
<1> QED BY <1>1, <1>2, PTL DEF Spec
-----------------------------------------------------------------------------
(***************************************************************************)
(* What follows.                                                           *)
(***************************************************************************)
\* What a thread other than the receive thread waits for is above what it has.
LEMMA WaitsAbove ==
  ASSUME LockInv, NEW x, Fits(x), NEW t \in Threads, Waits(t)
  PROVE  /\ Mutex(Now(t)) \in Mutexes
         /\ \A u \in Threads : holder[Mutex(Now(t))] = u => Mutex(Now(t)) \in x[u]
         /\ t # "receive" => \A m \in x[t] : Rank(m) < Rank(Mutex(Now(t)))
<1>1. ~Idle(t) /\ Now(t).op \in Takes /\ StateOK
  BY DEF Waits, LockInv
<1>2. Ordered(t, Now(t), x[t])
  BY <1>1, Standing
<1>3. Mutex(Now(t)) \in Mutexes /\ Above(t, x[t], Rank(Mutex(Now(t))))
  BY <1>1, <1>2 DEF Ordered
<1> QED BY <1>3 DEF Fits, MutexesHeld, Above

LEMMA NoCircle == ASSUME LockInv PROVE ReceiverInEveryDeadlock
<1> SUFFICES ASSUME NEW T \in SUBSET Threads, Deadlocked(T), "receive" \notin T PROVE FALSE
  BY DEF ReceiverInEveryDeadlock
<1>1. PICK x : Fits(x)
  BY DEF LockInv
<1>2. T # {} /\ \A t \in T : t \in Threads /\ t # "receive" /\ Waits(t) /\ holder[Mutex(Now(t))] \in T
  BY DEF Deadlocked
<1>3. ASSUME NEW t \in T
      PROVE  /\ Rank(Mutex(Now(t))) \in 1 .. 3
             /\ \E u \in T : Rank(Mutex(Now(t))) < Rank(Mutex(Now(u)))
  <2>1. PICK u \in T : holder[Mutex(Now(t))] = u
    BY <1>2
  <2>2. Mutex(Now(t)) \in Mutexes /\ Mutex(Now(t)) \in x[u]
    BY <1>1, <1>2, <2>1, WaitsAbove
  <2>3. \A m \in x[u] : Rank(m) < Rank(Mutex(Now(u)))
    BY <1>1, <1>2, WaitsAbove
  <2> QED BY <2>2, <2>3, RanksOfMutexes
<1> DEFINE R(t) == Rank(Mutex(Now(t)))
<1>4. \A t \in T : R(t) \in 1 .. 3 /\ \E u \in T : R(t) < R(u)
  BY <1>3
<1> HIDE DEF R
<1>5. PICK a \in T : TRUE
  BY <1>2
<1>6. PICK b \in T : R(a) < R(b)
  BY <1>4
<1>7. PICK c \in T : R(b) < R(c)
  BY <1>4
<1>8. PICK d \in T : R(c) < R(d)
  BY <1>4
<1>9. R(a) \in 1 .. 3 /\ R(b) \in 1 .. 3 /\ R(c) \in 1 .. 3 /\ R(d) \in 1 .. 3
  BY <1>4
<1> QED BY <1>6, <1>7, <1>8, <1>9

LEMMA KeptExists ==
  ASSUME LockInv, NEW x, Fits(x), NEW t \in Threads, NEW i \in Items, Keeps(x[t], i)
  PROVE  i \in exists
<1>1. CASE Ref(i) \in x[t]
  <2>1. refs[i] # {}
    BY <1>1 DEF Fits, RefsHeld
  <2> QED BY <2>1 DEF LockInv, ItemsExist
<1>2. CASE Dying(i) \in x[t] \/ Gone(i) \in x[t]
  BY <1>2 DEF Fits, Destroyed
<1>3. CASE Seen(i) \in x[t] /\ Of("table") \in x[t]
  <2>1. InTable(i)
    BY <1>3 DEF Fits, TableSeen
  <2> QED BY <2>1 DEF LockInv, ItemsExist
<1> QED BY <1>1, <1>2, <1>3 DEF Keeps

LEMMA ItemsLive == ASSUME LockInv PROVE HandlersOfLiveItems
<1> SUFFICES ASSUME NEW t \in Threads \ {"work"}, NEW i \in Items,
                    (Waits(t) /\ Mutex(Now(t)) = <<"item", i>>) \/ holder[<<"item", i>>] = t
             PROVE  i \in exists
  BY DEF HandlersOfLiveItems
<1>1. PICK x : Fits(x)
  BY DEF LockInv
<1>2. CASE holder[<<"item", i>>] = t
  <2>1. ItemMutex(i) \in x[t]
    BY <1>1, <1>2, MutexesNamed DEF ItemMutex, Fits, MutexesHeld
  <2>2. Keeps(x[t], i)
    BY <1>1, <2>1 DEF Fits, ItemsKept
  <2> QED BY <1>1, <2>2, KeptExists
<1>3. CASE Waits(t) /\ Mutex(Now(t)) = <<"item", i>>
  <2>1. ~Idle(t) /\ Now(t).op \in Takes /\ StateOK
    BY <1>3 DEF Waits, LockInv
  <2>2. Ordered(t, Now(t), x[t])
    BY <1>1, <2>1, Standing
  <2>3. Now(t).op \notin {"arm", "disarm", "register", "unregister", "push"}
    BY <1>3 DEF Mutex
  <2>4. CASE Now(t).op \in {"started?", "done?"}
    <3>1. Now(t).item = i
      BY <1>3, <2>4 DEF Mutex
    <3>2. Ref(i) \in x[t]
      BY <2>2, <2>4, <3>1 DEF Ordered
    <3> QED BY <1>1, <3>2, KeptExists DEF Keeps
  <2>5. CASE Now(t).op \in {"lock", "pass"}
    <3>1. Now(t).on = "item" /\ Now(t).item = i
      BY <1>3, <2>5 DEF Mutex
    <3>2. Keeps(x[t], i)
      BY <2>2, <2>5, <3>1 DEF Ordered
    <3> QED BY <1>1, <3>2, KeptExists
  <2> QED BY <2>1, <2>3, <2>4, <2>5 DEF Takes
<1> QED BY <1>2, <1>3

(***************************************************************************)
(* The work thread, the system thread and the user's thread never wait for *)
(* each other in a circle, however many items there are: each of them      *)
(* takes mutexes only in the order of their ranks.                         *)
(***************************************************************************)
THEOREM ReceiverAlwaysInDeadlock == Spec => []ReceiverInEveryDeadlock
<1>1. LockInv => ReceiverInEveryDeadlock
  BY NoCircle
<1> QED BY <1>1, LocksInOrder, PTL

(***************************************************************************)
(* No thread but the work thread waits for the mutex of an item, or holds  *)
(* it, after the item is freed: it has a pointer to the item, destroys it, *)
(* or found it in the table, which it keeps locked.                        *)
(***************************************************************************)
THEOREM ItemsOutliveHandlers == Spec => []HandlersOfLiveItems
<1>1. LockInv => HandlersOfLiveItems
  BY ItemsLive
<1> QED BY <1>1, LocksInOrder, PTL
=============================================================================
