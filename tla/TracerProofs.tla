---------------------------- MODULE TracerProofs ----------------------------
(***************************************************************************)
(* Theorems about Tracer, for any threads, instructions and signals: types *)
(* and owners, the exactness of the numbers that analyses give out, the    *)
(* clean start of a thread, and that what is recorded for an instruction   *)
(* is its own unless an instruction of another thread overlaps it.         *)
(***************************************************************************)
EXTENDS Tracer, SequenceTheorems, TLAPS

-----------------------------------------------------------------------------
(* What a thread has yet to do: steps that are none of the numbering, then *)
(* nothing, the numbering of an analysis, or that of a signal, unless it   *)
(* is within a numbering.                                                  *)

Neutral == {"lockData", "recordRegState", "unlockData", "initialized", "construct",
            "checkMemRead", "resetSrcRegs", "pushSrcReg", "recordDestRegs",
            "recordMemWrite", "setSeen", "analyzeRegs", "analyzeMemWrites",
            "populateReads", "resetHolders"}
Steps == Neutral \cup {"lockTrace", "takeEventId", "nextEventId", "nextInstId", "unlockTrace"}

Numbers == <<"lockTrace", "takeEventId", "nextEventId", "nextInstId", "unlockTrace">>
Numbers4 == <<"takeEventId", "nextEventId", "nextInstId", "unlockTrace">>
Numbers3 == <<"nextEventId", "nextInstId", "unlockTrace">>
Numbers2 == <<"nextInstId", "unlockTrace">>
Exception2 == <<"nextEventId", "unlockTrace">>
Unlock == <<"unlockTrace">>

Critical == {Numbers4, Numbers3, Numbers2, Exception2, Unlock}
Ends == {<< >>, Numbers, Exception}
Waiting(s) == \E l \in Seq(Neutral), r \in Ends : s = l \o r

LEMMA Tails ==
    /\ Tail(Numbers) = Numbers4 /\ Tail(Numbers4) = Numbers3 /\ Tail(Numbers3) = Numbers2
    /\ Tail(Numbers2) = Unlock /\ Tail(Unlock) = << >>
    /\ Tail(Exception) = Exception2 /\ Tail(Exception2) = Unlock
BY DEF Numbers, Numbers4, Numbers3, Numbers2, Unlock, Exception, Exception2

LEMMA Heads ==
    /\ Head(Numbers) = "lockTrace" /\ Head(Exception) = "lockTrace"
    /\ Head(Numbers4) = "takeEventId" /\ Head(Numbers3) = "nextEventId"
    /\ Head(Exception2) = "nextEventId" /\ Head(Numbers2) = "nextInstId"
    /\ Head(Unlock) = "unlockTrace"
    /\ \A s \in Critical \cup {Numbers, Exception} : s # << >> /\ s \in Seq(Steps)
BY DEF Critical, Numbers, Numbers4, Numbers3, Numbers2, Unlock, Exception, Exception2, Steps

LEMMA TheyDiffer ==
    /\ Numbers3 # Exception2 /\ Numbers4 # Numbers3 /\ Numbers4 # Exception2
<1>1. Len(Numbers3) = 3 /\ Len(Exception2) = 2 /\ Len(Numbers4) = 4
  BY DEF Numbers3, Exception2, Numbers4
<1> QED
  BY <1>1

LEMMA EndsType == Ends \subseteq Seq(Steps) /\ Seq(Neutral) \subseteq Seq(Steps)
<1>1. << >> \in Seq(Steps) /\ Numbers \in Seq(Steps) /\ Exception \in Seq(Steps)
  BY Heads
<1>2. Neutral \subseteq Steps
  BY DEF Steps
<1>3. ASSUME NEW s \in Seq(Neutral) PROVE s \in Seq(Steps)
  BY <1>2
<1> QED
  BY <1>1, <1>3 DEF Ends

\* Taking the first step takes it from the front part.
LEMMA FrontStep ==
    ASSUME NEW S, S \subseteq Steps, NEW l \in Seq(S), l # << >>, NEW r \in Seq(Steps)
    PROVE  /\ l \o r # << >> /\ Head(l \o r) = l[1] /\ l[1] \in S
           /\ Tail(l \o r) = Tail(l) \o r /\ Tail(l) \in Seq(S)
<1> DEFINE s == l \o r
           k == Tail(l)
           u == k \o r
           v == Tail(s)
<1>1. /\ Len(l) \in Nat \ {0} /\ l[1] \in S /\ k \in Seq(S)
      /\ Len(k) = Len(l) - 1 /\ \A i \in 1 .. Len(k) : k[i] = l[i + 1]
  BY HeadTailProperties
<1>2. l \in Seq(Steps) /\ k \in Seq(Steps)
  <2>1. \A q \in Seq(S) : q \in Seq(Steps)
    OBVIOUS
  <2> QED
    BY <1>1, <2>1
<1>3. /\ s \in Seq(Steps) /\ Len(s) = Len(l) + Len(r) /\ Len(r) \in Nat
      /\ \A i \in 1 .. Len(l) + Len(r) : s[i] = IF i <= Len(l) THEN l[i] ELSE r[i - Len(l)]
  BY <1>2, ConcatProperties
<1>4. s # << >> /\ Head(s) = s[1] /\ s[1] = l[1]
  BY <1>1, <1>3
<1>5. /\ u \in Seq(Steps) /\ Len(u) = Len(k) + Len(r)
      /\ \A i \in 1 .. Len(k) + Len(r) : u[i] = IF i <= Len(k) THEN k[i] ELSE r[i - Len(k)]
  BY <1>2, ConcatProperties
<1>6. /\ v \in Seq(Steps) /\ Len(v) = Len(s) - 1
      /\ \A i \in 1 .. Len(v) : v[i] = s[i + 1]
  BY <1>3, <1>4, HeadTailProperties
<1> HIDE DEF s, u, v, k
<1>7. Len(u) = Len(v) /\ Len(v) \in Nat /\ Len(k) \in Nat
  BY <1>1, <1>3, <1>5, <1>6
<1>8. ASSUME NEW i \in 1 .. Len(v) PROVE u[i] = v[i]
  <2>1. v[i] = s[i + 1] /\ i \in 1 .. Len(k) + Len(r) /\ i + 1 \in 1 .. Len(l) + Len(r)
    BY <1>1, <1>3, <1>5, <1>6, <1>7
  <2>2. CASE i <= Len(k)
    BY <1>1, <1>3, <1>5, <2>1, <2>2
  <2>3. CASE i > Len(k)
    <3>1. (i + 1) - Len(l) = i - Len(k) /\ ~(i + 1 <= Len(l)) /\ ~(i <= Len(k))
      BY <1>1, <2>1, <2>3
    <3> QED
      BY <1>3, <1>5, <2>1, <3>1
  <2> QED
    BY <1>7, <2>2, <2>3
<1>9. u = v
  BY <1>5, <1>6, <1>7, <1>8, SeqEqual
<1> QED
  BY <1>1, <1>4, <1>9 DEF s, u, v, k

\* A thread that waits does a neutral step and waits again, or comes to the lock.
LEMMA WaitingHead ==
    ASSUME NEW s, Waiting(s)
    PROVE  /\ s \in Seq(Steps) /\ s \notin Critical
           /\ s # << >> => \/ Head(s) \in Neutral /\ Waiting(Tail(s))
                           \/ s \in {Numbers, Exception}
<1>1. PICK l \in Seq(Neutral), r \in Ends : s = l \o r
  BY DEF Waiting
<1>2. l \in Seq(Steps) /\ r \in Seq(Steps)
  BY EndsType
<1>3. s \in Seq(Steps)
  BY <1>1, <1>2, ConcatProperties
<1>4. CASE l = << >>
  <2>1. s = r
    BY <1>1, <1>2, <1>4, ConcatEmptySeq
  <2>2. s = << >> \/ (s \in {Numbers, Exception} /\ Head(s) = "lockTrace")
    BY <2>1, Heads DEF Ends
  <2>3. s \notin Critical
    BY <2>2, Heads DEF Critical
  <2> QED
    BY <1>3, <2>2, <2>3
<1>5. CASE l # << >>
  <2>1. Neutral \subseteq Steps
    BY DEF Steps
  <2>2. s # << >> /\ Head(s) \in Neutral /\ Tail(s) = Tail(l) \o r /\ Tail(l) \in Seq(Neutral)
    BY <1>1, <1>2, <1>5, <2>1, FrontStep
  <2>3. Waiting(Tail(s))
    BY <2>2 DEF Waiting
  <2>4. s \notin Critical
    BY <2>2, Heads DEF Critical, Neutral
  <2> QED
    BY <1>3, <2>2, <2>3, <2>4
<1> QED
  BY <1>4, <1>5

\* What is scheduled for an instruction, a new thread and a signal.
LEMMA NeutralConcat ==
    ASSUME NEW l \in Seq(Neutral), NEW s \in Seq(Neutral), NEW condition
    PROVE  l \o If(condition, s) \in Seq(Neutral)
BY ConcatProperties, EmptySeq DEF If

LEMMA CallbacksWait ==
    ASSUME NEW i \in Insts, NEW l \in Seq(Neutral)
    PROVE  Waiting(l \o Callbacks(i))
<1> DEFINE a == If(i.create /\ ~i.analyzed, <<"construct">>)
           b == a \o If(i.reads > 0, <<"checkMemRead", "unlockData">>)
           c == b \o If(i.reads > 1, <<"checkMemRead", "unlockData">>)
           p == <<"resetSrcRegs">> \o Times(i.srcs, "pushSrcReg")
           d == c \o If(i.srcs > 0, p)
           e == d \o If(i.dest # "none", <<"recordDestRegs">>)
           f == e \o If(i.write, <<"recordMemWrite", "lockData", "setSeen", "unlockData">>)
           n == <<"analyzeRegs", "analyzeMemWrites", "populateReads", "resetHolders">>
<1>1. Callbacks(i) = f \o If(i.analyzed, Analysis)
  BY DEF Callbacks
<1>2. /\ <<"construct">> \in Seq(Neutral) /\ <<"checkMemRead", "unlockData">> \in Seq(Neutral)
      /\ <<"recordDestRegs">> \in Seq(Neutral) /\ n \in Seq(Neutral)
      /\ <<"recordMemWrite", "lockData", "setSeen", "unlockData">> \in Seq(Neutral)
  BY DEF Neutral
<1>3. p \in Seq(Neutral)
  <2>1. i.srcs \in Nat
    BY InstsAssumption
  <2>2. Times(i.srcs, "pushSrcReg") \in Seq(Neutral)
    BY <2>1 DEF Times, Neutral
  <2>3. <<"resetSrcRegs">> \in Seq(Neutral)
    BY DEF Neutral
  <2> QED
    BY <2>2, <2>3, ConcatProperties
<1>4. a \in Seq(Neutral)
  BY <1>2, EmptySeq DEF If
<1> HIDE DEF n, p, a
<1>5. b \in Seq(Neutral)
  BY <1>2, <1>4, NeutralConcat
<1> HIDE DEF b
<1>6. c \in Seq(Neutral)
  BY <1>2, <1>5, NeutralConcat
<1> HIDE DEF c
<1>7. d \in Seq(Neutral)
  BY <1>3, <1>6, NeutralConcat
<1> HIDE DEF d
<1>8. e \in Seq(Neutral)
  BY <1>2, <1>7, NeutralConcat
<1> HIDE DEF e
<1>9. f \in Seq(Neutral)
  BY <1>2, <1>8, NeutralConcat
<1> HIDE DEF f
<1>10. l \o f \in Seq(Neutral) /\ (l \o f) \o n \in Seq(Neutral)
  BY <1>2, <1>9, ConcatProperties
<1>11. f \in Seq(Steps) /\ l \in Seq(Steps) /\ n \in Seq(Steps) /\ l \o f \in Seq(Steps)
       /\ Numbers \in Seq(Steps)
  BY <1>2, <1>9, <1>10, EndsType, Heads
<1>12. CASE ~i.analyzed
  <2>1. Callbacks(i) = f
    BY <1>1, <1>11, <1>12, ConcatEmptySeq DEF If
  <2>2. l \o f = (l \o f) \o << >> /\ << >> \in Ends
    BY <1>11, ConcatEmptySeq DEF Ends
  <2> QED
    BY <1>10, <2>1, <2>2 DEF Waiting
<1>13. CASE i.analyzed
  <2>1. Analysis = n \o Numbers
    BY DEF n, Numbers, Analysis
  <2>2. Callbacks(i) = f \o (n \o Numbers)
    BY <1>1, <1>13, <2>1 DEF If
  <2>3. l \o (f \o (n \o Numbers)) = ((l \o f) \o n) \o Numbers
    <3> DEFINE r == Numbers
    <3> HIDE DEF r
    <3>1. r \in Seq(Steps)
      BY <1>11 DEF r
    <3>2. l \o (f \o (n \o r)) = ((l \o f) \o n) \o r
      <4>1. l \in Seq(Steps) /\ f \in Seq(Steps) /\ n \in Seq(Steps)
        BY <1>11
      <4> QED
        BY <4>1, <3>1
    <3> QED
      BY <3>2 DEF r
  <2>5. Numbers \in Ends
    BY DEF Ends
  <2> QED
    BY <1>10, <2>2, <2>3, <2>5 DEF Waiting
<1> QED
  BY <1>12, <1>13

LEMMA InstWaits ==
    ASSUME NEW i \in Insts, NEW new
    PROVE  Waiting(If(new, InitThreadSteps) \o Callbacks(i))
<1>1. If(new, InitThreadSteps) \in Seq(Neutral)
  <2>1. InitThreadSteps \in Seq(Neutral)
    BY DEF InitThreadSteps, Neutral
  <2> QED
    BY <2>1, EmptySeq DEF If
<1> QED
  BY <1>1, CallbacksWait

LEMMA OthersWait == Waiting(<< >>) /\ Waiting(Exception)
<1>1. << >> \in Seq(Neutral) /\ << >> \in Ends /\ Exception \in Ends
  BY EmptySeq DEF Ends
<1>2. << >> = << >> \o << >> /\ Exception = << >> \o Exception
  BY <1>1, EndsType, ConcatEmptySeq
<1> QED
  BY <1>1, <1>2 DEF Waiting

-----------------------------------------------------------------------------
(* The numbers.  traceLock belongs to the one thread that is numbering,    *)
(* and how far it has got says how the counters stand.                     *)

Record == [of : Nat \cup {NONE}, event : Nat, inst : Nat]

Exact == /\ instId = Len(numbered) /\ eventId >= instId
         /\ \A k \in DOMAIN numbered : numbered[k].event < eventId
Taken == /\ Len(numbered) = instId + 1 /\ eventId >= instId
         /\ \A k \in DOMAIN numbered : numbered[k].event <= eventId
Named == /\ Len(numbered) = instId + 1 /\ eventId > instId
         /\ \A k \in DOMAIN numbered : numbered[k].event < eventId

Counters ==
    /\ eventId \in Nat /\ instId \in Nat /\ numbered \in Seq(Record)
    /\ traceLock \in Threads \cup {NONE}
    /\ \A j, k \in DOMAIN numbered : j < k => numbered[j].event < numbered[k].event
    /\ \A k \in DOMAIN numbered : numbered[k].inst = k - 1
    /\ traceLock = NONE => Exact

Waits == todo \in [Threads -> Seq(Steps)]
         /\ \A t \in Threads : todo[t] \in Critical \/ Waiting(todo[t])

Exclusive == \A t \in Threads : todo[t] \in Critical <=> traceLock = t

Counted ==
    \A t \in Threads : /\ todo[t] \in {Numbers4, Exception2, Unlock} => Exact
                       /\ todo[t] = Numbers3 => Taken
                       /\ todo[t] = Numbers2 => Named

Control == Counters /\ Waits /\ Exclusive /\ Counted

\* A step outside of the numbering: it leaves the counters alone, and its thread
\* then waits.
LEMMA OutsideStep ==
    ASSUME Control, NEW t \in Threads, todo[t] \notin Critical,
           NEW s, Waiting(s), todo' = [todo EXCEPT ![t] = s],
           UNCHANGED <<traceLock, eventId, instId, numbered>>
    PROVE  Control'
<1>1. s \in Seq(Steps) /\ s \notin Critical
  BY WaitingHead
<1>2. /\ todo \in [Threads -> Seq(Steps)] /\ todo' \in [Threads -> Seq(Steps)]
      /\ \A u \in Threads : todo'[u] = IF u = t THEN s ELSE todo[u]
  BY <1>1 DEF Control, Waits
<1>3. Waits'
  BY <1>2 DEF Control, Waits
<1>4. Exclusive'
  BY <1>1, <1>2 DEF Control, Exclusive
<1>5. Counted'
  BY <1>1, <1>2 DEF Control, Counted, Exact, Taken, Named, Critical
<1>6. Counters'
  BY DEF Control, Counters, Exact
<1> QED
  BY <1>3, <1>4, <1>5, <1>6 DEF Control

LEMMA NeutralStep ==
    ASSUME Control, NEW t \in Threads, todo[t] # << >>, Head(todo[t]) \in Neutral,
           Done(t), UNCHANGED <<traceLock, eventId, instId, numbered>>
    PROVE  Control'
<1>1. todo[t] \notin Critical /\ todo[t] \notin {Numbers, Exception}
  BY Heads DEF Critical, Neutral
<1>2. Waiting(Tail(todo[t]))
  BY <1>1, WaitingHead DEF Control, Waits
<1>3. todo' = [todo EXCEPT ![t] = Tail(todo[t])]
  BY DEF Done
<1> QED
  BY <1>1, <1>2, <1>3, OutsideStep

\* A step of the numbering: only its thread holds the lock, and what it has yet to
\* do then says how the counters stand.
LEMMA InsideStep ==
    ASSUME Control, NEW t \in Threads, traceLock \in {NONE, t},
           NEW s, todo' = [todo EXCEPT ![t] = s],
           Counters', (s \in Critical /\ traceLock' = t) \/ (s = << >> /\ traceLock' = NONE),
           s \in {Numbers4, Exception2, Unlock} => Exact',
           s = Numbers3 => Taken', s = Numbers2 => Named'
    PROVE  Control'
<1>1. s \in Seq(Steps) /\ NONE \notin Threads /\ << >> \notin Critical
  <2>1. NONE \notin Threads
    BY ThreadsAssumption DEF NONE
  <2>2. s \in Seq(Steps) /\ << >> \notin Critical
    BY Heads, EmptySeq
  <2> QED
    BY <2>1, <2>2
<1>2. /\ todo \in [Threads -> Seq(Steps)] /\ todo' \in [Threads -> Seq(Steps)]
      /\ \A u \in Threads : todo'[u] = IF u = t THEN s ELSE todo[u]
  BY <1>1 DEF Control, Waits
<1>3. \A u \in Threads \ {t} : todo[u] \notin Critical
  BY <1>1 DEF Control, Exclusive
<1>4. Waits'
  BY <1>2, OthersWait DEF Control, Waits
<1>5. Exclusive'
  BY <1>1, <1>2, <1>3 DEF Control, Exclusive
<1>6. Counted'
  BY <1>1, <1>2, <1>3 DEF Control, Counted, Critical
<1> QED
  BY <1>4, <1>5, <1>6 DEF Control

\* Which step of the numbering a thread comes to.
LEMMA ComesTo ==
    ASSUME Control, NEW t \in Threads, todo[t] # << >>, Head(todo[t]) \notin Neutral
    PROVE  /\ todo[t] \in Critical \cup {Numbers, Exception}
           /\ todo[t] \in Critical => traceLock = t
           /\ Head(todo[t]) = "lockTrace" => todo[t] \in {Numbers, Exception}
           /\ Head(todo[t]) = "takeEventId" => todo[t] = Numbers4
           /\ Head(todo[t]) = "nextEventId" => todo[t] \in {Numbers3, Exception2}
           /\ Head(todo[t]) = "nextInstId" => todo[t] = Numbers2
           /\ Head(todo[t]) = "unlockTrace" => todo[t] = Unlock
<1>1. todo[t] \in Critical \cup {Numbers, Exception}
  BY WaitingHead DEF Control, Waits
<1>2. todo[t] \in Critical => traceLock = t
  BY DEF Control, Exclusive
<1>3. /\ Head(todo[t]) = "lockTrace" => todo[t] \in {Numbers, Exception}
      /\ Head(todo[t]) = "takeEventId" => todo[t] = Numbers4
      /\ Head(todo[t]) = "nextEventId" => todo[t] \in {Numbers3, Exception2}
      /\ Head(todo[t]) = "nextInstId" => todo[t] = Numbers2
      /\ Head(todo[t]) = "unlockTrace" => todo[t] = Unlock
  BY <1>1, Heads DEF Critical
<1> QED
  BY <1>1, <1>2, <1>3

\* The five steps of the numbering.
LEMMA LockTraceCounts ==
    ASSUME Control, NEW t \in Threads, LockTrace(t), Done(t),
           UNCHANGED <<eventId, instId, numbered>>
    PROVE  Control'
<1> DEFINE s == Tail(todo[t])
<1>1. /\ traceLock = NONE /\ traceLock' = t /\ todo[t] # << >>
      /\ Head(todo[t]) = "lockTrace" /\ todo' = [todo EXCEPT ![t] = s]
  BY DEF LockTrace, At, Done
<1>2. todo[t] \in {Numbers, Exception}
  BY <1>1, ComesTo DEF Neutral
<1>3. s \in {Numbers4, Exception2}
  BY <1>2, Tails
<1> HIDE DEF s
<1>4. s \in Critical /\ s \notin {Numbers3, Numbers2}
  BY <1>3, Heads, TheyDiffer DEF Critical
<1>5. Counters' /\ Exact'
  BY <1>1, ThreadsAssumption DEF Control, Counters, Exact, NONE
<1> QED
  BY <1>1, <1>4, <1>5, InsideStep

LEMMA UnlockTraceCounts ==
    ASSUME Control, NEW t \in Threads, UnlockTrace(t), Done(t),
           UNCHANGED <<eventId, instId, numbered>>
    PROVE  Control'
<1> DEFINE s == Tail(todo[t])
<1>1. /\ traceLock' = NONE /\ todo[t] # << >>
      /\ Head(todo[t]) = "unlockTrace" /\ todo' = [todo EXCEPT ![t] = s]
  BY DEF UnlockTrace, At, Done
<1>2. todo[t] = Unlock /\ traceLock = t
  BY <1>1, ComesTo DEF Neutral, Critical
<1>3. s = << >>
  BY <1>2, Tails
<1>4. Exact
  BY <1>2 DEF Control, Counted
<1>5. Counters' /\ Exact'
  BY <1>1, <1>4 DEF Control, Counters, Exact
<1>6. s \notin {Numbers3, Numbers2}
  BY <1>3, Heads DEF Critical
<1> QED
  BY <1>1, <1>2, <1>3, <1>5, <1>6, InsideStep

LEMMA TakeEventIdCounts ==
    ASSUME Control, NEW t \in Threads, TakeEventId(t), Done(t), traceLock' = traceLock,
           cur[t] \in Nat \cup {NONE}
    PROVE  Control'
<1> DEFINE s == Tail(todo[t])
           r == [of |-> cur[t], event |-> eventId, inst |-> instId]
<1>1. /\ todo[t] # << >> /\ Head(todo[t]) = "takeEventId" /\ todo' = [todo EXCEPT ![t] = s]
      /\ numbered' = Append(numbered, r) /\ eventId' = eventId /\ instId' = instId
  BY DEF TakeEventId, At, Done
<1>2. todo[t] = Numbers4 /\ traceLock = t /\ t # NONE
  BY <1>1, ComesTo, ThreadsAssumption DEF Neutral, Critical, NONE
<1>3. s = Numbers3 /\ s \in Critical /\ s \notin {Numbers4, Exception2, Unlock, Numbers2}
  BY <1>2, Tails, Heads, TheyDiffer DEF Critical
<1>4. Exact
  BY <1>2 DEF Control, Counted
<1>5. /\ r \in Record /\ r.event = eventId /\ r.inst = instId /\ numbered \in Seq(Record)
      /\ eventId \in Nat /\ instId \in Nat
  BY DEF Control, Counters, Record
<1> HIDE DEF s, r
<1>6. /\ numbered' \in Seq(Record) /\ Len(numbered') = Len(numbered) + 1
      /\ Len(numbered) \in Nat /\ DOMAIN numbered = 1 .. Len(numbered)
      /\ DOMAIN numbered' = 1 .. Len(numbered) + 1
      /\ \A k \in DOMAIN numbered : numbered'[k] = numbered[k]
      /\ numbered'[Len(numbered) + 1] = r
  BY <1>1, <1>5
<1>7. \A k \in DOMAIN numbered' : k \in DOMAIN numbered \/ k = Len(numbered) + 1
  BY <1>6
<1>8. /\ \A k \in DOMAIN numbered : numbered[k].event < eventId
      /\ instId = Len(numbered) /\ eventId >= instId
  BY <1>4 DEF Exact
<1>9. \A j, k \in DOMAIN numbered' : j < k => numbered'[j].event < numbered'[k].event
  <2>1. ASSUME NEW j \in DOMAIN numbered', NEW k \in DOMAIN numbered', j < k
        PROVE  numbered'[j].event < numbered'[k].event
    <3>1. j \in DOMAIN numbered /\ numbered'[j] = numbered[j]
      BY <1>6, <2>1
    <3>2. CASE k \in DOMAIN numbered
      BY <1>6, <2>1, <3>1, <3>2 DEF Control, Counters
    <3>3. CASE k = Len(numbered) + 1
      BY <1>5, <1>6, <1>8, <3>1, <3>3
    <3> QED
      BY <1>7, <3>2, <3>3
  <2> QED
    BY <2>1
<1>10. \A k \in DOMAIN numbered' : numbered'[k].inst = k - 1 /\ numbered'[k].event <= eventId
  <2>1. ASSUME NEW k \in DOMAIN numbered
        PROVE  numbered'[k].inst = k - 1 /\ numbered'[k].event <= eventId
    <3>1. numbered[k] \in Record
      BY <1>5
    <3>2. numbered[k].event \in Nat
      BY <3>1 DEF Record
    <3> QED
      BY <1>5, <1>6, <1>8, <3>2 DEF Control, Counters
  <2>2. numbered'[Len(numbered) + 1].inst = (Len(numbered) + 1) - 1
        /\ numbered'[Len(numbered) + 1].event <= eventId
    BY <1>5, <1>6, <1>8
  <2> QED
    BY <1>7, <2>1, <2>2
<1>11. Counters' /\ Taken'
  BY <1>1, <1>2, <1>5, <1>6, <1>8, <1>9, <1>10 DEF Control, Counters, Taken
<1> QED
  BY <1>1, <1>2, <1>3, <1>11, InsideStep

LEMMA NextEventIdCounts ==
    ASSUME Control, NEW t \in Threads, NextEventId(t), Done(t), traceLock' = traceLock
    PROVE  Control'
<1> DEFINE s == Tail(todo[t])
<1>1. /\ todo[t] # << >> /\ Head(todo[t]) = "nextEventId" /\ todo' = [todo EXCEPT ![t] = s]
      /\ eventId' = eventId + 1 /\ instId' = instId /\ numbered' = numbered
  BY DEF NextEventId, At, Done
<1>2. todo[t] \in {Numbers3, Exception2} /\ traceLock = t /\ t # NONE
  BY <1>1, ComesTo, ThreadsAssumption DEF Neutral, Critical, NONE
<1>3. /\ numbered \in Seq(Record) /\ eventId \in Nat /\ instId \in Nat
      /\ \A k \in DOMAIN numbered : numbered[k] \in Record
      /\ \A k \in DOMAIN numbered : numbered[k].event \in Nat
  <2>1. numbered \in Seq(Record) /\ eventId \in Nat /\ instId \in Nat
    BY DEF Control, Counters
  <2>2. \A k \in DOMAIN numbered : numbered[k] \in Record
    BY <2>1
  <2> QED
    BY <2>1, <2>2 DEF Record
<1>4. Counters'
  BY <1>1, <1>2, <1>3 DEF Control, Counters
<1>5. CASE todo[t] = Numbers3
  <2>1. s = Numbers2 /\ s \in Critical /\ s \notin {Numbers4, Exception2, Unlock, Numbers3}
    BY <1>5, Tails, Heads DEF Critical
  <2>2. Taken
    BY <1>5 DEF Control, Counted
  <2>3. Named'
    BY <1>1, <1>3, <2>2 DEF Taken, Named
  <2> HIDE DEF s
  <2> QED
    BY <1>1, <1>2, <1>4, <2>1, <2>3, InsideStep
<1>6. CASE todo[t] = Exception2
  <2>1. s = Unlock /\ s \in Critical /\ s \notin {Numbers2, Numbers3}
    BY <1>6, Tails, Heads DEF Critical
  <2>2. Exact
    BY <1>6 DEF Control, Counted
  <2>3. Exact'
    BY <1>1, <1>3, <2>2 DEF Exact
  <2> HIDE DEF s
  <2> QED
    BY <1>1, <1>2, <1>4, <2>1, <2>3, InsideStep
<1> QED
  BY <1>2, <1>5, <1>6

LEMMA NextInstIdCounts ==
    ASSUME Control, NEW t \in Threads, NextInstId(t), Done(t), traceLock' = traceLock
    PROVE  Control'
<1> DEFINE s == Tail(todo[t])
<1>1. /\ todo[t] # << >> /\ Head(todo[t]) = "nextInstId" /\ todo' = [todo EXCEPT ![t] = s]
      /\ eventId' = eventId /\ instId' = instId + 1 /\ numbered' = numbered
  BY DEF NextInstId, At, Done
<1>2. todo[t] = Numbers2 /\ traceLock = t /\ t # NONE
  BY <1>1, ComesTo, ThreadsAssumption DEF Neutral, Critical, NONE
<1>3. s = Unlock /\ s \in Critical /\ s \notin {Numbers2, Numbers3}
  BY <1>2, Tails, Heads DEF Critical
<1>4. eventId \in Nat /\ instId \in Nat /\ Named
  BY <1>2 DEF Control, Counters, Counted
<1>5. Exact'
  BY <1>1, <1>4 DEF Named, Exact
<1>6. Counters'
  BY <1>1, <1>2, <1>4 DEF Control, Counters
<1> HIDE DEF s
<1> QED
  BY <1>1, <1>2, <1>3, <1>5, <1>6, InsideStep
-----------------------------------------------------------------------------
(* Every step keeps the control.                                           *)

Kinds == cur \in [Threads -> Nat \cup {NONE}] /\ ran \in Seq(Insts)

LEMMA InitControl == Init => Kinds /\ Control
<1> SUFFICES ASSUME Init PROVE Kinds /\ Control
  OBVIOUS
<1>1. NONE \notin Threads /\ << >> \notin Critical
  BY ThreadsAssumption, Heads DEF NONE
<1>2. Kinds
  BY EmptySeq DEF Init, Kinds
<1>3. todo \in [Threads -> Seq(Steps)] /\ \A t \in Threads : todo[t] = << >>
  BY EmptySeq DEF Init
<1>4. Waits
  BY <1>3, OthersWait DEF Waits
<1>5. Exclusive
  BY <1>1, <1>3 DEF Init, Exclusive
<1>6. numbered = << >> /\ eventId = 0 /\ instId = 0 /\ traceLock = NONE
  BY DEF Init
<1>7. Exact
  BY <1>6 DEF Exact
<1>8. Counters
  BY <1>6, <1>7, EmptySeq DEF Counters
<1>9. Counted
  BY <1>1, <1>3, Heads DEF Counted, Critical
<1> QED
  BY <1>2, <1>4, <1>5, <1>8, <1>9 DEF Control

\* A step that starts the callbacks of an instruction or a signal.
LEMMA ProgramControl ==
    ASSUME Kinds, Control, NEW t \in Threads, Program(t)
    PROVE  Kinds' /\ Control'
<1>1. CASE StartThread(t) \/ TooManyThreads(t) \/ EndThread(t)
  <2>1. UNCHANGED <<todo, ran, traceLock, eventId, instId, numbered>>
    BY <1>1 DEF StartThread, TooManyThreads, EndThread, idVars, lockVars
  <2>2. cur' = cur \/ cur' = [cur EXCEPT ![t] = NONE]
    BY <1>1 DEF StartThread, TooManyThreads, EndThread
  <2>3. Kinds'
    BY <2>1, <2>2 DEF Kinds
  <2>4. Control'
    BY <2>1 DEF Control, Counters, Waits, Exclusive, Counted, Exact, Taken, Named
  <2> QED
    BY <2>3, <2>4
<1>2. ASSUME NEW i \in Insts, StartInst(t, i) PROVE Kinds' /\ Control'
  <2>1. /\ UNCHANGED <<traceLock, eventId, instId, numbered>>
        /\ todo[t] = << >> /\ ran' = Append(ran, i) /\ cur' = [cur EXCEPT ![t] = Len(ran) + 1]
        /\ todo' = [todo EXCEPT ![t] = If(~initialized[t], InitThreadSteps) \o Callbacks(i)]
    BY <1>2 DEF StartInst, idVars, lockVars
  <2>2. todo[t] \notin Critical
    BY <2>1, Heads
  <2>3. Control'
    BY <2>1, <2>2, InstWaits, OutsideStep
  <2>4. Kinds'
    BY <2>1 DEF Kinds
  <2> QED
    BY <2>3, <2>4
<1>3. CASE Fault(t) \/ contextChange(t)
  <2>1. /\ UNCHANGED <<cur, ran, traceLock, eventId, instId, numbered>>
        /\ todo' = [todo EXCEPT ![t] = Exception]
        /\ todo[t] = << >> \/ Head(todo[t]) = "analyzeRegs"
    BY <1>3 DEF Fault, contextChange, At, idVars, lockVars
  <2>2. todo[t] \notin Critical
    BY <2>1, Heads DEF Critical
  <2>3. Control'
    BY <2>1, <2>2, OthersWait, OutsideStep
  <2>4. Kinds'
    BY <2>1 DEF Kinds
  <2> QED
    BY <2>3, <2>4
<1> QED
  BY <1>1, <1>2, <1>3 DEF Program

\* A callback that has nothing to do with the numbering.
LEMMA NeutralCallback ==
    ASSUME NEW t \in Threads,
           \/ (LockData(t) \/ UnlockData(t)) /\ LockStep(t)
           \/ UnderDataLock(t) \/ ThreadInitialized(t)
           \/ constructModeledIRNode(t) \/ checkMemRead(t) \/ recordSrcRegs(t)
           \/ recordDestRegs(t) \/ recordMemWrite(t)
           \/ AnalyzeRegs(t) \/ analyzeMemWrites(t) \/ PopulateReads(t)
           \/ ResetHolders(t)
    PROVE  /\ todo[t] # << >> /\ Head(todo[t]) \in Neutral
           /\ Done(t) /\ UNCHANGED <<cur, ran, traceLock, eventId, instId, numbered>>
<1>1. CASE (LockData(t) \/ UnlockData(t)) /\ LockStep(t)
  BY <1>1 DEF LockStep, LockData, UnlockData, At, Neutral, idVars
<1>2. CASE UnderDataLock(t) \/ ThreadInitialized(t)
  BY <1>2 DEF UnderDataLock, ThreadInitialized, At, Neutral, idVars, lockVars
<1>3. CASE constructModeledIRNode(t)
  BY <1>3 DEF constructModeledIRNode, At, Neutral, idVars, lockVars
<1>4. CASE checkMemRead(t)
  BY <1>4 DEF checkMemRead, At, Neutral, idVars, lockVars
<1>5. CASE recordSrcRegs(t)
  BY <1>5 DEF recordSrcRegs, ResetSrcRegs, PushSrcReg, At, Neutral, idVars, lockVars
<1>6. CASE recordDestRegs(t) \/ recordMemWrite(t)
  BY <1>6 DEF recordDestRegs, recordMemWrite, At, Neutral, idVars, lockVars
<1>7. CASE AnalyzeRegs(t)
  BY <1>7 DEF AnalyzeRegs, At, Neutral, idVars, lockVars
<1>8. CASE analyzeMemWrites(t)
  BY <1>8 DEF analyzeMemWrites, At, Neutral, idVars, lockVars
<1>9. CASE PopulateReads(t)
  BY <1>9 DEF PopulateReads, At, Neutral, idVars, lockVars
<1>10. CASE ResetHolders(t)
  BY <1>10 DEF ResetHolders, At, Neutral, idVars, lockVars
<1> QED
  BY <1>1, <1>2, <1>3, <1>4, <1>5, <1>6, <1>7, <1>8, <1>9, <1>10

LEMMA CallbackControl ==
    ASSUME Kinds, Control, NEW t \in Threads, Callback(t)
    PROVE  Kinds' /\ Control'
<1>1. CASE Numbering(t)
  <2>1. /\ TakeEventId(t) \/ NextEventId(t) \/ NextInstId(t)
        /\ Done(t) /\ UNCHANGED <<cur, ran, traceLock>>
    BY <1>1 DEF Numbering, lockVars
  <2>2. cur[t] \in Nat \cup {NONE} /\ Kinds'
    BY <2>1 DEF Kinds
  <2> QED
    BY <2>1, <2>2, TakeEventIdCounts, NextEventIdCounts, NextInstIdCounts
<1>2. CASE LockStep(t) /\ (LockTrace(t) \/ UnlockTrace(t))
  <2>1. Done(t) /\ UNCHANGED <<cur, ran, eventId, instId, numbered>>
    BY <1>2 DEF LockStep, idVars
  <2>2. Kinds'
    BY <2>1 DEF Kinds
  <2> QED
    BY <1>2, <2>1, <2>2, LockTraceCounts, UnlockTraceCounts
<1>3. CASE ~Numbering(t) /\ ~(LockStep(t) /\ (LockTrace(t) \/ UnlockTrace(t)))
  <2>1. /\ todo[t] # << >> /\ Head(todo[t]) \in Neutral
        /\ Done(t) /\ UNCHANGED <<cur, ran, traceLock, eventId, instId, numbered>>
    BY <1>3, NeutralCallback DEF Callback, LockStep
  <2>2. Kinds'
    BY <2>1 DEF Kinds
  <2> QED
    BY <2>1, <2>2, NeutralStep
<1> QED
  BY <1>1, <1>2, <1>3

LEMMA NextControl == Kinds /\ Control /\ [Next]_vars => Kinds' /\ Control'
<1>1. ASSUME Kinds, Control, UNCHANGED vars PROVE Kinds' /\ Control'
  BY <1>1 DEF vars, lockVars, idVars, Kinds, Control, Counters, Waits, Exclusive, Counted,
              Exact, Taken, Named
<1> QED
  BY <1>1, ProgramControl, CallbackControl DEF Next, Terminated

\* However the callbacks of any threads interleave, and wherever signals arrive,
\* every analysis takes its own event number and the instruction numbers are dense
\* (l. 1371-1378).
THEOREM NumbersAreExactHolds == Spec => []NumbersAreExact
<1>1. Control => NumbersAreExact
  <2>1. ASSUME Control
        PROVE  \A k \in DOMAIN numbered : numbered[k].event < eventId + 1
    <3>1. /\ numbered \in Seq(Record) /\ eventId \in Nat
          /\ Exact \/ Taken \/ Named
      <4>1. traceLock = NONE \/ \E t \in Threads : traceLock = t /\ todo[t] \in Critical
        BY <2>1 DEF Control, Counters, Exclusive
      <4> QED
        BY <2>1, <4>1 DEF Control, Counters, Counted, Critical
    <3>2. \A k \in DOMAIN numbered : numbered[k] \in Record
      BY <3>1
    <3>3. \A k \in DOMAIN numbered : numbered[k].event \in Nat
      BY <3>2 DEF Record
    <3> QED
      BY <3>1, <3>3 DEF Exact, Taken, Named
  <2> QED
    BY <2>1 DEF Control, Counters, Exact, NumbersAreExact
<1> QED
  BY <1>1, InitControl, NextControl, PTL DEF Spec
-----------------------------------------------------------------------------
(* Types, owners, and what a thread that has not started an instruction    *)
(* can have to do: nothing but the numbering of a signal.                  *)

Quiet == {<< >>, Exception, Exception2, Unlock}
Register == [of : Nat, id : Nat]
Read == [by : Nat, regs : Seq(Register)]

Typed ==
    /\ TypeOK
    /\ started \subseteq Threads /\ initialized \in [Threads -> BOOLEAN]
    /\ srcRegsHolder \in Seq(Register)
    /\ \A l \in DOMAIN reads : reads[l] \in Read

Scheduled ==
    \A t \in Threads :
        /\ todo[t] # << >> => t \in started
        /\ cur[t] = NONE =>
              /\ todo[t] \in Quiet
              /\ t \in started => memWrite[t] = NONE /\ destRegs[t] = NONE /\ ~initialized[t]

IInv == Kinds /\ Control /\ Typed /\ Scheduled

\* A thread that is in a callback has started an instruction, unless it is numbering.
LEMMA CallbackHasInst ==
    ASSUME IInv, NEW t \in Threads, todo[t] # << >>, Head(todo[t]) \in Neutral
    PROVE  cur[t] # NONE /\ cur[t] \in Number /\ cur[t] \in Nat
<1>1. cur[t] \in Number \cup {NONE}
  BY DEF IInv, Typed, TypeOK
<1>2. todo[t] \notin Quiet
  BY Heads DEF Quiet, Critical, Neutral
<1>3. cur[t] # NONE
  BY <1>2 DEF IInv, Scheduled
<1> QED
  BY <1>1, <1>3 DEF Number

\* A step of a callback leaves the storage of the other threads alone.
LEMMA DoneScheduled ==
    ASSUME IInv, NEW t \in Threads, todo[t] # << >>, Done(t), UNCHANGED <<cur, started>>,
           \A u \in Threads : u # t \/ cur[t] = NONE =>
               /\ memWrite'[u] = memWrite[u] /\ destRegs'[u] = destRegs[u]
               /\ initialized'[u] = initialized[u]
    PROVE  Scheduled'
<1>1. todo \in [Threads -> Seq(Steps)]
  BY DEF IInv, Control, Waits
<1>2. \A u \in Threads : todo'[u] = IF u = t THEN Tail(todo[t]) ELSE todo[u]
  BY <1>1 DEF Done
<1>3. todo[t] \in Quiet => Tail(todo[t]) \in Quiet
  BY Tails DEF Quiet
<1> QED
  BY <1>2, <1>3 DEF IInv, Scheduled

LEMMA InitTyped == Init => Typed /\ Scheduled
<1> SUFFICES ASSUME Init PROVE Typed /\ Scheduled
  OBVIOUS
<1>1. Typed
  BY EmptySeq DEF Init, Typed, TypeOK
<1>2. Scheduled
  BY DEF Init, Scheduled, Quiet
<1> QED
  BY <1>1, <1>2

LEMMA ProgramTyped ==
    ASSUME IInv, NEW t \in Threads, Program(t)
    PROVE  Typed' /\ Scheduled'
<1>1. /\ todo \in [Threads -> Seq(Steps)] /\ cur \in [Threads -> Nat \cup {NONE}]
      /\ ran \in Seq(Insts) /\ Len(ran) \in Nat
  BY DEF IInv, Kinds, Control, Waits
<1>2. CASE StartThread(t) \/ TooManyThreads(t) \/ EndThread(t)
  <2>1. /\ UNCHANGED <<todo, ran, srcRegsHolder, reads, writes, populate_regs, lastMemReadLoc,
                       traceLock, dataLock, eventId, instId>>
        /\ \/ /\ cur' = [cur EXCEPT ![t] = NONE] /\ threadStart(t) /\ t \notin started
           \/ /\ UNCHANGED <<cur, initialized, memWrite, destRegs>>
              /\ started' = started \/ (started' = started \ {t} /\ todo[t] = << >>)
    BY <1>2 DEF StartThread, TooManyThreads, EndThread, idVars, lockVars, holderVars, readVars,
                tlsVars
  <2>2. Typed'
    BY <1>1, <2>1 DEF threadStart, IInv, Typed, TypeOK, Number
  <2>3. Scheduled'
    <3>1. CASE cur' = [cur EXCEPT ![t] = NONE] /\ threadStart(t) /\ t \notin started
      <4>1. todo[t] = << >>
        BY <3>1 DEF IInv, Scheduled
      <4>2. memWrite \in [Threads -> Number \cup {NONE}] /\ destRegs \in [Threads -> Number \cup {NONE}]
            /\ initialized \in [Threads -> BOOLEAN]
        BY DEF IInv, Typed, TypeOK
      <4> QED
        BY <1>1, <2>1, <3>1, <4>1, <4>2 DEF threadStart, IInv, Scheduled, Quiet
    <3>2. CASE /\ UNCHANGED <<cur, initialized, memWrite, destRegs>>
               /\ started' = started \/ (started' = started \ {t} /\ todo[t] = << >>)
      BY <2>1, <3>2 DEF IInv, Scheduled
    <3> QED
      BY <2>1, <3>1, <3>2
  <2> QED
    BY <2>2, <2>3
<1>3. ASSUME NEW i \in Insts, StartInst(t, i) PROVE Typed' /\ Scheduled'
  <2>1. /\ t \in started /\ UNCHANGED <<started, initialized, memWrite, destRegs>>
        /\ UNCHANGED <<srcRegsHolder, reads, writes, populate_regs, lastMemReadLoc,
                       traceLock, dataLock, eventId, instId>>
        /\ ran' = Append(ran, i) /\ cur' = [cur EXCEPT ![t] = Len(ran) + 1]
        /\ todo' = [todo EXCEPT ![t] = If(~initialized[t], InitThreadSteps) \o Callbacks(i)]
    BY <1>3 DEF StartInst, idVars, lockVars, threadVars, tlsVars, holderVars, readVars
  <2>2. Len(ran') = Len(ran) + 1 /\ DOMAIN todo' = Threads
    BY <1>1, <2>1
  <2>3. Number \subseteq Number' /\ Len(ran) + 1 \in Number'
    BY <1>1, <2>2 DEF Number
  <2>4. Typed'
    BY <1>1, <2>1, <2>2, <2>3 DEF IInv, Typed, TypeOK
  <2>5. Scheduled'
    BY <1>1, <2>1 DEF IInv, Scheduled, NONE
  <2> QED
    BY <2>4, <2>5
<1>4. CASE Fault(t) \/ contextChange(t)
  <2>1. /\ UNCHANGED <<cur, ran, started, initialized, memWrite, destRegs>>
        /\ UNCHANGED <<srcRegsHolder, reads, writes, populate_regs, lastMemReadLoc,
                       traceLock, dataLock, eventId, instId>>
        /\ todo' = [todo EXCEPT ![t] = Exception]
        /\ todo[t] # << >> \/ t \in started
    BY <1>4 DEF Fault, contextChange, At, idVars, lockVars, tlsVars, holderVars, readVars
  <2>2. Typed'
    BY <1>1, <2>1 DEF IInv, Typed, TypeOK, Number
  <2>3. Scheduled'
    BY <1>1, <2>1 DEF IInv, Scheduled, Quiet
  <2> QED
    BY <2>2, <2>3
<1> QED
  BY <1>2, <1>3, <1>4 DEF Program
LEMMA CallbackTyped ==
    ASSUME IInv, NEW t \in Threads, Callback(t)
    PROVE  Typed' /\ Scheduled'
<1>1. /\ todo \in [Threads -> Seq(Steps)] /\ cur \in [Threads -> Nat \cup {NONE}]
      /\ ran \in Seq(Insts) /\ Len(ran) \in Nat /\ eventId \in Nat /\ instId \in Nat
      /\ memWrite \in [Threads -> Number \cup {NONE}]
      /\ destRegs \in [Threads -> Number \cup {NONE}]
      /\ initialized \in [Threads -> BOOLEAN]
      /\ DOMAIN todo' = DOMAIN todo \/ todo' = todo \/ ~Done(t)
  BY DEF IInv, Kinds, Control, Counters, Waits, Typed, TypeOK, Done
<1>2. CASE LockStep(t) \/ UnderDataLock(t) \/ constructModeledIRNode(t) \/ ResetHolders(t)
  <2>1. /\ todo[t] # << >> /\ Done(t)
        /\ UNCHANGED <<cur, ran, started, initialized, memWrite, destRegs, reads, writes,
                       populate_regs, lastMemReadLoc, eventId, instId>>
        /\ srcRegsHolder' = srcRegsHolder \/ srcRegsHolder' = << >>
        /\ traceLock' \in {NONE, t, traceLock} /\ dataLock' \in {NONE, t, dataLock}
    BY <1>2 DEF LockStep, LockTrace, UnlockTrace, LockData, UnlockData, UnderDataLock,
                constructModeledIRNode, ResetHolders, At, threadVars, tlsVars, holderVars,
                readVars, idVars, lockVars
  <2>2. /\ srcRegsHolder' \in Seq(Register)
        /\ \A k \in DOMAIN srcRegsHolder' :
              srcRegsHolder'[k].of \in Number /\ srcRegsHolder'[k].id \in 0 .. instId
    <3>1. << >> \in Seq(Register) /\ DOMAIN << >> = {}
      BY EmptySeq
    <3> QED
      BY <2>1, <3>1 DEF IInv, Typed, TypeOK
  <2>3. traceLock' \in Threads \cup {NONE} /\ dataLock' \in Threads \cup {NONE}
    BY <2>1 DEF IInv, Typed, TypeOK
  <2>4. Typed'
    BY <1>1, <2>1, <2>2, <2>3 DEF IInv, Typed, TypeOK, Number, Done
  <2> QED
    BY <2>1, <2>4, DoneScheduled
<1>3. CASE Numbering(t)
  <2>1. /\ todo[t] # << >> /\ Done(t)
        /\ UNCHANGED <<cur, ran, started, initialized, memWrite, destRegs, reads, writes,
                       populate_regs, lastMemReadLoc, srcRegsHolder, traceLock, dataLock>>
        /\ eventId' \in {eventId, eventId + 1} /\ instId' \in {instId, instId + 1}
    BY <1>3 DEF Numbering, TakeEventId, NextEventId, NextInstId, At, threadVars, tlsVars,
                holderVars, readVars, lockVars
  <2>2. /\ eventId' \in Nat /\ instId' \in Nat /\ 0 .. instId \subseteq 0 .. instId'
        /\ \A k \in DOMAIN srcRegsHolder : srcRegsHolder[k].id \in 0 .. instId
    BY <1>1, <2>1 DEF IInv, Typed, TypeOK
  <2>3. Typed'
    BY <1>1, <2>1, <2>2 DEF IInv, Typed, TypeOK, Number, Done
  <2> QED
    BY <2>1, <2>3, DoneScheduled
<1>4. CASE ThreadInitialized(t) \/ recordDestRegs(t) \/ recordMemWrite(t) \/ AnalyzeRegs(t)
  <2>1. /\ todo[t] # << >> /\ Head(todo[t]) \in Neutral /\ Done(t)
        /\ UNCHANGED <<cur, ran, started, reads, writes,
                       populate_regs, lastMemReadLoc, srcRegsHolder, traceLock, dataLock,
                       eventId, instId>>
        /\ initialized' = initialized \/ initialized' = [initialized EXCEPT ![t] = TRUE]
        /\ memWrite' = memWrite \/ memWrite' = [memWrite EXCEPT ![t] = cur[t]]
        /\ \/ destRegs' = destRegs \/ destRegs' = [destRegs EXCEPT ![t] = cur[t]]
           \/ destRegs' = [destRegs EXCEPT ![t] = NONE]
    BY <1>4 DEF ThreadInitialized, recordDestRegs, recordMemWrite, AnalyzeRegs, At, Neutral,
                threadVars, holderVars, readVars, idVars, lockVars, tlsVars
  <2>2. cur[t] # NONE /\ cur[t] \in Number
    BY <2>1, CallbackHasInst
  <2>3. Typed'
    BY <1>1, <2>1, <2>2 DEF IInv, Typed, TypeOK, Number, Done
  <2> QED
    BY <1>1, <2>1, <2>2, <2>3, DoneScheduled
<1>5. CASE recordSrcRegs(t)
  <2>1. /\ todo[t] # << >> /\ Head(todo[t]) \in Neutral /\ Done(t)
        /\ UNCHANGED <<cur, ran, started, initialized, memWrite, destRegs, reads, writes,
                       populate_regs, lastMemReadLoc, traceLock, dataLock, eventId, instId>>
        /\ \/ srcRegsHolder' = << >>
           \/ srcRegsHolder' = Append(srcRegsHolder, [of |-> cur[t], id |-> instId])
    BY <1>5 DEF recordSrcRegs, ResetSrcRegs, PushSrcReg, At, Neutral, threadVars, tlsVars,
                readVars, idVars, lockVars
  <2>2. cur[t] \in Number /\ cur[t] \in Nat /\ instId \in 0 .. instId
    BY <1>1, <2>1, CallbackHasInst
  <2>3. /\ srcRegsHolder' \in Seq(Register)
        /\ \A k \in DOMAIN srcRegsHolder' :
              srcRegsHolder'[k].of \in Number /\ srcRegsHolder'[k].id \in 0 .. instId
    <3> DEFINE r == [of |-> cur[t], id |-> instId]
    <3>1. r \in Register /\ r.of \in Number /\ r.id \in 0 .. instId
      BY <1>1, <2>2 DEF Register
    <3>2. /\ srcRegsHolder \in Seq(Register)
          /\ \A k \in DOMAIN srcRegsHolder :
                srcRegsHolder[k].of \in Number /\ srcRegsHolder[k].id \in 0 .. instId
      BY DEF IInv, Typed, TypeOK
    <3> HIDE DEF r
    <3>3. CASE srcRegsHolder' = Append(srcRegsHolder, r)
      BY <3>1, <3>2, <3>3
    <3>4. CASE srcRegsHolder' = << >>
      <4>1. << >> \in Seq(Register) /\ DOMAIN << >> = {}
        BY EmptySeq
      <4> QED
        BY <3>4, <4>1
    <3> QED
      BY <2>1, <3>3, <3>4 DEF r
  <2>4. Typed'
    BY <1>1, <2>1, <2>3 DEF IInv, Typed, TypeOK, Number, Done
  <2> QED
    BY <2>1, <2>4, DoneScheduled
<1>6. CASE checkMemRead(t)
  <2>1. /\ todo[t] # << >> /\ Head(todo[t]) \in Neutral /\ Done(t)
        /\ UNCHANGED <<cur, ran, started, initialized, memWrite, destRegs, writes,
                       srcRegsHolder, traceLock, dataLock, eventId, instId>>
        /\ \E loc : /\ reads' = Put(reads, loc, [by |-> cur[t], regs |-> << >>])
                    /\ lastMemReadLoc' = loc
    BY <1>6 DEF checkMemRead, At, Neutral, threadVars, tlsVars, holderVars, idVars, lockVars
  <2>2. cur[t] \in Number /\ cur[t] \in Nat
    BY <2>1, CallbackHasInst
  <2>3. /\ \A l \in DOMAIN reads' : reads'[l] \in Read /\ reads'[l].by \in Number
        /\ lastMemReadLoc' \in DOMAIN reads'
    <3> DEFINE r == [by |-> cur[t], regs |-> << >>]
    <3>1. r \in Read /\ r.by \in Number
      BY <2>2, EmptySeq DEF Read
    <3>2. \A l \in DOMAIN reads : reads[l] \in Read /\ reads[l].by \in Number
      BY DEF IInv, Typed, TypeOK
    <3> HIDE DEF r
    <3> QED
      BY <2>1, <3>1, <3>2 DEF Put, r
  <2>4. Typed'
    BY <1>1, <2>1, <2>3 DEF IInv, Typed, TypeOK, Number, Done
  <2> QED
    BY <2>1, <2>4, DoneScheduled
<1>7. CASE PopulateReads(t)
  <2>1. /\ todo[t] # << >> /\ Done(t)
        /\ UNCHANGED <<cur, ran, started, initialized, memWrite, destRegs, writes,
                       srcRegsHolder, lastMemReadLoc, traceLock, dataLock, eventId, instId>>
        /\ \/ reads' = reads /\ populate_regs' = populate_regs
           \/ /\ populate_regs /\ ~populate_regs'
              /\ reads' = [reads EXCEPT ![lastMemReadLoc].regs = srcRegsHolder]
    BY <1>7 DEF PopulateReads, ReadsPopulated, At, threadVars, tlsVars, holderVars, idVars,
                lockVars
  <2>2. \A l \in DOMAIN reads : reads[l] \in Read /\ reads[l].by \in Number
    BY DEF IInv, Typed, TypeOK
  <2>3. /\ \A l \in DOMAIN reads' : reads'[l] \in Read /\ reads'[l].by \in Number
        /\ DOMAIN reads' = DOMAIN reads
    <3>1. srcRegsHolder \in Seq(Register)
      BY DEF IInv, Typed
    <3>2. ASSUME NEW l \in DOMAIN reads
          PROVE  LET r == [reads[l] EXCEPT !.regs = srcRegsHolder]
                 IN  r \in Read /\ r.by \in Number
      BY <2>2, <3>1 DEF Read
    <3> QED
      BY <2>1, <2>2, <3>2
  <2>4. populate_regs' => lastMemReadLoc' \in DOMAIN reads'
    BY <2>1, <2>3 DEF IInv, Typed, TypeOK
  <2>5. Typed'
    BY <1>1, <2>1, <2>3, <2>4 DEF IInv, Typed, TypeOK, Number, Done
  <2> QED
    BY <2>1, <2>5, DoneScheduled
<1>8. CASE analyzeMemWrites(t)
  <2>1. /\ todo[t] # << >> /\ Head(todo[t]) \in Neutral /\ Done(t)
        /\ UNCHANGED <<cur, ran, started, initialized, destRegs, reads,
                       populate_regs, lastMemReadLoc, srcRegsHolder, traceLock, dataLock,
                       eventId, instId>>
        /\ \/ UNCHANGED <<writes, memWrite>>
           \/ /\ memWrite' = [memWrite EXCEPT ![t] = NONE]
              /\ \E a, o, i, r : writes' = Put(writes, a, [by |-> cur[t], of |-> o, id |-> i,
                                                          regs |-> r])
    BY <1>8 DEF analyzeMemWrites, WriteConsumed, At, Neutral, threadVars, holderVars, readVars,
                idVars, lockVars
  <2>2. cur[t] # NONE /\ cur[t] \in Number
    BY <2>1, CallbackHasInst
  <2>3. \A l \in DOMAIN writes' : writes'[l].by \in Number
    <3>1. \A l \in DOMAIN writes : writes[l].by \in Number
      BY DEF IInv, Typed, TypeOK
    <3>2. CASE writes' = writes
      BY <3>1, <3>2
    <3>3. ASSUME NEW a, NEW w, w.by = cur[t], writes' = Put(writes, a, w)
          PROVE  \A l \in DOMAIN writes' : writes'[l].by \in Number
      BY <2>2, <3>1, <3>3 DEF Put
    <3> QED
      BY <2>1, <3>2, <3>3
  <2>4. Typed'
    BY <1>1, <2>1, <2>3 DEF IInv, Typed, TypeOK, Number, Done
  <2> QED
    BY <1>1, <2>1, <2>2, <2>4, DoneScheduled
<1> QED
  BY <1>2, <1>3, <1>4, <1>5, <1>6, <1>7, <1>8 DEF Callback

LEMMA Inductive == /\ Init => IInv
                   /\ IInv /\ [Next]_vars => IInv'
<1>1. Init => IInv
  BY InitControl, InitTyped DEF IInv
<1>2. ASSUME IInv, UNCHANGED vars PROVE IInv'
  <2>1. UNCHANGED <<todo, cur, ran, started, initialized, memWrite, destRegs, srcRegsHolder,
                    reads, writes, populate_regs, lastMemReadLoc, traceLock, dataLock,
                    eventId, instId, numbered>>
    BY <1>2 DEF vars, threadVars, tlsVars, holderVars, readVars, lockVars, idVars
  <2>2. Kinds' /\ Control'
    BY <1>2, NextControl DEF IInv
  <2>3. Typed' /\ Scheduled'
    BY <1>2, <2>1 DEF IInv, Typed, TypeOK, Number, Scheduled
  <2> QED
    BY <2>2, <2>3 DEF IInv
<1>3. ASSUME IInv, Next PROVE IInv'
  <2>1. Kinds' /\ Control'
    BY <1>3, NextControl DEF IInv
  <2> QED
    BY <1>2, <1>3, <2>1, ProgramTyped, CallbackTyped DEF Next, Terminated, IInv
<1> QED
  BY <1>1, <1>2, <1>3

\* Locations and locks keep their types, and everything recorded belongs to an
\* instruction that has started, under a number that has come.
THEOREM TypeCorrect == Spec => []TypeOK
<1>1. IInv => TypeOK
  BY DEF IInv, Typed
<1> QED
  BY <1>1, Inductive, PTL DEF Spec

\* A thread that gets the number of one that ended finds none of its pending
\* writes and registers (threadStart, l. 2233-2248).
THEOREM NewThreadStartsCleanHolds == Spec => []NewThreadStartsClean
<1>1. IInv => NewThreadStartsClean
  BY DEF IInv, Typed, Scheduled, NewThreadStartsClean
<1> QED
  BY <1>1, Inductive, PTL DEF Spec
-----------------------------------------------------------------------------
(* Attribution of instructions that no other overlaps.  What an            *)
(* instruction has yet to do is, in this order: early steps, its source    *)
(* registers, late steps, its analysis.                                    *)

Early == {"lockData", "recordRegState", "unlockData", "initialized", "construct",
          "checkMemRead"}
Late == {"recordDestRegs", "recordMemWrite", "lockData", "setSeen", "unlockData"}

Collect(i) == If(i.srcs > 0, <<"resetSrcRegs">> \o Times(i.srcs, "pushSrcReg"))
Analyses(i) == If(i.analyzed, Analysis)

Analysis2 == <<"analyzeMemWrites", "populateReads", "resetHolders", "lockTrace",
               "takeEventId", "nextEventId", "nextInstId", "unlockTrace">>
Analysis3 == <<"populateReads", "resetHolders", "lockTrace",
               "takeEventId", "nextEventId", "nextInstId", "unlockTrace">>
Analysis4 == <<"resetHolders", "lockTrace",
               "takeEventId", "nextEventId", "nextInstId", "unlockTrace">>

Before(s, i) ==
    \E l \in Seq(Early), m \in Seq(Late) : s = l \o (Collect(i) \o (m \o Analyses(i)))
Pushing(s, i, k) ==
    \E m \in Seq(Late) : s = Times(k, "pushSrcReg") \o (m \o Analyses(i))

LEMMA AnalysisTails ==
    /\ Tail(Analysis) = Analysis2 /\ Tail(Analysis2) = Analysis3
    /\ Tail(Analysis3) = Analysis4 /\ Tail(Analysis4) = Numbers
    /\ Head(Analysis) = "analyzeRegs" /\ Head(Analysis2) = "analyzeMemWrites"
    /\ Head(Analysis3) = "populateReads" /\ Head(Analysis4) = "resetHolders"
    /\ Analysis \in Seq(Steps) /\ Analysis # << >>
<1>1. Head(Analysis) = "analyzeRegs" /\ Tail(Analysis) = Analysis2 /\ Analysis # << >>
  BY DEF Analysis, Analysis2
<1>2. Head(Analysis2) = "analyzeMemWrites" /\ Tail(Analysis2) = Analysis3
  BY DEF Analysis2, Analysis3
<1>3. Head(Analysis3) = "populateReads" /\ Tail(Analysis3) = Analysis4
  BY DEF Analysis3, Analysis4
<1>4. Head(Analysis4) = "resetHolders" /\ Tail(Analysis4) = Numbers
  BY DEF Analysis4, Numbers
<1>5. Analysis \in Seq(Steps)
  BY DEF Analysis, Steps, Neutral
<1> QED
  BY <1>1, <1>2, <1>3, <1>4, <1>5

LEMMA PartsType ==
    ASSUME NEW i \in Insts
    PROVE  /\ Early \subseteq Steps /\ Late \subseteq Steps
           /\ Seq(Early) \subseteq Seq(Steps) /\ Seq(Late) \subseteq Seq(Steps)
           /\ Analyses(i) \in Seq(Steps) /\ << >> \in Seq(Steps) /\ i.srcs \in Nat
           /\ \A k \in Nat : /\ Times(k, "pushSrcReg") \in Seq({"pushSrcReg"})
                             /\ Times(k, "pushSrcReg") \in Seq(Steps)
                             /\ k > 0 => Times(k, "pushSrcReg") # << >>
           /\ Times(0, "pushSrcReg") = << >>
           /\ Collect(i) \in Seq(Steps)
<1>1. Early \subseteq Steps /\ Late \subseteq Steps
  BY DEF Early, Late, Steps, Neutral
<1>2. Seq(Early) \subseteq Seq(Steps) /\ Seq(Late) \subseteq Seq(Steps)
  BY <1>1
<1>3. Analyses(i) \in Seq(Steps) /\ << >> \in Seq(Steps)
  BY AnalysisTails, EmptySeq DEF Analyses, If
<1>4. i.srcs \in Nat
  BY InstsAssumption
<1>5. ASSUME NEW k \in Nat
      PROVE  /\ Times(k, "pushSrcReg") \in Seq({"pushSrcReg"})
             /\ Times(k, "pushSrcReg") \in Seq(Steps)
             /\ k > 0 => Times(k, "pushSrcReg") # << >>
  <2>1. Times(k, "pushSrcReg") \in Seq({"pushSrcReg"}) /\ Len(Times(k, "pushSrcReg")) = k
    BY DEF Times
  <2>2. "pushSrcReg" \in Steps
    BY DEF Steps, Neutral
  <2>3. Times(k, "pushSrcReg") \in Seq(Steps)
    BY <2>2 DEF Times
  <2>4. k > 0 => Times(k, "pushSrcReg") # << >>
    BY <2>1
  <2> QED
    BY <2>1, <2>3, <2>4
<1>6. Times(0, "pushSrcReg") = << >>
  <2>1. Times(0, "pushSrcReg") \in Seq({"pushSrcReg"}) /\ Len(Times(0, "pushSrcReg")) = 0
    BY DEF Times
  <2> QED
    BY <2>1
<1>7. Collect(i) \in Seq(Steps)
  <2>1. <<"resetSrcRegs">> \in Seq(Steps)
    BY DEF Steps, Neutral
  <2>2. <<"resetSrcRegs">> \o Times(i.srcs, "pushSrcReg") \in Seq(Steps)
    BY <1>4, <1>5, <2>1, ConcatProperties
  <2> QED
    BY <1>3, <2>2 DEF Collect, If
<1> QED
  BY <1>1, <1>2, <1>3, <1>4, <1>5, <1>6, <1>7

\* What an instruction is scheduled for has this form.
LEMMA InstBefore ==
    ASSUME NEW i \in Insts, NEW new
    PROVE  Before(If(new, InitThreadSteps) \o Callbacks(i), i)
<1> DEFINE g == If(new, InitThreadSteps)
           a == If(i.create /\ ~i.analyzed, <<"construct">>)
           b == If(i.reads > 0, <<"checkMemRead", "unlockData">>)
           c == If(i.reads > 1, <<"checkMemRead", "unlockData">>)
           d == Collect(i)
           e == If(i.dest # "none", <<"recordDestRegs">>)
           f == If(i.write, <<"recordMemWrite", "lockData", "setSeen", "unlockData">>)
           h == Analyses(i)
<1>1. g \o Callbacks(i) = g \o ((((((a \o b) \o c) \o d) \o e) \o f) \o h)
  BY DEF Callbacks, Collect, Analyses
<1>2. g \in Seq(Early) /\ a \in Seq(Early) /\ b \in Seq(Early) /\ c \in Seq(Early)
  <2>1. /\ InitThreadSteps \in Seq(Early) /\ <<"construct">> \in Seq(Early)
        /\ <<"checkMemRead", "unlockData">> \in Seq(Early) /\ << >> \in Seq(Early)
    BY DEF InitThreadSteps, Early
  <2> QED
    BY <2>1 DEF If
<1>3. e \in Seq(Late) /\ f \in Seq(Late)
  <2>1. /\ <<"recordDestRegs">> \in Seq(Late) /\ << >> \in Seq(Late)
        /\ <<"recordMemWrite", "lockData", "setSeen", "unlockData">> \in Seq(Late)
    BY DEF Late
  <2> QED
    BY <2>1 DEF If
<1>4. d \in Seq(Steps) /\ h \in Seq(Steps) /\ Seq(Early) \subseteq Seq(Steps)
      /\ Seq(Late) \subseteq Seq(Steps)
  BY PartsType
<1> HIDE DEF a, b, c, d, e, f, g, h
<1> DEFINE l == ((g \o a) \o b) \o c
<1>5. l \in Seq(Early) /\ e \o f \in Seq(Late)
  BY <1>2, <1>3
<1>6. g \o ((((((a \o b) \o c) \o d) \o e) \o f) \o h) = l \o (d \o ((e \o f) \o h))
  <2>1. /\ a \in Seq(Steps) /\ b \in Seq(Steps) /\ c \in Seq(Steps) /\ e \in Seq(Steps)
        /\ f \in Seq(Steps) /\ g \in Seq(Steps)
    BY <1>2, <1>3, <1>4
  <2> DEFINE ab == a \o b
             x == ab \o c
             z == x \o d
             y == e \o f
             w == y \o h
             v == d \o w
  <2>2. l = g \o x
    <3>1. (g \o a) \o b = g \o ab /\ ab \in Seq(Steps)
      BY <2>1
    <3> HIDE DEF ab
    <3>2. (g \o ab) \o c = g \o (ab \o c)
      <4>1. g \in Seq(Steps) /\ ab \in Seq(Steps) /\ c \in Seq(Steps)
        BY <2>1, <3>1
      <4> QED
        BY <4>1, ConcatAssociative
    <3> QED
      BY <3>1, <3>2
  <2>3. ab \in Seq(Steps) /\ y \in Seq(Steps)
    BY <2>1
  <2> HIDE DEF ab, y
  <2>4. x \in Seq(Steps) /\ w \in Seq(Steps)
    BY <1>4, <2>1, <2>3
  <2> HIDE DEF x, w
  <2>5. z \in Seq(Steps) /\ v \in Seq(Steps)
    BY <1>4, <2>4
  <2>6. z \o w = x \o v
    BY <1>4, <2>4
  <2> HIDE DEF z, v
  <2>7. (z \o e) \o f = z \o y
    BY <2>1, <2>5 DEF y
  <2>8. (z \o y) \o h = z \o w
    BY <1>4, <2>3, <2>5 DEF w
  <2>9. g \o (x \o v) = (g \o x) \o v
    <3>1. g \in Seq(Steps) /\ x \in Seq(Steps) /\ v \in Seq(Steps)
      BY <2>1, <2>4, <2>5
    <3> QED
      BY <3>1
  <2>10. g \o (((z \o e) \o f) \o h) = (g \o x) \o v
    BY <2>6, <2>7, <2>8, <2>9
  <2> HIDE DEF l
  <2> QED
    BY <2>2, <2>10 DEF ab, x, z, y, w, v
<1>7. l \o (d \o ((e \o f) \o h)) = g \o Callbacks(i)
  BY <1>1, <1>6
<1>8. Before(l \o (Collect(i) \o ((e \o f) \o Analyses(i))), i)
  BY <1>5 DEF Before
<1> QED
  BY <1>7, <1>8 DEF d, h, g

\* The next step of an instruction, and what is left after it.
LEMMA BeforeStep ==
    ASSUME NEW i \in Insts, NEW s, Before(s, i), s # << >>
    PROVE  \/ Head(s) \in Early /\ Before(Tail(s), i)
           \/ Head(s) = "resetSrcRegs" /\ i.srcs > 0 /\ Pushing(Tail(s), i, i.srcs)
           \/ i.srcs = 0 /\ Pushing(s, i, 0)
<1>1. PICK l \in Seq(Early), m \in Seq(Late) : s = l \o (Collect(i) \o (m \o Analyses(i)))
  BY DEF Before
<1> DEFINE q == m \o Analyses(i)
           r == Collect(i) \o q
<1>2. /\ q \in Seq(Steps) /\ r \in Seq(Steps) /\ l \in Seq(Steps) /\ i.srcs \in Nat
      /\ Early \subseteq Steps
  BY PartsType, ConcatProperties
<1>3. CASE l # << >>
  <2> HIDE DEF r
  <2>1. Head(s) \in Early /\ Tail(s) = Tail(l) \o r /\ Tail(l) \in Seq(Early)
    BY <1>1, <1>2, <1>3, FrontStep DEF r
  <2> QED
    BY <2>1 DEF Before, r
<1>4. CASE l = << >> /\ i.srcs > 0
  <2> DEFINE p == Times(i.srcs, "pushSrcReg")
             b == <<"resetSrcRegs">> \o p
  <2>0. <<"resetSrcRegs">> \in Seq(Steps)
    BY DEF Steps, Neutral
  <2>1. p \in Seq(Steps) /\ <<"resetSrcRegs">> \in Seq(Steps) /\ << >> \in Seq(Steps)
    BY <1>2, <2>0, PartsType
  <2>2. b \in Seq(Steps) /\ b # << >> /\ b[1] = "resetSrcRegs" /\ Tail(b) = p
    <3> HIDE DEF p
    <3>1. <<"resetSrcRegs">> # << >> /\ Tail(<<"resetSrcRegs">>) = << >>
          /\ <<"resetSrcRegs">>[1] = "resetSrcRegs"
      OBVIOUS
    <3>2. b # << >> /\ Head(b) = "resetSrcRegs" /\ Tail(b) = << >> \o p
      BY <2>1, <3>1, FrontStep
    <3>3. b \in Seq(Steps) /\ << >> \o p = p
      BY <2>1, ConcatProperties, ConcatEmptySeq
    <3> HIDE DEF b
    <3> QED
      BY <3>2, <3>3
  <2>3. s = b \o q
    <3>1. Collect(i) = b
      BY <1>4 DEF Collect, If
    <3> HIDE DEF q, b
    <3> QED
      BY <1>1, <1>2, <1>4, <3>1, ConcatEmptySeq DEF q
  <2> HIDE DEF b, p
  <2>4. Head(s) = "resetSrcRegs" /\ Tail(s) = p \o q
    <3> HIDE DEF q
    <3> QED
      BY <1>2, <2>2, <2>3, FrontStep
  <2> QED
    BY <1>4, <2>4 DEF Pushing, p
<1>5. CASE l = << >> /\ i.srcs = 0
  <2>1. Collect(i) = << >> /\ Times(0, "pushSrcReg") = << >>
    BY <1>5, PartsType DEF Collect, If
  <2>2. s = << >> \o q
    <3> HIDE DEF q
    <3> QED
      BY <1>1, <1>2, <1>5, <2>1, ConcatEmptySeq, EmptySeq DEF q
  <2> QED
    BY <1>5, <2>1, <2>2 DEF Pushing
<1> QED
  BY <1>2, <1>3, <1>4, <1>5

LEMMA PushingStep ==
    ASSUME NEW i \in Insts, NEW k \in Nat, NEW s, Pushing(s, i, k), s # << >>
    PROVE  \/ k > 0 /\ Head(s) = "pushSrcReg" /\ Pushing(Tail(s), i, k - 1)
           \/ k = 0 /\ Head(s) \in Late /\ Pushing(Tail(s), i, 0)
           \/ k = 0 /\ s = Analysis
<1>1. PICK m \in Seq(Late) : s = Times(k, "pushSrcReg") \o (m \o Analyses(i))
  BY DEF Pushing
<1> DEFINE p == Times(k, "pushSrcReg")
           q == m \o Analyses(i)
<1>2. /\ q \in Seq(Steps) /\ p \in Seq(Steps) /\ p \in Seq({"pushSrcReg"}) /\ m \in Seq(Steps)
      /\ Late \subseteq Steps /\ {"pushSrcReg"} \subseteq Steps /\ Analyses(i) \in Seq(Steps)
      /\ k = 0 => p = << >>
      /\ k > 0 => p # << >>
  <2>1. {"pushSrcReg"} \subseteq Steps
    BY DEF Steps, Neutral
  <2> QED
    BY <2>1, PartsType, ConcatProperties
<1>3. CASE k > 0
  <2>1. Tail(p) = Times(k - 1, "pushSrcReg")
    <3>1. p = [j \in 1 .. k |-> "pushSrcReg"] /\ k - 1 \in Nat
      BY <1>3 DEF Times
    <3>2. Len(p) = k
      BY <3>1
    <3> DEFINE u == Times(k - 1, "pushSrcReg")
               v == Tail(p)
    <3>3. /\ u = [j \in 1 .. k - 1 |-> "pushSrcReg"] /\ Len(u) = k - 1
          /\ u \in Seq({"pushSrcReg"})
      BY <3>1 DEF Times
    <3>4. /\ v \in Seq({"pushSrcReg"}) /\ Len(v) = k - 1
          /\ \A j \in 1 .. Len(v) : v[j] = p[j + 1]
      BY <1>2, <1>3, <3>2, HeadTailProperties
    <3> HIDE DEF u, v
    <3>5. \A j \in 1 .. Len(v) : v[j] = "pushSrcReg" /\ u[j] = "pushSrcReg"
      BY <3>1, <3>3, <3>4
    <3>6. Len(u) = Len(v) /\ \A j \in 1 .. Len(v) : u[j] = v[j]
      BY <3>3, <3>4, <3>5
    <3>7. u = v
      BY <3>3, <3>4, <3>6, SeqEqual
    <3> QED
      BY <3>7 DEF u, v
  <2> HIDE DEF p, q
  <2>2. Head(s) \in {"pushSrcReg"} /\ Tail(s) = Tail(p) \o q
    BY <1>1, <1>2, <1>3, FrontStep DEF p, q
  <2> QED
    BY <1>3, <2>1, <2>2 DEF Pushing, q
<1>4. CASE k = 0
  <2>1. s = q
    <3> HIDE DEF q, p
    <3> QED
      BY <1>1, <1>2, <1>4, ConcatEmptySeq DEF p, q
  <2>2. CASE m # << >>
    <3>1. Head(s) \in Late /\ Tail(s) = Tail(m) \o Analyses(i) /\ Tail(m) \in Seq(Late)
      BY <1>2, <2>1, <2>2, FrontStep
    <3>2. Tail(s) = << >> \o (Tail(m) \o Analyses(i))
      <4>1. Tail(m) \o Analyses(i) \in Seq(Steps)
        BY <1>2, <3>1, PartsType, ConcatProperties
      <4> QED
        BY <3>1, <4>1, ConcatEmptySeq
    <3> QED
      BY <1>2, <1>4, <3>1, <3>2 DEF Pushing
  <2>3. CASE m = << >>
    <3>1. s = Analyses(i)
      BY <1>2, <2>1, <2>3, ConcatEmptySeq
    <3> QED
      BY <1>4, <3>1 DEF Analyses, If
  <2> QED
    BY <2>2, <2>3
<1> QED
  BY <1>3, <1>4
-----------------------------------------------------------------------------
(* Where a thread is in its callbacks, and what srcRegsHolder holds there: *)
(* nothing in particular before the registers are read, then those read so *)
(* far, under the current number, until they have been used.               *)

Ended == Quiet \cup {Numbers3, Numbers2}
InCallbacks(t) == todo[t] \notin Ended

Holds(t, n) ==
    inst(t).srcs > 0 => srcRegsHolder = Times(n, [of |-> cur[t], id |-> instId])

Placed(t) ==
    \/ todo[t] \in Ended
    \/ Before(todo[t], inst(t))
    \/ \E k \in 0 .. inst(t).srcs :
          Pushing(todo[t], inst(t), k) /\ Holds(t, inst(t).srcs - k)
    \/ todo[t] \in {Analysis2, Analysis3} /\ Holds(t, inst(t).srcs)
    \/ todo[t] \in {Analysis4, Numbers, Numbers4} /\ ~populate_regs

\* A thread in an instruction that no other overlaps.
Free(t) == InCallbacks(t) /\ Alone(cur[t])

\* That instruction has no number yet, its writes are under the current
\* one, and its reads have no registers but its own.
Current(t) ==
    /\ ~Analysed(cur[t])
    /\ \A l \in DOMAIN writes : writes[l].by = cur[t] => writes[l].id = instId
    /\ \A l \in DOMAIN reads : reads[l].by = cur[t] /\ inst(t).srcs > 0 => Own(reads[l])

Filed ==
    \A l \in DOMAIN writes, k \in DOMAIN numbered :
        Alone(writes[l].by) /\ numbered[k].of = writes[l].by => writes[l].id = numbered[k].inst

Recorded ==
    /\ \A t \in Threads : Free(t) => Current(t)
    /\ \A k \in DOMAIN numbered : numbered[k].of \in Number
    /\ populate_regs /\ Alone(reads[lastMemReadLoc].by) => ~Analysed(reads[lastMemReadLoc].by)
    /\ WritesCarryTheirRegisters /\ ReadsCarryTheirRegisters /\ Filed

\* Two threads at work overlap each other.
Apart ==
    \A t, u \in AtWork : t # u => ~Alone(cur[t]) /\ ~Alone(cur[u])

Attributed == Apart /\ Recorded /\ \A t \in Threads : Alone(cur[t]) => Placed(t)

LEMMA EndedTails ==
    \A s \in Ended : s # << >> => Tail(s) \in Ended
BY Tails DEF Ended, Quiet

LEMMA ThreadInst ==
    ASSUME IInv, NEW t \in Threads, InCallbacks(t)
    PROVE  /\ cur[t] # NONE /\ cur[t] \in Number /\ cur[t] \in Nat /\ inst(t) \in Insts
           /\ inst(t).srcs \in Nat
<1>1. cur[t] \in Number \cup {NONE} /\ ran \in Seq(Insts)
  BY DEF IInv, Typed, TypeOK, Kinds
<1>2. cur[t] # NONE
  BY DEF IInv, Scheduled, InCallbacks, Ended
<1>3. cur[t] \in Number /\ inst(t) \in Insts
  BY <1>1, <1>2 DEF Number, inst
<1> QED
  BY <1>2, <1>3, InstsAssumption DEF Number

LEMMA TimesAppend ==
    ASSUME NEW n \in Nat, NEW x
    PROVE  Times(0, x) = << >> /\ Append(Times(n, x), x) = Times(n + 1, x)
<1>1. Times(0, x) \in Seq({x}) /\ Len(Times(0, x)) = 0
  BY DEF Times
<1>2. Times(0, x) = << >>
  BY <1>1
<1> DEFINE u == Append(Times(n, x), x)
           v == Times(n + 1, x)
           w == Times(n, x)
<1>3. w \in Seq({x}) /\ Len(w) = n /\ \A i \in 1 .. n : w[i] = x
  BY DEF Times
<1>4. v \in Seq({x}) /\ Len(v) = n + 1 /\ \A i \in 1 .. n + 1 : v[i] = x
  BY DEF Times
<1> HIDE DEF v, w
<1>5. u \in Seq({x}) /\ Len(u) = n + 1 /\ \A i \in 1 .. n + 1 : u[i] = x
  <2>1. u = Append(w, x)
    BY DEF w
  <2> HIDE DEF u
  <2>2. u \in Seq({x}) /\ Len(u) = n + 1
    BY <1>3, <2>1
  <2>3. \A i \in 1 .. n + 1 : u[i] \in {x}
    BY <2>2
  <2> QED
    BY <2>2, <2>3
<1> HIDE DEF u
<1>6. u = v
  BY <1>4, <1>5, SeqEqual
<1> QED
  BY <1>2, <1>6 DEF u, v

\* The steps of an instruction in their order.
LEMMA PlacedStep ==
    ASSUME IInv, NEW t \in Threads, Placed(t), todo[t] # << >>, NEW i, i = inst(t),
           NEW s, s = todo[t], NEW h, h = Head(s)
    PROVE  \/ s \in Ended
           \/ h \in Early /\ Before(Tail(s), i)
           \/ h = "resetSrcRegs" /\ i.srcs > 0 /\ Pushing(Tail(s), i, i.srcs)
           \/ /\ h = "pushSrcReg"
              /\ \E k \in 1 .. i.srcs : Pushing(Tail(s), i, k - 1) /\ Holds(t, i.srcs - k)
           \/ h \in Late /\ Pushing(Tail(s), i, 0) /\ Holds(t, i.srcs)
           \/ h = "analyzeRegs" /\ Tail(s) = Analysis2 /\ Holds(t, i.srcs)
           \/ h = "analyzeMemWrites" /\ Tail(s) = Analysis3 /\ Holds(t, i.srcs)
           \/ h = "populateReads" /\ Tail(s) = Analysis4 /\ Holds(t, i.srcs)
           \/ h = "resetHolders" /\ Tail(s) = Numbers /\ ~populate_regs
           \/ h = "lockTrace" /\ Tail(s) = Numbers4 /\ ~populate_regs
           \/ h = "takeEventId" /\ Tail(s) = Numbers3 /\ ~populate_regs
<1> SUFFICES ASSUME s \notin Ended PROVE
           \/ h \in Early /\ Before(Tail(s), i)
           \/ h = "resetSrcRegs" /\ i.srcs > 0 /\ Pushing(Tail(s), i, i.srcs)
           \/ /\ h = "pushSrcReg"
              /\ \E k \in 1 .. i.srcs : Pushing(Tail(s), i, k - 1) /\ Holds(t, i.srcs - k)
           \/ h \in Late /\ Pushing(Tail(s), i, 0) /\ Holds(t, i.srcs)
           \/ h = "analyzeRegs" /\ Tail(s) = Analysis2 /\ Holds(t, i.srcs)
           \/ h = "analyzeMemWrites" /\ Tail(s) = Analysis3 /\ Holds(t, i.srcs)
           \/ h = "populateReads" /\ Tail(s) = Analysis4 /\ Holds(t, i.srcs)
           \/ h = "resetHolders" /\ Tail(s) = Numbers /\ ~populate_regs
           \/ h = "lockTrace" /\ Tail(s) = Numbers4 /\ ~populate_regs
           \/ h = "takeEventId" /\ Tail(s) = Numbers3 /\ ~populate_regs
  OBVIOUS
<1>1. i \in Insts /\ i.srcs \in Nat
  BY ThreadInst DEF InCallbacks
<1>2. ASSUME NEW k \in 0 .. i.srcs, Pushing(s, i, k), Holds(t, i.srcs - k)
      PROVE  \/ /\ h = "pushSrcReg"
                /\ \E j \in 1 .. i.srcs : Pushing(Tail(s), i, j - 1) /\ Holds(t, i.srcs - j)
             \/ h \in Late /\ Pushing(Tail(s), i, 0) /\ Holds(t, i.srcs)
             \/ h = "analyzeRegs" /\ Tail(s) = Analysis2 /\ Holds(t, i.srcs)
  <2>1. k \in Nat /\ (k = 0 => i.srcs - k = i.srcs) /\ (k > 0 => k \in 1 .. i.srcs)
    BY <1>1
  <2> QED
    BY <1>1, <1>2, <2>1, PushingStep, AnalysisTails
<1>3. CASE Before(s, i)
  <2>1. CASE i.srcs = 0 /\ Pushing(s, i, 0)
    <3>1. Holds(t, i.srcs - 0) /\ 0 \in 0 .. i.srcs
      BY <1>1, <2>1 DEF Holds
    <3> QED
      BY <1>2, <2>1, <3>1
  <2> QED
    BY <1>1, <1>3, <2>1, BeforeStep
<1>4. CASE s \in {Analysis2, Analysis3} /\ Holds(t, i.srcs)
  BY <1>4, AnalysisTails
<1>5. CASE s \in {Analysis4, Numbers, Numbers4} /\ ~populate_regs
  BY <1>5, AnalysisTails, Tails, Heads
<1> QED
  BY <1>2, <1>3, <1>4, <1>5 DEF Placed

\* What the callbacks do to what Placed is about.
Orderly(t) ==
    LET h == Head(todo[t])
    IN  /\ h = "resetSrcRegs" => srcRegsHolder' = << >>
        /\ h = "pushSrcReg" =>
              srcRegsHolder' = Append(srcRegsHolder, [of |-> cur[t], id |-> instId])
        /\ h \notin {"resetSrcRegs", "pushSrcReg", "resetHolders"} =>
              srcRegsHolder' = srcRegsHolder
        /\ h # "nextInstId" => instId' = instId
        /\ h = "populateReads" => ~populate_regs'
        /\ h \notin {"checkMemRead", "populateReads"} => populate_regs' = populate_regs

LEMMA CallbackOrderly ==
    ASSUME IInv, NEW t \in Threads, Callback(t)
    PROVE  todo[t] # << >> /\ Done(t) /\ Orderly(t) /\ UNCHANGED <<cur, ran, overlapped>>
<1>1. CASE LockStep(t) \/ UnderDataLock(t)
  BY <1>1 DEF LockStep, LockTrace, UnlockTrace, LockData, UnlockData, UnderDataLock, At, Orderly,
              holderVars, readVars, idVars
<1>2. CASE ThreadInitialized(t) \/ constructModeledIRNode(t)
  BY <1>2 DEF ThreadInitialized, constructModeledIRNode, At, Orderly, holderVars, readVars, idVars
<1>3. CASE checkMemRead(t)
  BY <1>3 DEF checkMemRead, At, Orderly, holderVars, idVars
<1>4. CASE recordSrcRegs(t)
  BY <1>4 DEF recordSrcRegs, ResetSrcRegs, PushSrcReg, At, Orderly, readVars, idVars
<1>5. CASE recordDestRegs(t) \/ recordMemWrite(t)
  BY <1>5 DEF recordDestRegs, recordMemWrite, At, Orderly, holderVars, readVars, idVars
<1>6. CASE AnalyzeRegs(t)
  BY <1>6 DEF AnalyzeRegs, At, Orderly, holderVars, readVars, idVars
<1>7. CASE analyzeMemWrites(t)
  BY <1>7 DEF analyzeMemWrites, At, Orderly, holderVars, readVars, idVars
<1>8. CASE PopulateReads(t)
  BY <1>8 DEF PopulateReads, ReadsPopulated, At, Orderly, holderVars, idVars
<1>9. CASE ResetHolders(t)
  BY <1>9 DEF ResetHolders, At, Orderly, readVars, idVars
<1>10. CASE Numbering(t)
  BY <1>10 DEF Numbering, TakeEventId, NextEventId, NextInstId, At, Orderly, holderVars, readVars
<1> QED
  BY <1>1, <1>2, <1>3, <1>4, <1>5, <1>6, <1>7, <1>8, <1>9, <1>10 DEF Callback

LEMMA CallbackPlaced ==
    ASSUME IInv, NEW t \in Threads, Placed(t), todo[t] # << >>, Done(t), Orderly(t),
           UNCHANGED <<cur, ran>>
    PROVE  Placed(t)'
<1> DEFINE i == inst(t)
           s == todo[t]
           h == Head(s)
<1>1. todo'[t] = Tail(s) /\ inst(t)' = i
  BY DEF Done, inst, IInv, Control, Waits
<1>2. CASE s \in Ended
  BY <1>1, <1>2, EndedTails DEF Placed
<1>3. CASE s \notin Ended
  <2>1. i \in Insts /\ i.srcs \in Nat
    BY <1>3, ThreadInst DEF InCallbacks
  <2> HIDE DEF i
  <2>2. ASSUME Holds(t, i.srcs),
               h \notin {"resetSrcRegs", "pushSrcReg", "resetHolders", "nextInstId"}
        PROVE  Holds(t, i.srcs)'
    BY <1>1, <2>2 DEF Holds, Orderly, i
  <2>3. CASE h \in Early /\ Before(Tail(s), i)
    BY <1>1, <2>3 DEF Placed, i
  <2>4. CASE h = "resetSrcRegs" /\ i.srcs > 0 /\ Pushing(Tail(s), i, i.srcs)
    <3>1. srcRegsHolder' = Times(0, [of |-> cur[t], id |-> instId]) /\ i.srcs - i.srcs = 0
      BY <2>1, <2>4, TimesAppend DEF Orderly
    <3>2. instId' = instId /\ cur'[t] = cur[t]
      BY <2>4 DEF Orderly
    <3>3. Holds(t, i.srcs - i.srcs)'
      BY <1>1, <3>1, <3>2 DEF Holds, i
    <3>4. i.srcs \in 0 .. i.srcs
      BY <2>1
    <3> QED
      BY <1>1, <2>4, <3>3, <3>4 DEF Placed, i
  <2>5. CASE /\ h = "pushSrcReg"
             /\ \E k \in 1 .. i.srcs : Pushing(Tail(s), i, k - 1) /\ Holds(t, i.srcs - k)
    <3>1. PICK k \in 1 .. i.srcs : Pushing(Tail(s), i, k - 1) /\ Holds(t, i.srcs - k)
      BY <2>5
    <3>2. /\ k - 1 \in 0 .. i.srcs /\ i.srcs - k \in Nat /\ i.srcs > 0
          /\ i.srcs - (k - 1) = (i.srcs - k) + 1
      BY <2>1
    <3>3. srcRegsHolder = Times(i.srcs - k, [of |-> cur[t], id |-> instId])
      BY <1>1, <3>1, <3>2 DEF Holds, i
    <3>4. srcRegsHolder' = Times((i.srcs - k) + 1, [of |-> cur[t], id |-> instId])
      BY <2>5, <3>2, <3>3, TimesAppend DEF Orderly
    <3>5. instId' = instId /\ cur'[t] = cur[t]
      BY <2>5 DEF Orderly
    <3>6. Holds(t, i.srcs - (k - 1))'
      BY <1>1, <3>2, <3>4, <3>5 DEF Holds, i
    <3> QED
      BY <1>1, <3>1, <3>2, <3>6 DEF Placed, i
  <2>6. CASE h \in Late /\ Pushing(Tail(s), i, 0) /\ Holds(t, i.srcs)
    <3>1. Holds(t, i.srcs)'
      BY <2>2, <2>6 DEF Late
    <3>2. i.srcs - 0 = i.srcs /\ 0 \in 0 .. i.srcs
      BY <2>1
    <3> QED
      BY <1>1, <2>6, <3>1, <3>2 DEF Placed, i
  <2>7. CASE \/ h = "analyzeRegs" /\ Tail(s) = Analysis2 /\ Holds(t, i.srcs)
             \/ h = "analyzeMemWrites" /\ Tail(s) = Analysis3 /\ Holds(t, i.srcs)
    <3>1. Holds(t, i.srcs)'
      BY <2>2, <2>7
    <3> QED
      BY <1>1, <2>7, <3>1 DEF Placed, i
  <2>8. CASE \/ h = "populateReads" /\ Tail(s) = Analysis4
             \/ h = "resetHolders" /\ Tail(s) = Numbers /\ ~populate_regs
             \/ h = "lockTrace" /\ Tail(s) = Numbers4 /\ ~populate_regs
    BY <1>1, <2>8 DEF Placed, Orderly
  <2>9. CASE h = "takeEventId" /\ Tail(s) = Numbers3
    BY <1>1, <2>9 DEF Placed, Ended
  <2> QED
    BY <1>3, <2>3, <2>4, <2>5, <2>6, <2>7, <2>8, <2>9, PlacedStep DEF i
<1> QED
  BY <1>2, <1>3
-----------------------------------------------------------------------------
(* What the callbacks do to what is recorded.                              *)

Idle == {"lockTrace", "nextEventId", "unlockTrace"}

\* A thread is at work if it can still change what is recorded.
LEMMA WorkSteps ==
    ASSUME IInv, NEW t \in Threads
    PROVE  /\ todo[t] # << >> /\ Head(todo[t]) \notin Idle => t \in AtWork
           /\ InCallbacks(t) => t \in AtWork
           /\ todo[t] \in Quiet => t \notin AtWork
<1>1. todo[t] \in Seq(Steps)
  BY DEF IInv, Control, Waits
<1>2. ASSUME todo[t] # << >>, Head(todo[t]) \notin Idle PROVE t \in AtWork
  <2>1. 1 \in DOMAIN todo[t] /\ Head(todo[t]) = todo[t][1]
    BY <1>1, <1>2
  <2> QED
    BY <1>2, <2>1 DEF AtWork, Idle
<1>3. ASSUME InCallbacks(t) PROVE t \in AtWork
  <2>1. todo[t] # << >> /\ todo[t] \notin {Exception, Exception2, Unlock, Numbers3, Numbers2}
    BY <1>3 DEF InCallbacks, Ended, Quiet
  <2>2. CASE Head(todo[t]) \in Neutral
    BY <1>2, <2>1, <2>2 DEF Neutral, Idle
  <2>3. CASE Head(todo[t]) \notin Neutral
    <3>1. todo[t] \in {Numbers, Numbers4}
      BY <2>1, <2>3, ComesTo DEF IInv, Critical
    <3>2. CASE todo[t] = Numbers4
      BY <1>2, <2>1, <3>2, Heads DEF Idle
    <3>3. CASE todo[t] = Numbers
      <4>1. 2 \in DOMAIN todo[t] /\ todo[t][2] = "takeEventId"
        BY <3>3 DEF Numbers
      <4> QED
        BY <4>1 DEF AtWork
    <3> QED
      BY <3>1, <3>2, <3>3
  <2> QED
    BY <2>2, <2>3
<1>4. ASSUME todo[t] \in Quiet PROVE t \notin AtWork
  <2>1. \A s \in Quiet : \A k \in DOMAIN s : s[k] \in Idle
    <3>1. \A k \in DOMAIN Exception : Exception[k] \in Idle
      BY DEF Exception, Idle
    <3>2. \A k \in DOMAIN Exception2 : Exception2[k] \in Idle
      BY DEF Exception2, Idle
    <3>3. \A k \in DOMAIN Unlock : Unlock[k] \in Idle
      BY DEF Unlock, Idle
    <3>4. DOMAIN << >> = {}
      BY EmptySeq
    <3> QED
      BY <3>1, <3>2, <3>3, <3>4 DEF Quiet
  <2> QED
    BY <1>4, <2>1 DEF AtWork, Idle
<1> QED
  BY <1>2, <1>3, <1>4

\* A callback's step leaves fewer at work.
LEMMA DoneWork ==
    ASSUME IInv, NEW t \in Threads, todo[t] # << >>, Done(t)
    PROVE  AtWork' \subseteq AtWork
<1>1. /\ \A v \in Threads : todo'[v] = IF v = t THEN Tail(todo[t]) ELSE todo[v]
      /\ todo[t] \in Seq(Steps)
  BY DEF Done, IInv, Control, Waits
<1>2. \A k \in DOMAIN Tail(todo[t]) :
         k + 1 \in DOMAIN todo[t] /\ Tail(todo[t])[k] = todo[t][k + 1]
  BY <1>1
<1>3. ASSUME NEW v \in AtWork' PROVE v \in AtWork
  <2>1. PICK k \in DOMAIN todo'[v] : todo'[v][k] \notin Idle
    BY <1>3 DEF AtWork, Idle
  <2>2. v \in Threads
    BY <1>3 DEF AtWork
  <2>3. \E j \in DOMAIN todo[v] : todo[v][j] \notin Idle
    BY <1>1, <1>2, <2>1, <2>2
  <2> QED
    BY <2>2, <2>3 DEF AtWork, Idle
<1> QED
  BY <1>3

\* If a thread does more than a handler does, no instruction of another is free.
LEMMA AloneInCallbacks ==
    ASSUME IInv, Apart, NEW t \in Threads, todo[t] # << >>, Head(todo[t]) \notin Idle, Done(t),
           UNCHANGED <<cur, overlapped>>, NEW u \in Threads, Free(u)'
    PROVE  u = t /\ Free(t)
<1>1. \A v \in Threads : todo'[v] = IF v = t THEN Tail(todo[t]) ELSE todo[v]
  BY DEF Done, IInv, Control, Waits
<1>2. u # t => Free(u)
  BY <1>1 DEF Free, InCallbacks, Alone
<1>3. u # t => ~Alone(cur[u])
  BY <1>2, WorkSteps DEF Apart, Free
<1>4. u = t
  BY <1>2, <1>3 DEF Free
<1>5. todo[t] \in Ended => todo'[t] \in Ended
  BY <1>1, EndedTails
<1> QED
  BY <1>4, <1>5 DEF Free, InCallbacks, Alone

LEMMA UnrecordedStep ==
    ASSUME IInv, Recorded,
           UNCHANGED <<cur, ran, overlapped, reads, writes, numbered, lastMemReadLoc>>,
           populate_regs' => populate_regs,
           \A u \in Threads : Free(u)' => Free(u) /\ instId' = instId
    PROVE  Recorded'
<1>1. ASSUME NEW u \in Threads, Free(u)' PROVE Current(u)'
  BY <1>1 DEF Recorded, Current, Analysed, inst, Own
<1>2. /\ \A k \in DOMAIN numbered' : numbered'[k].of \in Number'
      /\ (populate_regs /\ Alone(reads[lastMemReadLoc].by) => ~Analysed(reads[lastMemReadLoc].by))'
  BY DEF Recorded, Number, Analysed, Alone
<1>3. WritesCarryTheirRegisters' /\ ReadsCarryTheirRegisters' /\ Filed'
  BY DEF Recorded, WritesCarryTheirRegisters, ReadsCarryTheirRegisters, Filed, Analysed, Own,
         Alone
<1> QED
  BY <1>1, <1>2, <1>3 DEF Recorded

LEMMA ReadRecorded ==
    ASSUME IInv, Recorded, Apart, NEW t \in Threads, checkMemRead(t)
    PROVE  Recorded'
<1>1. /\ todo[t] # << >> /\ Head(todo[t]) \in Neutral /\ Head(todo[t]) \notin Idle /\ Done(t)
      /\ UNCHANGED <<cur, ran, overlapped, writes, numbered, instId>>
      /\ \E loc : /\ reads' = Put(reads, loc, [by |-> cur[t], regs |-> << >>])
                  /\ lastMemReadLoc' = loc
  BY DEF checkMemRead, At, Neutral, Idle, idVars
<1>2. PICK loc : /\ reads' = Put(reads, loc, [by |-> cur[t], regs |-> << >>])
                 /\ lastMemReadLoc' = loc
  BY <1>1
<1>3. InCallbacks(t)
  BY <1>1, Heads DEF InCallbacks, Ended, Quiet, Neutral, Critical
<1>4. Alone(cur[t]) => ~Analysed(cur[t])
  BY <1>3 DEF Recorded, Current, Free
<1>5. \A l \in DOMAIN reads' :
         \/ l \in DOMAIN reads /\ reads'[l] = reads[l]
         \/ reads'[l].by = cur[t] /\ Own(reads'[l])
  <2> DEFINE r == [by |-> cur[t], regs |-> << >>]
  <2>1. r.by = cur[t] /\ Own(r)
    BY EmptySeq DEF Own
  <2> HIDE DEF r
  <2> QED
    BY <1>2, <2>1 DEF Put, r
<1>6. reads'[lastMemReadLoc'].by = cur[t]
  BY <1>2 DEF Put
<1>7. ASSUME NEW u \in Threads, Free(u)' PROVE Current(u)'
  <2>1. u = t /\ Current(t)
    BY <1>1, <1>7, AloneInCallbacks DEF Recorded
  <2>2. \A l \in DOMAIN reads' : reads'[l].by = cur[t] /\ inst(t).srcs > 0 => Own(reads'[l])
    BY <1>5, <2>1 DEF Current
  <2> QED
    BY <1>1, <2>1, <2>2 DEF Current, Analysed, inst, Own
<1>8. ReadsCarryTheirRegisters'
  BY <1>1, <1>4, <1>5 DEF Recorded, ReadsCarryTheirRegisters, Analysed, Own, Alone
<1>9. WritesCarryTheirRegisters' /\ Filed'
  BY <1>1 DEF Recorded, WritesCarryTheirRegisters, Filed, Alone
<1>10. /\ \A k \in DOMAIN numbered' : numbered'[k].of \in Number'
       /\ (populate_regs /\ Alone(reads[lastMemReadLoc].by) => ~Analysed(reads[lastMemReadLoc].by))'
  BY <1>1, <1>4, <1>6 DEF Recorded, Number, Analysed, Alone
<1> QED
  BY <1>7, <1>8, <1>9, <1>10 DEF Recorded

LEMMA WriteRecorded ==
    ASSUME IInv, Recorded, Apart, NEW t \in Threads, Alone(cur[t]) => Placed(t),
           analyzeMemWrites(t)
    PROVE  Recorded'
<1> DEFINE w == [by |-> cur[t], of |-> memWrite[t], id |-> instId, regs |-> srcRegsHolder]
<1>1. /\ todo[t] # << >> /\ Head(todo[t]) = "analyzeMemWrites" /\ Done(t)
      /\ UNCHANGED <<cur, ran, overlapped, reads, populate_regs, lastMemReadLoc, numbered, instId>>
      /\ writes' = writes \/ \E loc : writes' = Put(writes, loc, w)
  BY DEF analyzeMemWrites, At, idVars, readVars
<1>2. InCallbacks(t)
  BY <1>1, Heads DEF InCallbacks, Ended, Quiet, Critical
<1>3. Alone(cur[t]) => Holds(t, inst(t).srcs)
  BY <1>1, <1>2, PlacedStep DEF InCallbacks, Early, Late
<1>4. \A u \in Threads : Free(u)' => u = t /\ Free(t)
  BY <1>1, AloneInCallbacks DEF Idle
<1>5. CASE writes' = writes
  BY <1>1, <1>4, <1>5, UnrecordedStep
<1>6. ASSUME NEW loc, writes' = Put(writes, loc, w) PROVE Recorded'
  <2>1. /\ w.by = cur[t] /\ w.id = instId
        /\ Alone(cur[t]) /\ inst(t).srcs > 0 =>
              w.regs = Times(inst(t).srcs, [of |-> w.by, id |-> w.id])
    BY <1>3 DEF Holds
  <2> HIDE DEF w
  <2>2. \A l \in DOMAIN writes' : (l \in DOMAIN writes /\ writes'[l] = writes[l]) \/ writes'[l] = w
    BY <1>6 DEF Put
  <2>3. Alone(cur[t]) => ~Analysed(cur[t]) /\ Current(t)
    BY <1>2 DEF Recorded, Current, Free
  <2>4. ASSUME NEW u \in Threads, Free(u)' PROVE Current(u)'
    <3>1. u = t /\ Current(t)
      BY <1>4, <2>3, <2>4 DEF Free
    <3>2. \A l \in DOMAIN writes' : writes'[l].by = cur[t] => writes'[l].id = instId
      BY <2>1, <2>2, <3>1 DEF Current
    <3> QED
      BY <1>1, <3>1, <3>2 DEF Current, Analysed, inst, Own
  <2>5. WritesCarryTheirRegisters'
    <3>1. ASSUME NEW l \in DOMAIN writes', Alone(writes'[l].by), ran[writes'[l].by].srcs > 0
          PROVE  writes'[l].regs = Times(ran[writes'[l].by].srcs,
                                         [of |-> writes'[l].by, id |-> writes'[l].id])
      BY <2>1, <2>2, <3>1 DEF Recorded, WritesCarryTheirRegisters, inst
    <3> QED
      BY <1>1, <3>1 DEF WritesCarryTheirRegisters, Alone
  <2>6. Filed'
    <3>1. Alone(w.by) => \A k \in DOMAIN numbered : numbered[k].of # w.by
      BY <2>1, <2>3 DEF Analysed
    <3> QED
      BY <1>1, <2>2, <3>1 DEF Recorded, Filed, Alone
  <2>7. ReadsCarryTheirRegisters'
    BY <1>1 DEF Recorded, ReadsCarryTheirRegisters, Analysed, Own, Alone
  <2>8. /\ \A k \in DOMAIN numbered' : numbered'[k].of \in Number'
        /\ (populate_regs /\ Alone(reads[lastMemReadLoc].by) => ~Analysed(reads[lastMemReadLoc].by))'
    BY <1>1 DEF Recorded, Number, Analysed, Alone
  <2> QED
    BY <2>4, <2>5, <2>6, <2>7, <2>8 DEF Recorded
<1> QED
  BY <1>1, <1>5, <1>6

LEMMA OwnRegisters ==
    ASSUME NEW n, n \in Nat, NEW c, NEW id, NEW read, read.by = c,
           read.regs = Times(n, [of |-> c, id |-> id])
    PROVE  Own(read)
BY DEF Own, Times

LEMMA PopulateRecorded ==
    ASSUME IInv, Recorded, Apart, NEW t \in Threads, Alone(cur[t]) => Placed(t),
           PopulateReads(t)
    PROVE  Recorded'
<1>1. /\ todo[t] # << >> /\ Head(todo[t]) = "populateReads" /\ Done(t)
      /\ UNCHANGED <<cur, ran, overlapped, writes, lastMemReadLoc, numbered, instId>>
      /\ ~populate_regs'
      /\ \/ reads' = reads
         \/ populate_regs /\ reads' = [reads EXCEPT ![lastMemReadLoc].regs = srcRegsHolder]
  BY DEF PopulateReads, ReadsPopulated, At, idVars
<1>2. InCallbacks(t)
  BY <1>1, Heads DEF InCallbacks, Ended, Quiet, Critical
<1>3. Alone(cur[t]) => Holds(t, inst(t).srcs)
  BY <1>1, <1>2, PlacedStep DEF InCallbacks, Early, Late
<1>4. \A u \in Threads : Free(u)' => u = t /\ Free(t)
  BY <1>1, AloneInCallbacks DEF Idle
<1>5. CASE reads' = reads
  BY <1>1, <1>4, <1>5, UnrecordedStep
<1>6. CASE populate_regs /\ reads' = [reads EXCEPT ![lastMemReadLoc].regs = srcRegsHolder]
  <2>1. lastMemReadLoc \in DOMAIN reads /\ \A l \in DOMAIN reads : reads[l] \in Read
    BY <1>6 DEF IInv, Typed, TypeOK
  <2>2. /\ DOMAIN reads' = DOMAIN reads
        /\ \A l \in DOMAIN reads : l # lastMemReadLoc => reads'[l] = reads[l]
        /\ reads'[lastMemReadLoc] = [reads[lastMemReadLoc] EXCEPT !.regs = srcRegsHolder]
    BY <1>6, <2>1
  <2> DEFINE old == reads[lastMemReadLoc]
             new == reads'[lastMemReadLoc]
  <2>3. new.by = old.by /\ new.regs = srcRegsHolder
    BY <2>1, <2>2 DEF Read
  <2>4. Alone(old.by) => ~Analysed(old.by)
    BY <1>6 DEF Recorded
  <2>5. old.by = cur[t] /\ Alone(cur[t]) /\ inst(t).srcs > 0 => Own(new)
    <3>1. inst(t).srcs \in Nat
      BY <1>2, ThreadInst
    <3> HIDE DEF new, old
    <3> QED
      BY <1>3, <2>3, <3>1, OwnRegisters DEF Holds
  <2>6. ASSUME NEW u \in Threads, Free(u)' PROVE Current(u)'
    <3>1. u = t /\ Current(t) /\ Alone(cur[t])
      BY <1>4, <2>6 DEF Recorded, Free
    <3>2. \A l \in DOMAIN reads' : reads'[l].by = cur[t] /\ inst(t).srcs > 0 => Own(reads'[l])
      BY <2>2, <2>3, <2>5, <3>1 DEF Current
    <3> QED
      BY <1>1, <3>1, <3>2 DEF Current, Analysed, inst, Own
  <2>7. ReadsCarryTheirRegisters'
    <3>1. ASSUME NEW l \in DOMAIN reads', Alone(reads'[l].by), Analysed(reads'[l].by),
                 ran[reads'[l].by].srcs > 0
          PROVE  Own(reads'[l])
      BY <2>2, <2>3, <2>4, <3>1 DEF Recorded, ReadsCarryTheirRegisters
    <3> QED
      BY <1>1, <3>1 DEF ReadsCarryTheirRegisters, Analysed, Own, Alone
  <2>8. WritesCarryTheirRegisters' /\ Filed'
    BY <1>1 DEF Recorded, WritesCarryTheirRegisters, Filed, Alone
  <2>9. \A k \in DOMAIN numbered' : numbered'[k].of \in Number'
    BY <1>1 DEF Recorded, Number
  <2> QED
    BY <1>1, <2>6, <2>7, <2>8, <2>9 DEF Recorded
<1> QED
  BY <1>1, <1>5, <1>6

LEMMA TakenRecorded ==
    ASSUME IInv, Recorded, Apart, NEW t \in Threads, Alone(cur[t]) => Placed(t),
           TakeEventId(t), Numbering(t)
    PROVE  Recorded'
<1> DEFINE r == [of |-> cur[t], event |-> eventId, inst |-> instId]
<1>1. /\ todo[t] # << >> /\ Head(todo[t]) = "takeEventId" /\ Done(t)
      /\ UNCHANGED <<cur, ran, overlapped, writes, reads, populate_regs, lastMemReadLoc, instId>>
      /\ numbered' = Append(numbered, r)
  BY DEF TakeEventId, Numbering, At, readVars
<1>2. todo[t] = Numbers4
  BY <1>1, ComesTo DEF IInv, Neutral
<1>3. InCallbacks(t)
  <2>1. Len(Numbers4) = 4 /\ Len(Numbers3) = 3 /\ Len(Numbers2) = 2 /\ Len(<< >>) = 0
        /\ Len(Exception) = 3 /\ Len(Exception2) = 2 /\ Len(Unlock) = 1
    BY DEF Numbers4, Numbers3, Numbers2, Exception, Exception2, Unlock
  <2>2. /\ Numbers4 # << >> /\ Numbers4 # Exception /\ Numbers4 # Exception2
        /\ Numbers4 # Unlock /\ Numbers4 # Numbers3 /\ Numbers4 # Numbers2
    <3>1. Numbers4 # << >>
      BY <2>1
    <3>2. Numbers4 # Exception
      BY <2>1
    <3>3. Numbers4 # Exception2
      BY <2>1
    <3>4. Numbers4 # Unlock
      BY <2>1
    <3>5. Numbers4 # Numbers3 /\ Numbers4 # Numbers2
      BY <2>1
    <3> QED
      BY <3>1, <3>2, <3>3, <3>4, <3>5
  <2>3. Ended = {<< >>, Exception, Exception2, Unlock, Numbers3, Numbers2}
    BY DEF Ended, Quiet
  <2> QED
    BY <1>2, <2>2, <2>3 DEF InCallbacks
<1>4. Alone(cur[t]) => ~populate_regs
  BY <1>1, <1>3, PlacedStep DEF InCallbacks, Early, Late
<1>5. todo'[t] = Numbers3
  BY <1>1, <1>2, Tails DEF Done, IInv, Control, Waits
<1>6. \A u \in Threads : ~Free(u)'
  BY <1>1, <1>5, AloneInCallbacks DEF Free, InCallbacks, Ended, Idle
<1>7. cur[t] \in Number /\ (Alone(cur[t]) => Current(t))
  BY <1>3, ThreadInst DEF Recorded, Free
<1>8. /\ r.of = cur[t] /\ r.inst = instId
      /\ \A k \in DOMAIN numbered' : numbered'[k] = r \/ (k \in DOMAIN numbered /\ numbered'[k] = numbered[k])
  <2>1. numbered \in Seq(Record) /\ numbered' = Append(numbered, r) /\ r \in Record
    BY <1>1, <1>7 DEF IInv, Control, Counters, Record, Number
  <2> HIDE DEF r
  <2>2. /\ DOMAIN numbered = 1 .. Len(numbered) /\ Len(numbered) \in Nat
        /\ DOMAIN numbered' = 1 .. Len(numbered) + 1
        /\ \A k \in DOMAIN numbered : numbered'[k] = numbered[k]
        /\ numbered'[Len(numbered) + 1] = r
    BY <2>1
  <2>3. \A k \in DOMAIN numbered' : k \in DOMAIN numbered \/ k = Len(numbered) + 1
    BY <2>2
  <2>4. ASSUME NEW k \in DOMAIN numbered'
        PROVE  numbered'[k] = r \/ (k \in DOMAIN numbered /\ numbered'[k] = numbered[k])
    <3>1. CASE k \in DOMAIN numbered
      BY <2>2, <3>1
    <3>2. CASE k = Len(numbered) + 1
      BY <2>2, <3>2
    <3> QED
      BY <2>3, <3>1, <3>2
  <2> QED
    BY <2>4 DEF r
<1> HIDE DEF r
<1>9. \A n : Analysed(n)' => Analysed(n) \/ n = cur[t]
  BY <1>8 DEF Analysed
<1>10. \A k \in DOMAIN numbered' : numbered'[k].of \in Number'
  BY <1>1, <1>7, <1>8 DEF Recorded, Number
<1>11. WritesCarryTheirRegisters'
  BY <1>1 DEF Recorded, WritesCarryTheirRegisters, Alone
<1>12. ReadsCarryTheirRegisters'
  <2>1. ASSUME NEW l \in DOMAIN reads, Alone(reads[l].by),
               Analysed(reads[l].by) \/ reads[l].by = cur[t],
               ran[reads[l].by].srcs > 0
        PROVE  Own(reads[l])
    BY <1>7, <2>1 DEF Recorded, ReadsCarryTheirRegisters, Current, inst
  <2> QED
    BY <1>1, <1>9, <2>1 DEF ReadsCarryTheirRegisters, Own, Alone
<1>13. Filed'
  BY <1>1, <1>7, <1>8 DEF Recorded, Filed, Current, Alone
<1>14. (populate_regs /\ Alone(reads[lastMemReadLoc].by) => ~Analysed(reads[lastMemReadLoc].by))'
  BY <1>1, <1>4, <1>9 DEF Recorded, Alone
<1> QED
  BY <1>6, <1>10, <1>11, <1>12, <1>13, <1>14 DEF Recorded

LEMMA CallbackAttributed ==
    ASSUME IInv, Attributed, NEW t \in Threads, Callback(t)
    PROVE  Attributed'
<1>1. /\ todo[t] # << >> /\ Done(t) /\ Orderly(t) /\ UNCHANGED <<cur, ran, overlapped>>
      /\ (Alone(cur[t]) => Placed(t)) /\ Recorded /\ Apart
  BY CallbackOrderly DEF Attributed
<1>2. ASSUME NEW u \in Threads, Alone(cur[u])' PROVE Placed(u)'
  <2>1. Alone(cur[u]) /\ Placed(u)
    BY <1>1, <1>2 DEF Alone, Attributed
  <2>2. CASE u = t
    BY <1>1, <2>1, <2>2, CallbackPlaced
  <2>3. CASE u # t /\ Head(todo[t]) \notin Idle
    <3>1. ~Free(u)'
      BY <1>1, <2>3, AloneInCallbacks
    <3> QED
      BY <1>2, <3>1 DEF Free, InCallbacks, Placed
  <2>4. CASE u # t /\ Head(todo[t]) \in Idle
    <3>1. todo'[u] = todo[u] /\ cur'[u] = cur[u] /\ inst(u)' = inst(u)
      BY <1>1, <2>4 DEF Done, IInv, Control, Waits, inst
    <3>2. UNCHANGED <<srcRegsHolder, instId, populate_regs>>
      BY <1>1, <2>4 DEF Orderly, Idle
    <3> QED
      BY <2>1, <3>1, <3>2 DEF Placed, Holds
  <2> QED
    BY <2>2, <2>3, <2>4
<1>3. ASSUME NEW u \in Threads, Free(u)' PROVE Free(u) /\ (Head(todo[t]) \notin Idle => u = t)
  <2>1. CASE Head(todo[t]) \notin Idle
    BY <1>1, <1>3, <2>1, AloneInCallbacks
  <2>2. CASE Head(todo[t]) \in Idle
    <3>1. todo'[u] = IF u = t THEN Tail(todo[t]) ELSE todo[u]
      BY <1>1 DEF Done, IInv, Control, Waits
    <3> QED
      BY <1>1, <1>3, <2>2, <3>1, EndedTails DEF Free, InCallbacks, Alone
  <2> QED
    BY <2>1, <2>2
<1>0. Apart'
  BY <1>1, DoneWork DEF Apart, Alone, AtWork
<1>4. CASE NextInstId(t) /\ Numbering(t)
  <2>1. /\ Head(todo[t]) = "nextInstId" /\ UNCHANGED <<reads, writes, numbered, lastMemReadLoc>>
        /\ populate_regs' = populate_regs
    BY <1>4 DEF NextInstId, Numbering, At, readVars
  <2>2. todo[t] = Numbers2
    BY <1>1, <2>1, ComesTo DEF IInv, Neutral
  <2>3. ~Free(t) /\ Head(todo[t]) \notin Idle
    BY <2>1, <2>2 DEF Free, InCallbacks, Ended, Idle
  <2> QED
    BY <1>0, <1>1, <1>2, <1>3, <2>1, <2>3, UnrecordedStep DEF Attributed
<1>5. CASE \/ LockStep(t) \/ UnderDataLock(t) \/ ThreadInitialized(t)
           \/ constructModeledIRNode(t) \/ recordSrcRegs(t) \/ recordDestRegs(t)
           \/ recordMemWrite(t) \/ AnalyzeRegs(t) \/ ResetHolders(t)
           \/ NextEventId(t) /\ Numbering(t)
  <2>1. UNCHANGED <<reads, writes, numbered, lastMemReadLoc, populate_regs, instId>>
    BY <1>5 DEF LockStep, UnderDataLock, ThreadInitialized, constructModeledIRNode,
                recordSrcRegs, recordDestRegs, recordMemWrite, AnalyzeRegs, ResetHolders,
                NextEventId, Numbering, readVars, idVars
  <2> QED
    BY <1>0, <1>1, <1>2, <1>3, <2>1, UnrecordedStep DEF Attributed
<1>6. CASE \/ checkMemRead(t) \/ analyzeMemWrites(t) \/ PopulateReads(t)
           \/ TakeEventId(t) /\ Numbering(t)
  BY <1>0, <1>1, <1>2, <1>6, ReadRecorded, WriteRecorded, PopulateRecorded, TakenRecorded
     DEF Attributed
<1>7. Numbering(t) => TakeEventId(t) \/ NextEventId(t) \/ NextInstId(t)
  BY DEF Numbering
<1>8. \/ LockStep(t) \/ UnderDataLock(t) \/ ThreadInitialized(t)
      \/ constructModeledIRNode(t) \/ checkMemRead(t) \/ recordSrcRegs(t)
      \/ recordDestRegs(t) \/ recordMemWrite(t)
      \/ AnalyzeRegs(t) \/ analyzeMemWrites(t) \/ PopulateReads(t)
      \/ ResetHolders(t) \/ Numbering(t)
  BY DEF Callback
<1> QED
  BY <1>4, <1>5, <1>6, <1>7, <1>8

\* A new instruction has a number of its own.
LEMMA StartAttributed ==
    ASSUME IInv, Attributed, NEW t \in Threads, NEW i \in Insts, StartInst(t, i)
    PROVE  Attributed'
<1> DEFINE s == If(~initialized[t], InitThreadSteps) \o Callbacks(i)
<1>1. /\ todo[t] = << >> /\ ran' = Append(ran, i) /\ cur' = [cur EXCEPT ![t] = Len(ran) + 1]
      /\ todo' = [todo EXCEPT ![t] = s]
      /\ overlapped' = overlapped \cup UNION {{cur[u], Len(ran) + 1} : u \in AtWork}
      /\ UNCHANGED <<reads, writes, numbered, populate_regs, lastMemReadLoc, instId>>
  BY DEF StartInst, readVars, idVars
<1> HIDE DEF s
<1>2. /\ ran \in Seq(Insts) /\ cur \in [Threads -> Nat \cup {NONE}]
      /\ todo \in [Threads -> Seq(Steps)]
      /\ \A l \in DOMAIN reads : reads[l].by \in Number
      /\ \A l \in DOMAIN writes : writes[l].by \in Number
      /\ populate_regs => lastMemReadLoc \in DOMAIN reads
  BY DEF IInv, Kinds, Control, Waits, Typed, TypeOK
<1>3. /\ Len(ran) \in Nat /\ Len(ran) + 1 \notin Number /\ Number \subseteq Number'
      /\ \A n \in Number : ran'[n] = ran[n]
      /\ ran'[Len(ran) + 1] = i
      /\ cur'[t] = Len(ran) + 1 /\ todo'[t] = s
  BY <1>1, <1>2 DEF Number
<1>4. inst(t)' = i
  BY <1>3 DEF inst
<1>5. Before(s, i)
  BY InstBefore DEF s
<1>6. \A u \in Threads : u # t => todo'[u] = todo[u] /\ cur'[u] = cur[u]
  BY <1>1, <1>2
<1>0. \A n : Alone(n)' => Alone(n)
  BY <1>1 DEF Alone
<1>7. ASSUME NEW u \in Threads, u # t, Free(u)'
      PROVE  Free(u) /\ inst(u)' = inst(u) /\ Current(u)
  <2>1. Free(u)
    BY <1>0, <1>6, <1>7 DEF Free, InCallbacks
  <2>2. cur[u] \in Number
    BY <2>1, ThreadInst DEF Free
  <2> QED
    BY <1>3, <1>6, <1>7, <2>1, <2>2 DEF inst, Attributed, Recorded
<1>8. ASSUME NEW u \in Threads, Alone(cur[u])' PROVE Placed(u)'
  <2>1. CASE u = t
    BY <1>3, <1>4, <1>5, <2>1 DEF Placed
  <2>2. CASE u # t /\ ~InCallbacks(u)'
    BY <2>2 DEF InCallbacks, Placed
  <2>3. CASE u # t /\ InCallbacks(u)'
    <3>0. Free(u)'
      BY <1>8, <2>3 DEF Free
    <3>1. inst(u)' = inst(u) /\ todo'[u] = todo[u] /\ cur'[u] = cur[u] /\ Placed(u)
          /\ srcRegsHolder' = srcRegsHolder
      BY <1>6, <1>7, <2>3, <3>0 DEF Attributed, StartInst, holderVars, Free
    <3> QED
      BY <1>1, <3>1 DEF Placed, Holds
  <2> QED
    BY <2>1, <2>2, <2>3
<1>13. Apart'
  <2>1. AtWork' \subseteq AtWork \cup {t}
    BY <1>6 DEF AtWork
  <2>2. \A u \in AtWork : ~Alone(cur[u])' /\ ~Alone(cur[t])'
    <3>1. t \notin AtWork
      BY <1>1, WorkSteps DEF Quiet
    <3>2. ASSUME NEW u \in AtWork PROVE cur[u] \in overlapped' /\ Len(ran) + 1 \in overlapped'
      BY <1>1
    <3>3. \A u \in AtWork : cur'[u] = cur[u]
      BY <1>6, <3>1 DEF AtWork
    <3> QED
      BY <1>3, <3>2, <3>3 DEF Alone
  <2> QED
    BY <2>1, <2>2 DEF Apart
<1>9. \A k \in DOMAIN numbered : numbered[k].of \in Number
  BY DEF Attributed, Recorded
<1>10. ASSUME NEW u \in Threads, Free(u)' PROVE Current(u)'
  <2>1. CASE u = t
    <3>1. ~Analysed(cur[t])'
      BY <1>1, <1>3, <1>9 DEF Analysed
    <3>2. /\ \A l \in DOMAIN reads : reads[l].by # cur'[t]
          /\ \A l \in DOMAIN writes : writes[l].by # cur'[t]
      BY <1>2, <1>3
    <3> QED
      BY <1>1, <2>1, <3>1, <3>2 DEF Current
  <2>2. CASE u # t
    BY <1>1, <1>6, <1>7, <1>10, <2>2 DEF Current, Analysed, Own
  <2> QED
    BY <2>1, <2>2
<1>11. WritesCarryTheirRegisters' /\ ReadsCarryTheirRegisters' /\ Filed'
  BY <1>0, <1>1, <1>2, <1>3 DEF Attributed, Recorded, WritesCarryTheirRegisters,
                          ReadsCarryTheirRegisters, Filed, Analysed, Own
<1>12. /\ \A k \in DOMAIN numbered' : numbered'[k].of \in Number'
       /\ (populate_regs /\ Alone(reads[lastMemReadLoc].by) => ~Analysed(reads[lastMemReadLoc].by))'
  BY <1>0, <1>1, <1>3, <1>9 DEF Attributed, Recorded, Analysed
<1> QED
  BY <1>8, <1>10, <1>11, <1>12, <1>13 DEF Attributed, Recorded

LEMMA ProgramAttributed ==
    ASSUME IInv, Attributed, NEW t \in Threads, Program(t)
    PROVE  Attributed'
<1>0. todo \in [Threads -> Seq(Steps)] /\ cur \in [Threads -> Nat \cup {NONE}]
  BY DEF IInv, Kinds, Control, Waits
<1>1. CASE StartThread(t) \/ TooManyThreads(t) \/ EndThread(t) \/ Fault(t) \/ contextChange(t)
  <2>1. /\ UNCHANGED <<ran, overlapped, reads, writes, numbered, populate_regs, lastMemReadLoc, instId,
                       srcRegsHolder>>
        /\ \/ todo' = todo /\ (cur' = cur \/ (cur' = [cur EXCEPT ![t] = NONE] /\ t \notin started))
           \/ todo' = [todo EXCEPT ![t] = Exception] /\ cur' = cur
    BY <1>1 DEF StartThread, TooManyThreads, EndThread, Fault, contextChange, readVars, idVars,
                holderVars
  <2>2. todo'[t] \in Ended \/ (todo' = todo /\ cur' = cur)
    <3>1. t \notin started => todo[t] = << >>
      BY DEF IInv, Scheduled
    <3> QED
      BY <1>0, <2>1, <3>1 DEF Ended, Quiet
  <2>3. \A u \in Threads : u # t => todo'[u] = todo[u] /\ cur'[u] = cur[u]
    BY <1>0, <2>1
  <2>0. \A n : Alone(n)' = Alone(n)
    BY <2>1 DEF Alone
  <2>4. \A u \in Threads : InCallbacks(u)' =>
            /\ todo'[u] = todo[u] /\ cur'[u] = cur[u] /\ InCallbacks(u)
            /\ Free(u)' => Free(u)
    BY <2>0, <2>2, <2>3 DEF InCallbacks, Free
  <2>5. ASSUME NEW u \in Threads, Free(u)' PROVE Current(u)'
    BY <2>1, <2>4, <2>5 DEF Attributed, Recorded, Current, Analysed, inst, Own, Free
  <2>6. ASSUME NEW u \in Threads, Alone(cur[u])' PROVE Placed(u)'
    <3>1. CASE InCallbacks(u)'
      BY <2>0, <2>1, <2>4, <2>6, <3>1 DEF Attributed, Placed, Holds, inst
    <3>2. CASE ~InCallbacks(u)'
      BY <3>2 DEF InCallbacks, Placed
    <3> QED
      BY <3>1, <3>2
  <2>7. WritesCarryTheirRegisters' /\ ReadsCarryTheirRegisters' /\ Filed'
    BY <2>0, <2>1 DEF Attributed, Recorded, WritesCarryTheirRegisters, ReadsCarryTheirRegisters, Filed,
                Analysed, Own
  <2>8. /\ \A k \in DOMAIN numbered' : numbered'[k].of \in Number'
        /\ (populate_regs /\ Alone(reads[lastMemReadLoc].by) => ~Analysed(reads[lastMemReadLoc].by))'
    BY <2>0, <2>1 DEF Attributed, Recorded, Analysed, Number
  <2>9. Apart'
    <3>1. t \notin started => t \notin AtWork
      BY WorkSteps DEF IInv, Scheduled, Quiet
    <3>2. \A u \in AtWork' : u \in AtWork /\ cur'[u] = cur[u]
      <4>1. todo' = [todo EXCEPT ![t] = Exception] => t \notin AtWork'
        <5>1. \A k \in DOMAIN Exception : Exception[k] \in Idle
          BY DEF Exception, Idle
        <5> QED
          BY <1>0, <5>1 DEF AtWork, Idle
      <4>2. \A u \in AtWork' : u \in Threads /\ (todo'[u] = todo[u] => u \in AtWork)
        BY DEF AtWork
      <4> QED
        BY <1>0, <2>1, <2>3, <3>1, <4>1, <4>2
    <3> QED
      BY <2>0, <3>2 DEF Apart, Attributed
  <2> QED
    BY <2>5, <2>6, <2>7, <2>8, <2>9 DEF Attributed, Recorded
<1>2. ASSUME NEW i \in Insts, StartInst(t, i) PROVE Attributed'
  BY <1>2, StartAttributed
<1> QED
  BY <1>1, <1>2 DEF Program

LEMMA InitAttributed == Init => Attributed
<1> SUFFICES ASSUME Init PROVE Attributed
  OBVIOUS
<1>1. \A t \in Threads : todo[t] = << >>
  BY DEF Init
<1>2. DOMAIN reads = {} /\ DOMAIN writes = {} /\ DOMAIN numbered = {} /\ ~populate_regs
  BY EmptySeq DEF Init
<1>3. \A t \in Threads : Placed(t) /\ ~Free(t)
  BY <1>1 DEF Placed, Free, InCallbacks, Ended, Quiet
<1>4. AtWork = {}
  BY <1>1, EmptySeq DEF AtWork
<1> QED
  BY <1>2, <1>3, <1>4 DEF Attributed, Apart, Recorded, WritesCarryTheirRegisters,
                          ReadsCarryTheirRegisters, Filed

LEMMA AttributionInvariant == Spec => [](IInv /\ Attributed)
<1>1. Init => IInv /\ Attributed
  BY Inductive, InitAttributed
<1>2. ASSUME IInv, Attributed, [Next]_vars PROVE IInv' /\ Attributed'
  <2>1. IInv'
    BY <1>2, Inductive
  <2>2. CASE UNCHANGED vars
    <3>1. UNCHANGED <<todo, cur, ran, overlapped, reads, writes, numbered, populate_regs,
                      lastMemReadLoc, instId, srcRegsHolder>>
      BY <2>2 DEF vars, readVars, idVars, holderVars
    <3>2. \A u \in Threads : Alone(cur[u])' => Placed(u)'
      BY <1>2, <3>1 DEF Attributed, Placed, Holds, inst, Alone
    <3>3. Recorded'
      BY <1>2, <3>1, UnrecordedStep DEF Attributed, Free, InCallbacks, Alone
    <3>4. Apart'
      BY <1>2, <3>1 DEF Attributed, Apart, AtWork, Alone
    <3> QED
      BY <2>1, <3>2, <3>3, <3>4 DEF Attributed
  <2>3. ASSUME Next PROVE Attributed'
    BY <1>2, <2>1, <2>2, <2>3, CallbackAttributed, ProgramAttributed DEF Next, Terminated
  <2> QED
    BY <1>2, <2>1, <2>2, <2>3
<1> QED
  BY <1>1, <1>2, PTL DEF Spec

\* However many threads there are and however they interleave: a recorded write of an
\* instruction that no other overlaps has the registers it read, all of them, under its
\* number (recordSrcRegs and analyzeMemWrites, l. 1157-1507).
THEOREM WritesCarryTheirRegistersHolds == Spec => []WritesCarryTheirRegisters
<1>1. Attributed => WritesCarryTheirRegisters
  BY DEF Attributed, Recorded
<1> QED
  BY <1>1, AttributionInvariant, PTL

\* A recorded read of such an instruction has its registers once it was analysed, and
\* nothing that other threads do later takes them away (l. 1355-1364).
THEOREM ReadsCarryTheirRegistersHolds == Spec => []ReadsCarryTheirRegisters
<1>1. Attributed => ReadsCarryTheirRegisters
  BY DEF Attributed, Recorded
<1> QED
  BY <1>1, AttributionInvariant, PTL

\* A write of such an instruction and its registers are filed under the number that its
\* analysis gives out only at its end (l. 1371-1378).
THEOREM FiledUnderOwnNumberHolds == Spec => []FiledUnderOwnNumber
<1>1. Attributed /\ IInv => FiledUnderOwnNumber
  <2>1. ASSUME Attributed, IInv, NEW l \in DOMAIN writes, NEW k \in DOMAIN numbered,
               Alone(writes[l].by),
               numbered[k].of = writes[l].by, ran[writes[l].by].srcs > 0,
               NEW r \in DOMAIN writes[l].regs
        PROVE  writes[l].regs[r].id = numbered[k].inst
    <3>1. writes[l].regs = Times(ran[writes[l].by].srcs,
                                 [of |-> writes[l].by, id |-> writes[l].id])
      BY <2>1 DEF Attributed, Recorded, WritesCarryTheirRegisters
    <3>2. writes[l].id = numbered[k].inst
      BY <2>1 DEF Attributed, Recorded, Filed
    <3>3. writes[l].regs[r] = [of |-> writes[l].by, id |-> writes[l].id]
      BY <2>1, <3>1 DEF Times
    <3> QED
      BY <3>2, <3>3
  <2> QED
    BY <2>1 DEF Attributed, Recorded, Filed, FiledUnderOwnNumber
<1> QED
  BY <1>1, AttributionInvariant, PTL
=============================================================================
