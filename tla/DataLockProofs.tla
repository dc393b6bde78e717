--------------------------- MODULE DataLockProofs ---------------------------
(***************************************************************************)
(* Theorems about DataLock, for any threads, tree, marks and number of     *)
(* stray unlocks: types, what survives the races that strays allow (the    *)
(* default pages, the bounds of the buffer), exclusion until one comes,    *)
(* what exclusion gives the dumps of registers, and what becomes of marks. *)
(***************************************************************************)
EXTENDS DataLock, FiniteSetTheorems, TLAPS

(* Where a thread has got hold of an SM, a TM and a QM.                    *)
HasSM == {"checkTM", "checkQM", "returnQM", "copyTM", "copyTM of SM", "copyQM",
          "copyQM of SM", "copyQM of TM", "linkSM", "linkTM"}
HasTM == {"checkQM", "returnQM", "copyQM", "copyQM of SM", "copyQM of TM",
          "linkSM", "linkTM", "linkQM"}
HasQM == {"returnQM", "linkSM", "linkTM", "linkQM", "load", "store"}
InPart == HasSM \cup HasTM \cup HasQM \cup {"copySM"}

\* What a thread has got hold of is private, and so is what it read from a slot:
\* a slot that has left the default page does not come back to it.
PrivateOf(t) ==
    /\ pc[t] \in InPart => parts[t] # << >>
    /\ pc[t] \in HasSM => sm[t] # Default
    /\ pc[t] \in HasTM => tm[t] # Default
    /\ pc[t] \in HasQM => qm[t] # Default
    /\ pc[t] = "checkTM" => PM[Part1(t).pm] # Default
    /\ pc[t] = "checkQM" => SM[sm[t]][Part1(t).sm] # Default
    /\ pc[t] = "returnQM" => TM[tm[t]][Part1(t).tm] # Default

Private == \A t \in Threads : PrivateOf(t)

Held == strays = 0 => \A t \in Threads : Inside(t) => dataLock = t

Fitting ==
    /\ dataBufPos <= BUF_SIZE
    /\ \A t \in Threads :
          /\ pc[t] = "fits" => pos[t] <= BUF_SIZE
          /\ pc[t] = "printDataReg" =>
                reg[t] <= NumRegs + 1 /\ pos[t] + (NumRegs + 1 - reg[t]) <= BUF_SIZE

-----------------------------------------------------------------------------

LEMMA NoneIsNoThread == None \notin Threads
BY DataLockAssumption

LEMMA SizesType ==
    NumRegs \in Nat /\ RESERVED \in Nat /\ BUF_SIZE \in Nat /\ NumRegs <= RESERVED /\ RESERVED <= BUF_SIZE
BY DataLockAssumption

LEMMA MarksType == Marks \subseteq Seq(Part)
BY DataLockAssumption

LEMMA ElementOf ==
    ASSUME NEW S, NEW s \in Seq(S), NEW i \in DOMAIN s
    PROVE  s[i] \in S
OBVIOUS

LEMMA SeqExcept ==
    ASSUME NEW S, NEW s \in Seq(S), NEW i \in DOMAIN s, NEW v \in S
    PROVE  [s EXCEPT ![i] = v] \in Seq(S) /\ DOMAIN [s EXCEPT ![i] = v] = DOMAIN s
OBVIOUS

LEMMA SeqWidens ==
    ASSUME NEW S, NEW T, S \subseteq T
    PROVE  Seq(S) \subseteq Seq(T)
OBVIOUS

\* The slots of pages name pages.
LEMMA PagesType ==
    ASSUME TypeOK
    PROVE  /\ \A p \in DOMAIN SM : SM[p] \in [Slots -> DOMAIN TM]
           /\ \A p \in DOMAIN TM : TM[p] \in [Slots -> DOMAIN QM]
           /\ \A p \in DOMAIN QM : QM[p] \in [SeenBytes -> SUBSET Bits]
<1>1. SM \in Seq([Slots -> DOMAIN TM]) /\ TM \in Seq([Slots -> DOMAIN QM])
      /\ QM \in Seq([SeenBytes -> SUBSET Bits])
  BY DEF TypeOK, TreeTypeOK
<1> QED
  BY <1>1, ElementOf

\* The part a thread is at.
LEMMA Part1Type ==
    ASSUME TypeOK, NEW t \in Threads, parts[t] # << >>
    PROVE  /\ Part1(t) \in Part
           /\ Part1(t).pm \in Slots /\ Part1(t).sm \in Slots /\ Part1(t).tm \in Slots
           /\ Part1(t).byte \in SeenBytes /\ Part1(t).bits \subseteq Bits
<1>1. parts[t] \in Seq(Part)
  BY DEF TypeOK, OtherTypeOK
<1>2. Head(parts[t]) \in Part
  BY <1>1
<1> QED
  BY <1>2 DEF Part1, Part

\* What a new copy of a page is.
LEMMA CopiedType ==
    ASSUME NEW S, NEW pages \in Seq(S), NEW p \in DOMAIN pages
    PROVE  /\ Copied(pages, p) \in Seq(S)
           /\ DOMAIN Copied(pages, p) = 1 .. Len(pages) + 1
           /\ DOMAIN pages = 1 .. Len(pages) /\ Len(pages) \in Nat
           /\ \A q \in DOMAIN pages : Copied(pages, p)[q] = pages[q]
           /\ Copied(pages, p)[Len(pages) + 1] = pages[p]
           /\ Copied(pages, p) # << >>
BY DEF Copied

-----------------------------------------------------------------------------
(* The tree of pages.                                                      *)

LEMMA InitTree == Init => TypeOK /\ DefaultsNeverChange /\ Private
<1> SUFFICES ASSUME Init PROVE TypeOK /\ DefaultsNeverChange /\ Private
  OBVIOUS
<1> USE DEF Init, Default
<1>1. SM = <<AllDefault>> /\ TM = <<AllDefault>> /\ QM = <<NoBits>>
  OBVIOUS
<1>2. DOMAIN SM = {1} /\ DOMAIN TM = {1} /\ DOMAIN QM = {1}
  BY <1>1
<1>3. AllDefault \in [Slots -> {1}] /\ NoBits \in [SeenBytes -> SUBSET Bits]
  BY DEF AllDefault, NoBits
<1>4. TreeTypeOK
  BY <1>1, <1>2, <1>3 DEF TreeTypeOK
<1>5. OtherTypeOK
  BY SizesType, NoneIsNoThread DEF OtherTypeOK
<1>6. DefaultsNeverChange
  BY <1>1 DEF DefaultsNeverChange
<1>7. Private
  BY DEF Private, PrivateOf, InPart, HasSM, HasTM, HasQM
<1> QED
  BY <1>4, <1>5, <1>6, <1>7 DEF TypeOK

\* A step that touches no page and no local pointer, and does not enter a part.
LEMMA OutsideTree ==
    ASSUME TypeOK, DefaultsNeverChange, Private, OtherTypeOK',
           UNCHANGED <<treeVars, sm, tm, qm>>, NEW t \in Threads,
           \A u \in Threads \ {t} : pc'[u] = pc[u] /\ parts'[u] = parts[u],
           pc'[t] \notin InPart
    PROVE  TypeOK' /\ DefaultsNeverChange' /\ Private'
<1>1. TreeTypeOK' /\ DefaultsNeverChange'
  BY DEF TypeOK, TreeTypeOK, DefaultsNeverChange, treeVars
<1>2. Private'
  BY DEF Private, PrivateOf, Part1, treeVars, InPart, HasSM, HasTM, HasQM
<1> QED
  BY <1>1, <1>2 DEF TypeOK
\* The tests of getQMForWriting change no page.
LEMMA ChecksKeepTree ==
    ASSUME TypeOK, DefaultsNeverChange, Private, NEW t \in Threads,
           checkSM(t) \/ checkTM(t) \/ checkQM(t) \/ returnQM(t)
    PROVE  TypeOK' /\ DefaultsNeverChange' /\ Private'
<1> USE DEF Goto, GoFrom
<1>1. /\ PM' = PM /\ SM' = SM /\ TM' = TM /\ QM' = QM
      /\ dataLock' = dataLock /\ parts' = parts /\ old' = old /\ dataBuf' = dataBuf
      /\ dataBufPos' = dataBufPos /\ pos' = pos /\ reg' = reg /\ strays' = strays
  BY DEF checkSM, checkTM, checkQM, returnQM, dumpVars, ghostVars, treeVars
<1>2. \E to : pc' = [pc EXCEPT ![t] = to]
  BY DEF checkSM, checkTM, checkQM, returnQM
<1>3. parts[t] # << >>
  BY DEF Private, PrivateOf, InPart, HasSM, HasTM, HasQM, checkSM, checkTM, checkQM, returnQM
<1>4. Part1(t).pm \in Slots /\ Part1(t).sm \in Slots /\ Part1(t).tm \in Slots
  BY <1>3, Part1Type
<1>5. /\ DOMAIN pc = Threads
      /\ sm \in [Threads -> DOMAIN SM] /\ tm \in [Threads -> DOMAIN TM] /\ qm \in [Threads -> DOMAIN QM]
      /\ PM \in [Slots -> DOMAIN SM]
      /\ \A p \in DOMAIN SM : SM[p] \in [Slots -> DOMAIN TM]
      /\ \A p \in DOMAIN TM : TM[p] \in [Slots -> DOMAIN QM]
  BY PagesType DEF TypeOK, TreeTypeOK, OtherTypeOK
<1>6. OtherTypeOK' /\ DefaultsNeverChange'
  BY <1>1, <1>2, <1>5 DEF TypeOK, OtherTypeOK, DefaultsNeverChange
<1>7. sm' \in [Threads -> DOMAIN SM] /\ tm' \in [Threads -> DOMAIN TM] /\ qm' \in [Threads -> DOMAIN QM]
  <2>1. CASE checkSM(t)
    BY <2>1, <1>4, <1>5 DEF checkSM
  <2>2. CASE checkTM(t)
    <3>1. PICK s \in {sm[t], PM[Part1(t).pm]} :
             sm' = [sm EXCEPT ![t] = s] /\ tm' = [tm EXCEPT ![t] = SM[s][Part1(t).sm]]
      BY <2>2 DEF checkTM
    <3>2. s \in DOMAIN SM /\ SM[s][Part1(t).sm] \in DOMAIN TM /\ qm' = qm
      BY <2>2, <1>4, <1>5 DEF checkTM
    <3> QED
      BY <3>1, <3>2, <1>5
  <2>3. CASE checkQM(t)
    <3>1. PICK m \in {tm[t], SM[sm[t]][Part1(t).sm]} :
             tm' = [tm EXCEPT ![t] = m] /\ qm' = [qm EXCEPT ![t] = TM[m][Part1(t).tm]]
      BY <2>3 DEF checkQM
    <3>2. m \in DOMAIN TM /\ TM[m][Part1(t).tm] \in DOMAIN QM /\ sm' = sm
      BY <2>3, <1>4, <1>5 DEF checkQM
    <3> QED
      BY <3>1, <3>2, <1>5
  <2>4. CASE returnQM(t)
    <3>1. TM[tm[t]][Part1(t).tm] \in DOMAIN QM
      BY <1>4, <1>5
    <3> QED
      BY <2>4, <3>1, <1>5 DEF returnQM
  <2> QED
    BY <2>1, <2>2, <2>3, <2>4
<1>8. TreeTypeOK'
  BY <1>1, <1>7 DEF TypeOK, TreeTypeOK
<1>9. Private'
  <2> SUFFICES ASSUME NEW u \in Threads PROVE PrivateOf(u)'
    BY DEF Private
  <2>0. Part1(u)' = Part1(u) /\ parts'[u] = parts[u]
    BY <1>1 DEF Part1
  <2>a. PrivateOf(u)
    BY DEF Private
  <2>1. CASE u # t
    <3>1. pc'[u] = pc[u] /\ sm'[u] = sm[u] /\ tm'[u] = tm[u] /\ qm'[u] = qm[u]
      BY <2>1, <1>5 DEF checkSM, checkTM, checkQM, returnQM
    <3> QED
      BY <2>0, <2>a, <3>1, <1>1 DEF PrivateOf
  <2>2. CASE u = t /\ checkSM(t)
    BY <2>0, <2>2, <1>1, <1>3, <1>5 DEF checkSM, PrivateOf, InPart, HasSM, HasTM, HasQM
  <2>3. CASE u = t /\ checkTM(t)
    <3>1. sm[t] # Default /\ PM[Part1(t).pm] # Default
      BY <2>a, <2>3 DEF PrivateOf, HasSM, checkTM
    <3>2. sm'[t] # Default /\ tm'[t] = SM[sm'[t]][Part1(t).sm]
          /\ pc'[t] = IF tm'[t] = Default THEN "copyTM" ELSE "checkQM"
      BY <2>3, <3>1, <1>5 DEF checkTM
    <3> QED
      BY <2>0, <2>3, <1>1, <1>3, <3>2 DEF PrivateOf, InPart, HasSM, HasTM, HasQM
  <2>4. CASE u = t /\ checkQM(t)
    <3>1. sm[t] # Default /\ tm[t] # Default /\ SM[sm[t]][Part1(t).sm] # Default
      BY <2>a, <2>4 DEF PrivateOf, HasSM, HasTM, checkQM
    <3>2. sm'[t] = sm[t] /\ tm'[t] # Default /\ qm'[t] = TM[tm'[t]][Part1(t).tm]
          /\ pc'[t] = IF qm'[t] = Default THEN "copyQM" ELSE "returnQM"
      BY <2>4, <3>1, <1>5 DEF checkQM, is_DQM
    <3> QED
      BY <2>0, <2>4, <1>1, <1>3, <3>1, <3>2 DEF PrivateOf, InPart, HasSM, HasTM, HasQM
  <2>5. CASE u = t /\ returnQM(t)
    <3>1. qm[t] # Default /\ TM[tm[t]][Part1(t).tm] # Default
      BY <2>a, <2>5 DEF PrivateOf, HasQM, returnQM
    <3>2. qm'[t] # Default /\ pc'[t] = "load"
      BY <2>5, <3>1, <1>5 DEF returnQM
    <3> QED
      BY <2>0, <2>5, <1>3, <3>2 DEF PrivateOf, InPart, HasSM, HasTM, HasQM
  <2> QED
    BY <2>1, <2>2, <2>3, <2>4, <2>5
<1> QED
  BY <1>6, <1>8, <1>9 DEF TypeOK

LEMMA CopySMKeepsTree ==
    ASSUME TypeOK, DefaultsNeverChange, Private, NEW t \in Threads, CopySM(t)
    PROVE  TypeOK' /\ DefaultsNeverChange' /\ Private'
<1>1. /\ PM' = PM /\ TM' = TM /\ QM' = QM /\ tm' = tm /\ qm' = qm
      /\ dataLock' = dataLock /\ parts' = parts /\ old' = old /\ dataBuf' = dataBuf
      /\ dataBufPos' = dataBufPos /\ pos' = pos /\ reg' = reg /\ strays' = strays
  BY DEF CopySM, dumpVars, ghostVars
<1>2. pc[t] = "copySM" /\ pc' = [pc EXCEPT ![t] = "copyTM of SM"]
  BY DEF CopySM, Goto, GoFrom
<1>3. parts[t] # << >>
  BY <1>2 DEF Private, PrivateOf, InPart, HasSM
<1>4. PICK p \in DOMAIN SM : SM' = Copied(SM, p)
  BY <1>3, Part1Type DEF CopySM, TypeOK, TreeTypeOK
<1>5. /\ SM' \in Seq([Slots -> DOMAIN TM]) /\ SM' # << >>
      /\ DOMAIN SM' = 1 .. Len(SM) + 1 /\ DOMAIN SM = 1 .. Len(SM) /\ Len(SM) \in Nat
  BY <1>4, CopiedType DEF TypeOK, TreeTypeOK
<1>6. \A q \in DOMAIN SM : SM'[q] = SM[q]
  <2>1. SM \in Seq([Slots -> DOMAIN TM])
    BY DEF TypeOK, TreeTypeOK
  <2> QED
    BY <2>1, <1>4, CopiedType
<1>7. DOMAIN SM \subseteq DOMAIN SM' /\ Len(SM) + 1 \in DOMAIN SM' /\ 1 \in DOMAIN SM
  BY <1>5 DEF TypeOK, TreeTypeOK
<1>8. sm' = [sm EXCEPT ![t] = Len(SM) + 1] /\ Len(SM) + 1 # 1 /\ sm \in [Threads -> DOMAIN SM]
  <2>1. sm' = [sm EXCEPT ![t] = Len(SM) + 1]
    BY DEF CopySM
  <2>2. Len(SM) + 1 # 1
    BY <1>5, <1>7
  <2> QED
    BY <2>1, <2>2 DEF TypeOK, TreeTypeOK
<1>9. OtherTypeOK'
  BY <1>1, <1>2 DEF TypeOK, OtherTypeOK
<1>10. TreeTypeOK'
  <2>1. PM \in [Slots -> DOMAIN SM'] /\ sm' \in [Threads -> DOMAIN SM']
    BY <1>7, <1>8 DEF TypeOK, TreeTypeOK
  <2> QED
    BY <1>1, <1>5, <2>1 DEF TypeOK, TreeTypeOK
<1>11. DefaultsNeverChange'
  BY <1>1, <1>6, <1>7 DEF DefaultsNeverChange, Default
<1>12. Private'
  <2> SUFFICES ASSUME NEW u \in Threads PROVE PrivateOf(u)'
    BY DEF Private
  <2>1. PrivateOf(u)
    BY DEF Private
  <2>2. DOMAIN pc = Threads /\ sm[u] \in DOMAIN SM /\ tm[u] \in DOMAIN TM
    BY DEF TypeOK, TreeTypeOK, OtherTypeOK
  <2>3. CASE u # t
    <3>1. pc'[u] = pc[u] /\ sm'[u] = sm[u] /\ tm'[u] = tm[u] /\ qm'[u] = qm[u]
      BY <2>3, <1>1, <1>2, <1>8, <2>2
    <3>2. PM' = PM /\ SM'[sm[u]] = SM[sm[u]] /\ TM'[tm[u]] = TM[tm[u]] /\ parts'[u] = parts[u]
      BY <1>1, <1>6, <2>2
    <3> QED
      BY <2>1, <3>1, <3>2 DEF PrivateOf, Part1
  <2>4. CASE u = t
    <3>1. pc'[t] \in {"copyTM of SM"} /\ parts'[t] # << >> /\ sm'[t] # 1
          /\ tm'[t] = tm[t] /\ qm'[t] = qm[t]
      BY <1>1, <1>2, <1>3, <1>8, <2>2
    <3> QED
      BY <2>1, <2>4, <1>2, <3>1 DEF PrivateOf, InPart, HasSM, HasTM, HasQM, Default
  <2> QED
    BY <2>3, <2>4
<1> QED
  BY <1>9, <1>10, <1>12, <1>11 DEF TypeOK

LEMMA CopyTMKeepsTree ==
    ASSUME TypeOK, DefaultsNeverChange, Private, NEW t \in Threads, CopyTM(t)
    PROVE  TypeOK' /\ DefaultsNeverChange' /\ Private'
<1>1. /\ PM' = PM /\ SM' = SM /\ QM' = QM /\ sm' = sm /\ qm' = qm
      /\ dataLock' = dataLock /\ parts' = parts /\ old' = old /\ dataBuf' = dataBuf
      /\ dataBufPos' = dataBufPos /\ pos' = pos /\ reg' = reg /\ strays' = strays
  BY DEF CopyTM, dumpVars, ghostVars
<1>2. pc[t] \in {"copyTM of SM", "copyTM"} /\
      \E to \in {"copyQM of SM", "copyQM of TM"} : pc' = [pc EXCEPT ![t] = to]
  BY DEF CopyTM, Goto, GoFrom
<1>3. parts[t] # << >>
  BY <1>2 DEF Private, PrivateOf, InPart, HasSM
<1>4. PICK p \in DOMAIN TM : TM' = Copied(TM, p)
  <2>1. sm[t] \in DOMAIN SM /\ tm[t] \in DOMAIN TM /\ SM[sm[t]] \in [Slots -> DOMAIN TM]
    BY PagesType DEF TypeOK, TreeTypeOK
  <2> QED
    BY <2>1, <1>3, Part1Type DEF CopyTM
<1>5. /\ TM' \in Seq([Slots -> DOMAIN QM]) /\ TM' # << >>
      /\ DOMAIN TM' = 1 .. Len(TM) + 1 /\ DOMAIN TM = 1 .. Len(TM) /\ Len(TM) \in Nat
  BY <1>4, CopiedType DEF TypeOK, TreeTypeOK
<1>6. \A q \in DOMAIN TM : TM'[q] = TM[q]
  <2>1. TM \in Seq([Slots -> DOMAIN QM])
    BY DEF TypeOK, TreeTypeOK
  <2> QED
    BY <2>1, <1>4, CopiedType
<1>7. DOMAIN TM \subseteq DOMAIN TM' /\ Len(TM) + 1 \in DOMAIN TM' /\ 1 \in DOMAIN TM
  BY <1>5 DEF TypeOK, TreeTypeOK
<1>8. tm' = [tm EXCEPT ![t] = Len(TM) + 1] /\ Len(TM) + 1 # 1 /\ tm \in [Threads -> DOMAIN TM]
  <2>1. tm' = [tm EXCEPT ![t] = Len(TM) + 1]
    BY DEF CopyTM
  <2>2. Len(TM) + 1 # 1
    BY <1>5, <1>7
  <2> QED
    BY <2>1, <2>2 DEF TypeOK, TreeTypeOK
<1>9. OtherTypeOK'
  BY <1>1, <1>2 DEF TypeOK, OtherTypeOK
<1>10. TreeTypeOK'
  <2>1. [Slots -> DOMAIN TM] \subseteq [Slots -> DOMAIN TM']
    BY <1>7
  <2>2. SM \in Seq([Slots -> DOMAIN TM'])
    BY <2>1, SeqWidens DEF TypeOK, TreeTypeOK
  <2>3. tm' \in [Threads -> DOMAIN TM']
    BY <1>7, <1>8
  <2> QED
    BY <1>1, <1>5, <2>2, <2>3 DEF TypeOK, TreeTypeOK
<1>11. DefaultsNeverChange'
  BY <1>1, <1>6, <1>7 DEF DefaultsNeverChange, Default
<1>12. Private'
  <2> SUFFICES ASSUME NEW u \in Threads PROVE PrivateOf(u)'
    BY DEF Private
  <2>1. PrivateOf(u)
    BY DEF Private
  <2>2. DOMAIN pc = Threads /\ sm[u] \in DOMAIN SM /\ tm[u] \in DOMAIN TM
    BY DEF TypeOK, TreeTypeOK, OtherTypeOK
  <2>3. CASE u # t
    <3>1. pc'[u] = pc[u] /\ sm'[u] = sm[u] /\ tm'[u] = tm[u] /\ qm'[u] = qm[u]
      BY <2>3, <1>1, <1>2, <1>8, <2>2
    <3>2. PM' = PM /\ SM'[sm[u]] = SM[sm[u]] /\ TM'[tm[u]] = TM[tm[u]] /\ parts'[u] = parts[u]
      BY <1>1, <1>6, <2>2
    <3> QED
      BY <2>1, <3>1, <3>2 DEF PrivateOf, Part1
  <2>4. CASE u = t
    <3>1. pc'[t] \in {"copyQM of SM", "copyQM of TM"} /\ parts'[t] # << >> /\ tm'[t] # 1
          /\ sm'[t] = sm[t] /\ qm'[t] = qm[t]
      BY <1>1, <1>2, <1>3, <1>8, <2>2
    <3> QED
      BY <2>1, <2>4, <1>2, <3>1 DEF PrivateOf, InPart, HasSM, HasTM, HasQM, Default
  <2> QED
    BY <2>3, <2>4
<1> QED
  BY <1>9, <1>10, <1>12, <1>11 DEF TypeOK

LEMMA CopyQMKeepsTree ==
    ASSUME TypeOK, DefaultsNeverChange, Private, NEW t \in Threads, CopyQM(t)
    PROVE  TypeOK' /\ DefaultsNeverChange' /\ Private'
<1>1. /\ PM' = PM /\ SM' = SM /\ TM' = TM /\ sm' = sm /\ tm' = tm
      /\ dataLock' = dataLock /\ parts' = parts /\ old' = old /\ dataBuf' = dataBuf
      /\ dataBufPos' = dataBufPos /\ pos' = pos /\ reg' = reg /\ strays' = strays
  BY DEF CopyQM, dumpVars, ghostVars
<1>2. \/ pc[t] = "copyQM of SM" /\ pc' = [pc EXCEPT ![t] = "linkSM"]
      \/ pc[t] = "copyQM of TM" /\ pc' = [pc EXCEPT ![t] = "linkTM"]
      \/ pc[t] = "copyQM" /\ pc' = [pc EXCEPT ![t] = "linkQM"]
  BY DEF CopyQM, Goto, GoFrom
<1>3. parts[t] # << >>
  BY <1>2 DEF Private, PrivateOf, InPart, HasSM
<1>4. PICK p \in DOMAIN QM : QM' = Copied(QM, p)
  <2>1. tm[t] \in DOMAIN TM /\ qm[t] \in DOMAIN QM /\ TM[tm[t]] \in [Slots -> DOMAIN QM]
    BY PagesType DEF TypeOK, TreeTypeOK
  <2> QED
    BY <2>1, <1>3, Part1Type DEF CopyQM
<1>5. /\ QM' \in Seq([SeenBytes -> SUBSET Bits]) /\ QM' # << >>
      /\ DOMAIN QM' = 1 .. Len(QM) + 1 /\ DOMAIN QM = 1 .. Len(QM) /\ Len(QM) \in Nat
  BY <1>4, CopiedType DEF TypeOK, TreeTypeOK
<1>6. \A q \in DOMAIN QM : QM'[q] = QM[q]
  <2>1. QM \in Seq([SeenBytes -> SUBSET Bits])
    BY DEF TypeOK, TreeTypeOK
  <2> QED
    BY <2>1, <1>4, CopiedType
<1>7. DOMAIN QM \subseteq DOMAIN QM' /\ Len(QM) + 1 \in DOMAIN QM' /\ 1 \in DOMAIN QM
  BY <1>5 DEF TypeOK, TreeTypeOK
<1>8. qm' = [qm EXCEPT ![t] = Len(QM) + 1] /\ Len(QM) + 1 # 1 /\ qm \in [Threads -> DOMAIN QM]
  <2>1. qm' = [qm EXCEPT ![t] = Len(QM) + 1]
    BY DEF CopyQM
  <2>2. Len(QM) + 1 # 1
    BY <1>5, <1>7
  <2> QED
    BY <2>1, <2>2 DEF TypeOK, TreeTypeOK
<1>9. OtherTypeOK'
  BY <1>1, <1>2 DEF TypeOK, OtherTypeOK
<1>10. TreeTypeOK'
  <2>1. [Slots -> DOMAIN QM] \subseteq [Slots -> DOMAIN QM']
    BY <1>7
  <2>2. TM \in Seq([Slots -> DOMAIN QM'])
    BY <2>1, SeqWidens DEF TypeOK, TreeTypeOK
  <2>3. qm' \in [Threads -> DOMAIN QM']
    BY <1>7, <1>8
  <2> QED
    BY <1>1, <1>5, <2>2, <2>3 DEF TypeOK, TreeTypeOK
<1>11. DefaultsNeverChange'
  BY <1>1, <1>6, <1>7 DEF DefaultsNeverChange, Default
<1>12. Private'
  <2> SUFFICES ASSUME NEW u \in Threads PROVE PrivateOf(u)'
    BY DEF Private
  <2>1. PrivateOf(u)
    BY DEF Private
  <2>2. DOMAIN pc = Threads /\ sm[u] \in DOMAIN SM /\ tm[u] \in DOMAIN TM
    BY DEF TypeOK, TreeTypeOK, OtherTypeOK
  <2>3. CASE u # t
    <3>1. pc'[u] = pc[u] /\ sm'[u] = sm[u] /\ tm'[u] = tm[u] /\ qm'[u] = qm[u]
      BY <2>3, <1>1, <1>2, <1>8, <2>2
    <3>2. PM' = PM /\ SM'[sm[u]] = SM[sm[u]] /\ TM'[tm[u]] = TM[tm[u]] /\ parts'[u] = parts[u]
      BY <1>1, <1>6, <2>2
    <3> QED
      BY <2>1, <3>1, <3>2 DEF PrivateOf, Part1
  <2>4. CASE u = t
    <3>1. pc'[t] \in {"linkSM", "linkTM", "linkQM"} /\ parts'[t] # << >> /\ qm'[t] # 1
          /\ sm'[t] = sm[t] /\ tm'[t] = tm[t]
      BY <1>1, <1>2, <1>3, <1>8, <2>2
    <3> QED
      BY <2>1, <2>4, <1>2, <3>1 DEF PrivateOf, InPart, HasSM, HasTM, HasQM, Default
  <2> QED
    BY <2>3, <2>4
<1> QED
  BY <1>9, <1>10, <1>12, <1>11 DEF TypeOK
LEMMA LinkSMKeepsTree ==
    ASSUME TypeOK, DefaultsNeverChange, Private, NEW t \in Threads, LinkSM(t)
    PROVE  TypeOK' /\ DefaultsNeverChange' /\ Private'
<1>1. /\ SM' = SM /\ TM' = TM /\ QM' = QM /\ sm' = sm /\ tm' = tm /\ qm' = qm
      /\ dataLock' = dataLock /\ parts' = parts /\ old' = old /\ dataBuf' = dataBuf
      /\ dataBufPos' = dataBufPos /\ pos' = pos /\ reg' = reg /\ strays' = strays
  BY DEF LinkSM, localVars, dumpVars, ghostVars
<1>2. pc[t] = "linkSM" /\ pc' = [pc EXCEPT ![t] = "linkTM"] /\ DOMAIN pc = Threads
  BY DEF LinkSM, Goto, GoFrom, TypeOK, OtherTypeOK
<1>3. parts[t] # << >> /\ Part1(t) \in Part /\ sm[t] # Default /\ tm[t] # Default /\ qm[t] # Default
  BY <1>2, Part1Type DEF Private, PrivateOf, InPart, HasSM, HasTM, HasQM
<1>4. /\ Part1(t).pm \in Slots /\ Part1(t).sm \in Slots /\ Part1(t).tm \in Slots
      /\ Part1(t).byte \in SeenBytes /\ Part1(t).bits \subseteq Bits
  BY <1>3, Part1Type
<1>5. /\ sm \in [Threads -> DOMAIN SM] /\ tm \in [Threads -> DOMAIN TM] /\ qm \in [Threads -> DOMAIN QM]
      /\ PM \in [Slots -> DOMAIN SM]
      /\ SM \in Seq([Slots -> DOMAIN TM]) /\ \A p \in DOMAIN SM : SM[p] \in [Slots -> DOMAIN TM]
      /\ TM \in Seq([Slots -> DOMAIN QM]) /\ \A p \in DOMAIN TM : TM[p] \in [Slots -> DOMAIN QM]
      /\ QM \in Seq([SeenBytes -> SUBSET Bits]) /\ \A p \in DOMAIN QM : QM[p] \in [SeenBytes -> SUBSET Bits]
  BY PagesType DEF TypeOK, TreeTypeOK
<1>6. OtherTypeOK'
  BY <1>1, <1>2 DEF TypeOK, OtherTypeOK
<1>7. PM' = [PM EXCEPT ![Part1(t).pm] = sm[t]]
  BY DEF LinkSM
<1>8. PM' \in [Slots -> DOMAIN SM] /\ \A i \in Slots : PM[i] # Default => PM'[i] # Default
  BY <1>3, <1>4, <1>5, <1>7
<1>9. TreeTypeOK'
  BY <1>1, <1>8 DEF TypeOK, TreeTypeOK
<1>10. DefaultsNeverChange'
  BY <1>1 DEF DefaultsNeverChange
<1>11. Private'
  <2> SUFFICES ASSUME NEW u \in Threads PROVE PrivateOf(u)'
    BY DEF Private
  <2>1. PrivateOf(u) /\ sm[u] \in DOMAIN SM /\ tm[u] \in DOMAIN TM
    BY <1>5 DEF Private
  <2>2. Part1(u)' = Part1(u) /\ parts'[u] = parts[u]
    BY <1>1 DEF Part1
  <2>5. parts[u] # << >> => Part1(u).pm \in Slots
    BY Part1Type
  <2>3. CASE u # t
    <3>1. pc'[u] = pc[u]
      BY <2>3, <1>1, <1>2, <1>5
    <3> QED
      BY <2>1, <2>2, <2>5, <3>1, <1>1, <1>8 DEF PrivateOf, InPart, HasSM, HasTM, HasQM
  <2>4. CASE u = t
    BY <2>1, <2>2, <2>4, <1>1, <1>2, <1>3 DEF PrivateOf, InPart, HasSM, HasTM, HasQM
  <2> QED
    BY <2>3, <2>4
<1> QED
  BY <1>6, <1>9, <1>10, <1>11 DEF TypeOK

LEMMA LinkTMKeepsTree ==
    ASSUME TypeOK, DefaultsNeverChange, Private, NEW t \in Threads, LinkTM(t)
    PROVE  TypeOK' /\ DefaultsNeverChange' /\ Private'
<1>1. /\ PM' = PM /\ TM' = TM /\ QM' = QM /\ sm' = sm /\ tm' = tm /\ qm' = qm
      /\ dataLock' = dataLock /\ parts' = parts /\ old' = old /\ dataBuf' = dataBuf
      /\ dataBufPos' = dataBufPos /\ pos' = pos /\ reg' = reg /\ strays' = strays
  BY DEF LinkTM, localVars, dumpVars, ghostVars
<1>2. pc[t] = "linkTM" /\ pc' = [pc EXCEPT ![t] = "linkQM"] /\ DOMAIN pc = Threads
  BY DEF LinkTM, Goto, GoFrom, TypeOK, OtherTypeOK
<1>3. parts[t] # << >> /\ Part1(t) \in Part /\ sm[t] # Default /\ tm[t] # Default /\ qm[t] # Default
  BY <1>2, Part1Type DEF Private, PrivateOf, InPart, HasSM, HasTM, HasQM
<1>4. /\ Part1(t).pm \in Slots /\ Part1(t).sm \in Slots /\ Part1(t).tm \in Slots
      /\ Part1(t).byte \in SeenBytes /\ Part1(t).bits \subseteq Bits
  BY <1>3, Part1Type
<1>5. /\ sm \in [Threads -> DOMAIN SM] /\ tm \in [Threads -> DOMAIN TM] /\ qm \in [Threads -> DOMAIN QM]
      /\ PM \in [Slots -> DOMAIN SM]
      /\ SM \in Seq([Slots -> DOMAIN TM]) /\ \A p \in DOMAIN SM : SM[p] \in [Slots -> DOMAIN TM]
      /\ TM \in Seq([Slots -> DOMAIN QM]) /\ \A p \in DOMAIN TM : TM[p] \in [Slots -> DOMAIN QM]
      /\ QM \in Seq([SeenBytes -> SUBSET Bits]) /\ \A p \in DOMAIN QM : QM[p] \in [SeenBytes -> SUBSET Bits]
  BY PagesType DEF TypeOK, TreeTypeOK
<1>6. OtherTypeOK'
  BY <1>1, <1>2 DEF TypeOK, OtherTypeOK
<1>7. SM' = [SM EXCEPT ![sm[t]] = [SM[sm[t]] EXCEPT ![Part1(t).sm] = tm[t]]]
  BY DEF LinkTM
<1>8. /\ SM' \in Seq([Slots -> DOMAIN TM]) /\ DOMAIN SM' = DOMAIN SM /\ SM'[Default] = SM[Default]
      /\ \A p \in DOMAIN SM, i \in Slots : SM[p][i] # Default => SM'[p][i] # Default
  <2>1. [SM[sm[t]] EXCEPT ![Part1(t).sm] = tm[t]] \in [Slots -> DOMAIN TM]
    BY <1>4, <1>5
  <2>0. SM \in Seq([Slots -> DOMAIN TM]) /\ sm[t] \in DOMAIN SM
    BY <1>5
  <2>2. SM' \in Seq([Slots -> DOMAIN TM]) /\ DOMAIN SM' = DOMAIN SM
    BY <1>7, <2>0, <2>1, SeqExcept
  <2>3. ASSUME NEW p \in DOMAIN SM, NEW i \in Slots, SM[p][i] # Default
        PROVE  SM'[p][i] # Default
    BY <2>3, <1>3, <1>4, <1>5, <1>7
  <2>4. SM'[Default] = SM[Default]
    BY <1>3, <1>5, <1>7
  <2> QED
    BY <2>2, <2>3, <2>4
<1>9. TreeTypeOK'
  <2>1. SM' # << >>
    BY <1>8 DEF TypeOK, TreeTypeOK
  <2> QED
    BY <1>1, <1>5, <1>8, <2>1 DEF TypeOK, TreeTypeOK
<1>10. DefaultsNeverChange'
  BY <1>1, <1>8 DEF DefaultsNeverChange
<1>11. Private'
  <2> SUFFICES ASSUME NEW u \in Threads PROVE PrivateOf(u)'
    BY DEF Private
  <2>1. PrivateOf(u) /\ sm[u] \in DOMAIN SM /\ tm[u] \in DOMAIN TM
    BY <1>5 DEF Private
  <2>2. Part1(u)' = Part1(u) /\ parts'[u] = parts[u]
    BY <1>1 DEF Part1
  <2>5. parts[u] # << >> => Part1(u).sm \in Slots
    BY Part1Type
  <2>3. CASE u # t
    <3>1. pc'[u] = pc[u]
      BY <2>3, <1>1, <1>2, <1>5
    <3> QED
      BY <2>1, <2>2, <2>5, <3>1, <1>1, <1>8 DEF PrivateOf, InPart, HasSM, HasTM, HasQM
  <2>4. CASE u = t
    BY <2>1, <2>2, <2>4, <1>1, <1>2, <1>3 DEF PrivateOf, InPart, HasSM, HasTM, HasQM
  <2> QED
    BY <2>3, <2>4
<1> QED
  BY <1>6, <1>9, <1>10, <1>11 DEF TypeOK

LEMMA LinkQMKeepsTree ==
    ASSUME TypeOK, DefaultsNeverChange, Private, NEW t \in Threads, LinkQM(t)
    PROVE  TypeOK' /\ DefaultsNeverChange' /\ Private'
<1>1. /\ PM' = PM /\ SM' = SM /\ QM' = QM /\ sm' = sm /\ tm' = tm /\ qm' = qm
      /\ dataLock' = dataLock /\ parts' = parts /\ old' = old /\ dataBuf' = dataBuf
      /\ dataBufPos' = dataBufPos /\ pos' = pos /\ reg' = reg /\ strays' = strays
  BY DEF LinkQM, localVars, dumpVars, ghostVars
<1>2. pc[t] = "linkQM" /\ pc' = [pc EXCEPT ![t] = "load"] /\ DOMAIN pc = Threads
  BY DEF LinkQM, Goto, GoFrom, TypeOK, OtherTypeOK
<1>3. parts[t] # << >> /\ Part1(t) \in Part /\ tm[t] # Default /\ qm[t] # Default
  BY <1>2, Part1Type DEF Private, PrivateOf, InPart, HasSM, HasTM, HasQM
<1>4. /\ Part1(t).pm \in Slots /\ Part1(t).sm \in Slots /\ Part1(t).tm \in Slots
      /\ Part1(t).byte \in SeenBytes /\ Part1(t).bits \subseteq Bits
  BY <1>3, Part1Type
<1>5. /\ sm \in [Threads -> DOMAIN SM] /\ tm \in [Threads -> DOMAIN TM] /\ qm \in [Threads -> DOMAIN QM]
      /\ PM \in [Slots -> DOMAIN SM]
      /\ SM \in Seq([Slots -> DOMAIN TM]) /\ \A p \in DOMAIN SM : SM[p] \in [Slots -> DOMAIN TM]
      /\ TM \in Seq([Slots -> DOMAIN QM]) /\ \A p \in DOMAIN TM : TM[p] \in [Slots -> DOMAIN QM]
      /\ QM \in Seq([SeenBytes -> SUBSET Bits]) /\ \A p \in DOMAIN QM : QM[p] \in [SeenBytes -> SUBSET Bits]
  BY PagesType DEF TypeOK, TreeTypeOK
<1>6. OtherTypeOK'
  BY <1>1, <1>2 DEF TypeOK, OtherTypeOK
<1>7. TM' = [TM EXCEPT ![tm[t]] = [TM[tm[t]] EXCEPT ![Part1(t).tm] = qm[t]]]
  BY DEF LinkQM
<1>8. /\ TM' \in Seq([Slots -> DOMAIN QM]) /\ DOMAIN TM' = DOMAIN TM /\ TM'[Default] = TM[Default]
      /\ \A p \in DOMAIN TM, i \in Slots : TM[p][i] # Default => TM'[p][i] # Default
  <2>1. [TM[tm[t]] EXCEPT ![Part1(t).tm] = qm[t]] \in [Slots -> DOMAIN QM]
    BY <1>4, <1>5
  <2>0. TM \in Seq([Slots -> DOMAIN QM]) /\ tm[t] \in DOMAIN TM
    BY <1>5
  <2>2. TM' \in Seq([Slots -> DOMAIN QM]) /\ DOMAIN TM' = DOMAIN TM
    BY <1>7, <2>0, <2>1, SeqExcept
  <2>3. ASSUME NEW p \in DOMAIN TM, NEW i \in Slots, TM[p][i] # Default
        PROVE  TM'[p][i] # Default
    BY <2>3, <1>3, <1>4, <1>5, <1>7
  <2>4. TM'[Default] = TM[Default]
    BY <1>3, <1>5, <1>7
  <2> QED
    BY <2>2, <2>3, <2>4
<1>9. TreeTypeOK'
  <2>1. TM' # << >>
    BY <1>8 DEF TypeOK, TreeTypeOK
  <2> QED
    BY <1>1, <1>5, <1>8, <2>1 DEF TypeOK, TreeTypeOK
<1>10. DefaultsNeverChange'
  BY <1>1, <1>8 DEF DefaultsNeverChange
<1>11. Private'
  <2> SUFFICES ASSUME NEW u \in Threads PROVE PrivateOf(u)'
    BY DEF Private
  <2>1. PrivateOf(u) /\ sm[u] \in DOMAIN SM /\ tm[u] \in DOMAIN TM
    BY <1>5 DEF Private
  <2>2. Part1(u)' = Part1(u) /\ parts'[u] = parts[u]
    BY <1>1 DEF Part1
  <2>5. parts[u] # << >> => Part1(u).tm \in Slots
    BY Part1Type
  <2>3. CASE u # t
    <3>1. pc'[u] = pc[u]
      BY <2>3, <1>1, <1>2, <1>5
    <3> QED
      BY <2>1, <2>2, <2>5, <3>1, <1>1, <1>8 DEF PrivateOf, InPart, HasSM, HasTM, HasQM
  <2>4. CASE u = t
    BY <2>1, <2>2, <2>4, <1>1, <1>2, <1>3 DEF PrivateOf, InPart, HasSM, HasTM, HasQM
  <2> QED
    BY <2>3, <2>4
<1> QED
  BY <1>6, <1>9, <1>10, <1>11 DEF TypeOK

LEMMA LoadByteKeepsTree ==
    ASSUME TypeOK, DefaultsNeverChange, Private, NEW t \in Threads, LoadByte(t)
    PROVE  TypeOK' /\ DefaultsNeverChange' /\ Private'
<1>1. /\ PM' = PM /\ SM' = SM /\ TM' = TM /\ QM' = QM /\ sm' = sm /\ tm' = tm /\ qm' = qm
      /\ dataLock' = dataLock /\ parts' = parts /\ dataBuf' = dataBuf
      /\ dataBufPos' = dataBufPos /\ pos' = pos /\ reg' = reg /\ strays' = strays
  BY DEF LoadByte, localVars, dumpVars, ghostVars, treeVars
<1>2. pc[t] = "load" /\ pc' = [pc EXCEPT ![t] = "store"] /\ DOMAIN pc = Threads
  BY DEF LoadByte, Goto, GoFrom, TypeOK, OtherTypeOK
<1>3. parts[t] # << >> /\ Part1(t) \in Part /\ qm[t] # Default
  BY <1>2, Part1Type DEF Private, PrivateOf, InPart, HasSM, HasTM, HasQM
<1>4. /\ Part1(t).pm \in Slots /\ Part1(t).sm \in Slots /\ Part1(t).tm \in Slots
      /\ Part1(t).byte \in SeenBytes /\ Part1(t).bits \subseteq Bits
  BY <1>3, Part1Type
<1>5. /\ sm \in [Threads -> DOMAIN SM] /\ tm \in [Threads -> DOMAIN TM] /\ qm \in [Threads -> DOMAIN QM]
      /\ PM \in [Slots -> DOMAIN SM]
      /\ SM \in Seq([Slots -> DOMAIN TM]) /\ \A p \in DOMAIN SM : SM[p] \in [Slots -> DOMAIN TM]
      /\ TM \in Seq([Slots -> DOMAIN QM]) /\ \A p \in DOMAIN TM : TM[p] \in [Slots -> DOMAIN QM]
      /\ QM \in Seq([SeenBytes -> SUBSET Bits]) /\ \A p \in DOMAIN QM : QM[p] \in [SeenBytes -> SUBSET Bits]
  BY PagesType DEF TypeOK, TreeTypeOK
<1>6. OtherTypeOK'
  <2>0. QM[qm[t]] \in [SeenBytes -> SUBSET Bits]
    BY <1>5
  <2>a. QM[qm[t]][Part1(t).byte] \in SUBSET Bits
    BY <1>4, <2>0
  <2>b. old' = [old EXCEPT ![t] = QM[qm[t]][Part1(t).byte]] /\ old \in [Threads -> SUBSET Bits]
    BY DEF LoadByte, TypeOK, OtherTypeOK
  <2>1. old' \in [Threads -> SUBSET Bits]
    BY <2>a, <2>b
  <2> QED
    BY <1>1, <1>2, <2>1 DEF TypeOK, OtherTypeOK
<1>9. TreeTypeOK'
  BY <1>1 DEF TypeOK, TreeTypeOK
<1>10. DefaultsNeverChange'
  BY <1>1 DEF DefaultsNeverChange
<1>11. Private'
  <2> SUFFICES ASSUME NEW u \in Threads PROVE PrivateOf(u)'
    BY DEF Private
  <2>1. PrivateOf(u) /\ sm[u] \in DOMAIN SM /\ tm[u] \in DOMAIN TM
    BY <1>5 DEF Private
  <2>2. Part1(u)' = Part1(u) /\ parts'[u] = parts[u]
    BY <1>1 DEF Part1
  <2>3. CASE u # t
    <3>1. pc'[u] = pc[u]
      BY <2>3, <1>1, <1>2, <1>5
    <3> QED
      BY <2>1, <2>2, <2>3, <3>1, <1>1 DEF PrivateOf, InPart, HasSM, HasTM, HasQM
  <2>4. CASE u = t
    BY <2>1, <2>2, <2>4, <1>1, <1>2, <1>3 DEF PrivateOf, InPart, HasSM, HasTM, HasQM
  <2> QED
    BY <2>3, <2>4
<1> QED
  BY <1>6, <1>9, <1>10, <1>11 DEF TypeOK

LEMMA StoreByteKeepsTree ==
    ASSUME TypeOK, DefaultsNeverChange, Private, NEW t \in Threads, StoreByte(t)
    PROVE  TypeOK' /\ DefaultsNeverChange' /\ Private'
<1>1. /\ PM' = PM /\ SM' = SM /\ TM' = TM /\ sm' = sm /\ tm' = tm /\ qm' = qm
      /\ dataLock' = dataLock /\ old' = old /\ dataBuf' = dataBuf
      /\ dataBufPos' = dataBufPos /\ pos' = pos /\ reg' = reg /\ strays' = strays
  BY DEF StoreByte, localVars, dumpVars, ghostVars
<1>2. pc[t] = "store" /\ pc' = [pc EXCEPT ![t] = "setSeen"] /\ DOMAIN pc = Threads
  BY DEF StoreByte, Goto, GoFrom, TypeOK, OtherTypeOK
<1>3. parts[t] # << >> /\ Part1(t) \in Part /\ qm[t] # Default
  BY <1>2, Part1Type DEF Private, PrivateOf, InPart, HasSM, HasTM, HasQM
<1>4. /\ Part1(t).pm \in Slots /\ Part1(t).sm \in Slots /\ Part1(t).tm \in Slots
      /\ Part1(t).byte \in SeenBytes /\ Part1(t).bits \subseteq Bits
  BY <1>3, Part1Type
<1>5. /\ sm \in [Threads -> DOMAIN SM] /\ tm \in [Threads -> DOMAIN TM] /\ qm \in [Threads -> DOMAIN QM]
      /\ PM \in [Slots -> DOMAIN SM]
      /\ SM \in Seq([Slots -> DOMAIN TM]) /\ \A p \in DOMAIN SM : SM[p] \in [Slots -> DOMAIN TM]
      /\ TM \in Seq([Slots -> DOMAIN QM]) /\ \A p \in DOMAIN TM : TM[p] \in [Slots -> DOMAIN QM]
      /\ QM \in Seq([SeenBytes -> SUBSET Bits]) /\ \A p \in DOMAIN QM : QM[p] \in [SeenBytes -> SUBSET Bits]
  BY PagesType DEF TypeOK, TreeTypeOK
<1>6. OtherTypeOK'
  <2>1. parts' \in [Threads -> Seq(Part)]
    BY <1>3 DEF StoreByte, TypeOK, OtherTypeOK
  <2> QED
    BY <1>1, <1>2, <2>1 DEF TypeOK, OtherTypeOK
<1>7. QM' = [QM EXCEPT ![qm[t]] = [QM[qm[t]] EXCEPT ![Part1(t).byte] = Merged(old[t], Part1(t).bits)]]
  BY DEF StoreByte
<1>8. QM' \in Seq([SeenBytes -> SUBSET Bits]) /\ DOMAIN QM' = DOMAIN QM /\ QM'[Default] = QM[Default]
  <2>1. Merged(old[t], Part1(t).bits) \subseteq Bits
    BY <1>4 DEF Merged, TypeOK, OtherTypeOK
  <2>2. [QM[qm[t]] EXCEPT ![Part1(t).byte] = Merged(old[t], Part1(t).bits)] \in [SeenBytes -> SUBSET Bits]
    BY <1>4, <1>5, <2>1
  <2>3. QM'[Default] = QM[Default]
    BY <1>3, <1>5, <1>7
  <2> QED
    BY <1>5, <1>7, <2>2, <2>3
<1>9. TreeTypeOK'
  <2>1. QM' # << >>
    BY <1>8 DEF TypeOK, TreeTypeOK
  <2> QED
    BY <1>1, <1>5, <1>8, <2>1 DEF TypeOK, TreeTypeOK
<1>10. DefaultsNeverChange'
  BY <1>1, <1>8 DEF DefaultsNeverChange
<1>11. Private'
  <2> SUFFICES ASSUME NEW u \in Threads PROVE PrivateOf(u)'
    BY DEF Private
  <2>1. PrivateOf(u) /\ sm[u] \in DOMAIN SM /\ tm[u] \in DOMAIN TM
    BY <1>5 DEF Private
  <2>2. u # t => Part1(u)' = Part1(u) /\ parts'[u] = parts[u]
    BY DEF StoreByte, Part1, TypeOK, OtherTypeOK
  <2>3. CASE u # t
    <3>1. pc'[u] = pc[u]
      BY <2>3, <1>1, <1>2, <1>5
    <3> QED
      BY <2>1, <2>2, <2>3, <3>1, <1>1, <1>8 DEF PrivateOf, InPart, HasSM, HasTM, HasQM
  <2>4. CASE u = t
    BY <2>1, <2>2, <2>4, <1>1, <1>2, <1>3 DEF PrivateOf, InPart, HasSM, HasTM, HasQM
  <2> QED
    BY <2>3, <2>4
<1> QED
  BY <1>6, <1>9, <1>10, <1>11 DEF TypeOK

\* Every step keeps the types, the default pages and what keeps them safe.
LEMMA StepKeepsTree ==
    ASSUME TypeOK, DefaultsNeverChange, Private, [Next]_vars
    PROVE  TypeOK' /\ DefaultsNeverChange' /\ Private'
<1>1. CASE UNCHANGED vars
  <2>1. TypeOK' /\ DefaultsNeverChange'
    BY <1>1 DEF vars, treeVars, localVars, dumpVars, ghostVars, TypeOK, TreeTypeOK, OtherTypeOK,
                DefaultsNeverChange
  <2>2. Private'
    BY <1>1 DEF vars, treeVars, localVars, Private, PrivateOf, Part1
  <2> QED
    BY <2>1, <2>2
<1>2. ASSUME NEW t \in Threads, Dump(t)
      PROVE  TypeOK' /\ DefaultsNeverChange' /\ Private'
  <2> USE DEF Goto, GoFrom
  <2>1. UNCHANGED <<treeVars, sm, tm, qm>> /\ parts' = parts /\ old' = old /\ strays' = strays
    BY <1>2 DEF Dump, initThread, TakePos, getFileBuf, printDataReg, StorePos, UnlockDump,
                localVars, dumpVars, ghostVars
  <2>2. DOMAIN pc = Threads
    BY DEF TypeOK, OtherTypeOK
  <2>3. /\ \A u \in Threads \ {t} : pc'[u] = pc[u]
        /\ pc'[t] \in {"getFileBuf", "fits", "printDataReg", "unlockDump", "idle"}
        /\ DOMAIN pc' = Threads
    BY <1>2, <2>2 DEF Dump, initThread, TakePos, getFileBuf, printDataReg, StorePos, UnlockDump
  <2>4. dataLock' \in Threads \cup {None}
    BY <1>2 DEF Dump, initThread, TakePos, getFileBuf, printDataReg, StorePos, UnlockDump,
                Lock, Unlock, TypeOK, OtherTypeOK
  <2>5. DOMAIN dataBuf' = 0 .. BUF_SIZE - 1 /\ dataBufPos' \in Nat
    BY <1>2 DEF Dump, initThread, TakePos, getFileBuf, printDataReg, StorePos, UnlockDump,
                dumpVars, TypeOK, OtherTypeOK
  <2>6. pos' \in [Threads -> Nat] /\ reg' \in [Threads -> Nat \ {0}]
    <3>1. pos \in [Threads -> Nat] /\ reg \in [Threads -> Nat \ {0}] /\ dataBufPos \in Nat
      BY DEF TypeOK, OtherTypeOK
    <3>2. CASE TakePos(t)
      BY <3>1, <3>2 DEF TakePos
    <3>3. CASE getFileBuf(t)
      BY <3>1, <3>3 DEF getFileBuf
    <3>4. CASE printDataReg(t)
      BY <3>1, <3>4 DEF printDataReg
    <3>5. CASE initThread(t) \/ StorePos(t) \/ UnlockDump(t)
      BY <3>1, <3>5 DEF initThread, StorePos, UnlockDump, dumpVars
    <3> QED
      BY <1>2, <3>2, <3>3, <3>4, <3>5 DEF Dump
  <2>7. OtherTypeOK'
    BY <2>1, <2>3, <2>4, <2>5, <2>6 DEF TypeOK, OtherTypeOK
  <2> QED
    BY <2>1, <2>3, <2>7, OutsideTree DEF InPart, HasSM, HasTM, HasQM
<1>3. ASSUME NEW t \in Threads,
             LockMark(t) \/ UnlockMark(t) \/ checkMemRead(t) \/ \E m \in Marks : recordMemWrite(t, m)
      PROVE  TypeOK' /\ DefaultsNeverChange' /\ Private'
  <2> USE DEF Goto, GoFrom
  <2>1. UNCHANGED <<treeVars, sm, tm, qm>> /\ UNCHANGED <<dataBuf, dataBufPos, pos, reg, old>>
    BY <1>3 DEF LockMark, UnlockMark, checkMemRead, recordMemWrite, localVars, dumpVars
  <2>2. DOMAIN pc = Threads /\ parts \in [Threads -> Seq(Part)]
    BY DEF TypeOK, OtherTypeOK
  <2>3. /\ \A u \in Threads \ {t} : pc'[u] = pc[u] /\ parts'[u] = parts[u]
        /\ pc'[t] \in {"setSeen", "idle", "lockMark"}
        /\ DOMAIN pc' = Threads
    BY <1>3, <2>2 DEF LockMark, UnlockMark, checkMemRead, recordMemWrite
  <2>4. parts' \in [Threads -> Seq(Part)]
    BY <1>3, <2>2, MarksType DEF LockMark, UnlockMark, checkMemRead, recordMemWrite
  <2>5. dataLock' \in Threads \cup {None} /\ strays' \in Nat
    <3>1. dataLock \in Threads \cup {None} /\ strays \in Nat
      BY DEF TypeOK, OtherTypeOK
    <3>2. CASE checkMemRead(t)
      BY <3>1, <3>2 DEF checkMemRead, Unlock
    <3>3. CASE LockMark(t) \/ UnlockMark(t) \/ \E m \in Marks : recordMemWrite(t, m)
      BY <3>1, <3>3 DEF LockMark, UnlockMark, recordMemWrite, ghostVars, Lock, Unlock
    <3> QED
      BY <1>3, <3>2, <3>3
  <2>6. OtherTypeOK'
    BY <2>1, <2>3, <2>4, <2>5 DEF TypeOK, OtherTypeOK
  <2> QED
    BY <2>1, <2>3, <2>6, OutsideTree DEF InPart, HasSM, HasTM, HasQM
<1> QED
  BY <1>1, <1>2, <1>3, ChecksKeepTree, CopySMKeepsTree, CopyTMKeepsTree, CopyQMKeepsTree,
     LinkSMKeepsTree, LinkTMKeepsTree, LinkQMKeepsTree, LoadByteKeepsTree, StoreByteKeepsTree
  DEF Next, Mark, getQMForWriting
\* The types hold in every state.
THEOREM TypeCorrect == Spec => []TypeOK
<1>1. TypeOK /\ DefaultsNeverChange /\ Private /\ [Next]_vars
        => TypeOK' /\ DefaultsNeverChange' /\ Private'
  BY StepKeepsTree
<1> QED
  BY <1>1, InitTree, PTL DEF Spec

\* The default pages never change, although a stray unlock lets threads into the
\* tree together: a slot that was found private stays private.
THEOREM DefaultsNeverChangeHolds == Spec => []DefaultsNeverChange
<1>1. TypeOK /\ DefaultsNeverChange /\ Private /\ [Next]_vars
        => TypeOK' /\ DefaultsNeverChange' /\ Private'
  BY StepKeepsTree
<1> QED
  BY <1>1, InitTree, PTL DEF Spec

-----------------------------------------------------------------------------
(* The lock.                                                               *)

LEMMA StepKeepsHeld ==
    ASSUME TypeOK, Held, [Next]_vars
    PROVE  Held'
<1> USE DEF Goto, GoFrom
<1>0. DOMAIN pc = Threads /\ strays \in Nat
  BY DEF TypeOK, OtherTypeOK
<1>1. CASE UNCHANGED vars
  BY <1>1 DEF Held, Inside, vars, ghostVars
<1>2. ASSUME NEW t \in Threads, checkMemRead(t) PROVE Held'
  <2>1. CASE dataLock = None
    BY <2>1, <1>2, NoneIsNoThread DEF checkMemRead, Held, Inside
  <2>2. CASE dataLock # None
    BY <2>2, <1>2, <1>0 DEF checkMemRead, Held
  <2> QED
    BY <2>1, <2>2
<1>3. ASSUME NEW t \in Threads, initThread(t) \/ LockMark(t) PROVE Held'
  <2>1. dataLock = None /\ dataLock' = t /\ strays' = strays
    BY <1>3 DEF initThread, LockMark, Lock, ghostVars
  <2>2. \A u \in Threads \ {t} : pc'[u] = pc[u]
    BY <1>3, <1>0 DEF initThread, LockMark
  <2> QED
    BY <2>1, <2>2, NoneIsNoThread DEF Held, Inside
<1>4. ASSUME NEW t \in Threads, UnlockDump(t) \/ UnlockMark(t) PROVE Held'
  <2>1. dataLock' = None /\ strays' = strays /\ Inside(t)
    BY <1>4 DEF UnlockDump, UnlockMark, Unlock, ghostVars, Inside
  <2>2. pc'[t] = "idle" /\ \A u \in Threads \ {t} : pc'[u] = pc[u]
    BY <1>4, <1>0 DEF UnlockDump, UnlockMark
  <2> QED
    BY <2>1, <2>2 DEF Held, Inside
<1>5. ASSUME NEW t \in Threads, NEW m \in Marks, recordMemWrite(t, m) PROVE Held'
  BY <1>5, <1>0 DEF recordMemWrite, Held, Inside
<1>6. ASSUME NEW t \in Threads,
             TakePos(t) \/ getFileBuf(t) \/ printDataReg(t) \/ StorePos(t)
             \/ getQMForWriting(t) \/ LoadByte(t) \/ StoreByte(t)
      PROVE Held'
  <2>1. dataLock' = dataLock /\ strays' = strays /\ Inside(t)
    BY <1>6 DEF TakePos, getFileBuf, printDataReg, StorePos, getQMForWriting, LoadByte, StoreByte,
                checkSM, checkTM, checkQM, returnQM, CopySM, CopyTM, CopyQM, LinkSM, LinkTM, LinkQM,
                ghostVars, Inside
  <2>2. \A u \in Threads \ {t} : pc'[u] = pc[u]
    BY <1>6, <1>0
       DEF TakePos, getFileBuf, printDataReg, StorePos, getQMForWriting, LoadByte, StoreByte,
           checkSM, checkTM, checkQM, returnQM, CopySM, CopyTM, CopyQM, LinkSM, LinkTM, LinkQM
  <2> QED
    BY <2>1, <2>2 DEF Held, Inside
<1> QED
  BY <1>1, <1>2, <1>3, <1>4, <1>5, <1>6 DEF Next, Dump, Mark

\* As long as no memory read has freed the lock under its holder, no two threads
\* are in what it protects.
THEOREM ExclusiveUntilStrayedHolds == Spec => []ExclusiveUntilStrayed
<1>1. Init => Held
  BY DEF Init, Held, Inside
<1>2. TypeOK /\ Held /\ [Next]_vars => Held'
  BY StepKeepsHeld
<1>3. TypeOK /\ Held => ExclusiveUntilStrayed
  BY DEF Held, ExclusiveUntilStrayed
<1> QED
  BY <1>1, <1>2, <1>3, TypeCorrect, PTL DEF Spec

-----------------------------------------------------------------------------
(* The dump.                                                               *)

LEMMA StepKeepsFitting ==
    ASSUME TypeOK, Fitting, [Next]_vars
    PROVE  Fitting'
<1> USE DEF Goto, GoFrom
<1>0. /\ DOMAIN pc = Threads /\ dataBufPos \in Nat
      /\ pos \in [Threads -> Nat] /\ reg \in [Threads -> Nat \ {0}]
  BY DEF TypeOK, OtherTypeOK
<1>1. CASE UNCHANGED vars
  BY <1>1 DEF Fitting, vars, dumpVars
<1>2. ASSUME NEW t \in Threads, TakePos(t) PROVE Fitting'
  BY <1>2, <1>0 DEF TakePos, Fitting
<1>3. ASSUME NEW t \in Threads, getFileBuf(t) PROVE Fitting'
  <2>1. reg' = [reg EXCEPT ![t] = 1] /\ pc' = [pc EXCEPT ![t] = "printDataReg"]
        /\ dataBufPos' = dataBufPos
    BY <1>3 DEF getFileBuf
  <2>2. pos' = [pos EXCEPT ![t] = pos'[t]] /\ pos'[t] \in Nat /\ pos'[t] + RESERVED <= BUF_SIZE
    BY <1>3, <1>0, SizesType DEF getFileBuf, Full
  <2>3. pos'[t] + (NumRegs + 1 - 1) <= BUF_SIZE /\ 1 <= NumRegs + 1
    BY <2>2, SizesType
  <2> QED
    BY <2>1, <2>2, <2>3, <1>0 DEF Fitting
<1>4. ASSUME NEW t \in Threads, printDataReg(t) PROVE Fitting'
  BY <1>4, <1>0, SizesType DEF printDataReg, Fitting
<1>5. ASSUME NEW t \in Threads, StorePos(t) PROVE Fitting'
  <2>1. pos[t] <= BUF_SIZE
    BY <1>5, <1>0, SizesType DEF StorePos, Fitting
  <2> QED
    BY <2>1, <1>5, <1>0 DEF StorePos, Fitting
<1>6. ASSUME NEW t \in Threads,
             initThread(t) \/ UnlockDump(t) \/ Mark(t) \/ checkMemRead(t)
             \/ \E m \in Marks : recordMemWrite(t, m)
      PROVE Fitting'
  <2>1. dataBufPos' = dataBufPos /\ pos' = pos /\ reg' = reg
    BY <1>6 DEF initThread, UnlockDump, checkMemRead, recordMemWrite, Mark, LockMark, UnlockMark,
                getQMForWriting, LoadByte, StoreByte, checkSM, checkTM, checkQM, returnQM,
                CopySM, CopyTM, CopyQM, LinkSM, LinkTM, LinkQM, dumpVars
  <2>2. \A u \in Threads : pc'[u] \in {"fits", "printDataReg"} => pc'[u] = pc[u]
    BY <1>6, <1>0
       DEF initThread, UnlockDump, checkMemRead, recordMemWrite, Mark, LockMark, UnlockMark,
           getQMForWriting, LoadByte, StoreByte, checkSM, checkTM, checkQM, returnQM,
           CopySM, CopyTM, CopyQM, LinkSM, LinkTM, LinkQM
  <2> QED
    BY <2>1, <2>2 DEF Fitting
<1> QED
  BY <1>1, <1>2, <1>3, <1>4, <1>5, <1>6 DEF Next, Dump

\* Every register of a dump is written inside the buffer, whatever position another
\* thread's dump has left, as long as RESERVED is enough for one dump.
THEOREM DumpInBoundsHolds == Spec => []DumpInBounds
<1>1. Init => Fitting
  BY SizesType DEF Init, Fitting
<1>2. TypeOK /\ Fitting /\ [Next]_vars => Fitting'
  BY StepKeepsFitting
<1>3. TypeOK /\ Fitting => DumpInBounds
  BY SizesType DEF TypeOK, OtherTypeOK, Fitting, DumpInBounds
<1> QED
  BY <1>1, <1>2, <1>3, TypeCorrect, PTL DEF Spec

-----------------------------------------------------------------------------
(* Dumps are whole until a stray unlock comes.                             *)

Cell == {<< >>} \cup (Threads \X Nat)

\* The file, and the first p cells of the buffer.
Cells(file, buf, p) == file \o [i \in 1 .. p |-> buf[i - 1]]
Content(p) == Cells(dataFile, dataBuf, p)

DumpTypeOK ==
    dataFile \in Seq(Cell) /\ dataBuf \in [0 .. BUF_SIZE - 1 -> Cell]

Printing(t) == dataLock = t /\ pc[t] = "printDataReg"

\* What has been dumped, by the position of the thread that is dumping.
Log == Content(IF \E t \in Threads : Printing(t) THEN pos[dataLock] ELSE dataBufPos)

Numbered(w) ==
    \A i \in DOMAIN w : /\ w[i][2] = ((i - 1) % NumRegs) + 1
                        /\ w[i][2] > 1 => w[i - 1][1] = w[i][1]

InOnce(w, t) ==
    \E i \in DOMAIN w : w[i] = <<t, 1>> /\ \A j \in DOMAIN w : w[j] = <<t, 1>> => j = i

NotIn(w, t) == \A i \in DOMAIN w : w[i] # <<t, 1>>

Begun(t) == Initialized(t) \/ pc[t] = "unlockDump" \/ (pc[t] = "printDataReg" /\ reg[t] > 1)

DumpOf(t) ==
    /\ pc[t] = "fits" => pos[t] = dataBufPos
    /\ IF Begun(t) THEN InOnce(Log, t) ELSE NotIn(Log, t)
    /\ pc[t] = "printDataReg" =>
          /\ Len(Log) % NumRegs = IF reg[t] > NumRegs THEN 0 ELSE reg[t] - 1
          /\ reg[t] > 1 => Log # << >> /\ Log[Len(Log)] = <<t, reg[t] - 1>>

\* The registers of a dump follow each other up to the last one printed, and a thread
\* that has begun its dump has begun it once.
Dumping ==
    strays = 0 =>
        /\ Numbered(Log)
        /\ \A t \in Threads : DumpOf(t)
        /\ (\A t \in Threads : ~Printing(t)) => Len(Log) % NumRegs = 0

-----------------------------------------------------------------------------

LEMMA Quotients ==
    ASSUME NEW n \in Nat \ {0}, NEW a \in Int, NEW b \in Int,
           NEW r \in 0 .. n - 1, NEW s \in 0 .. n - 1, n * a + r = n * b + s
    PROVE  a = b /\ r = s
<1>1. n * (a - b) = s - r
  OBVIOUS
<1>2. CASE a - b >= 1
  <2>1. n * (a - b) >= n
    BY <1>2
  <2> QED
    BY <1>1, <2>1
<1>3. CASE b - a >= 1
  <2>1. n * (b - a) >= n
    BY <1>3
  <2>2. n * (b - a) = r - s
    BY <1>1
  <2> QED
    BY <2>1, <2>2
<1> QED
  BY <1>1, <1>2, <1>3

LEMMA Division ==
    ASSUME NEW n \in Nat \ {0}, NEW x \in Nat
    PROVE  x = n * (x \div n) + (x % n) /\ x % n \in 0 .. n - 1 /\ x \div n \in Int
OBVIOUS

\* The remainder counts up and starts again.
LEMMA NextRemainder ==
    ASSUME NEW n \in Nat \ {0}, NEW x \in Nat
    PROVE  (x + 1) % n = IF x % n = n - 1 THEN 0 ELSE (x % n) + 1
<1> DEFINE q == x \div n
           r == x % n
           d == (x + 1) \div n
           e == (x + 1) % n
<1>1. x = n * q + r /\ r \in 0 .. n - 1 /\ q \in Int
  BY Division
<1>2. x + 1 = n * d + e /\ e \in 0 .. n - 1 /\ d \in Int
  BY Division
<1> HIDE DEF q, r, d, e
<1>3. CASE r = n - 1
  <2>1. n * d + e = n * (q + 1) + 0
    BY <1>1, <1>2, <1>3
  <2>2. e = 0
    BY <1>1, <1>2, <2>1, Quotients
  <2> QED
    BY <1>3, <2>2 DEF e, r
<1>4. CASE r # n - 1
  <2>1. n * d + e = n * q + (r + 1) /\ r + 1 \in 0 .. n - 1
    BY <1>1, <1>2, <1>4
  <2>2. e = r + 1
    BY <1>1, <1>2, <2>1, Quotients
  <2> QED
    BY <1>4, <2>2 DEF e, r
<1> QED
  BY <1>3, <1>4

LEMMA RegsDumped == NumRegs \in Nat \ {0}
BY DataLockAssumption

\* The log, cell by cell.
LEMMA ContentCells ==
    ASSUME NEW file \in Seq(Cell), NEW buf \in [0 .. BUF_SIZE - 1 -> Cell], NEW p \in 0 .. BUF_SIZE
    PROVE  /\ Cells(file, buf, p) \in Seq(Cell)
           /\ Len(Cells(file, buf, p)) = Len(file) + p
           /\ DOMAIN Cells(file, buf, p) = 1 .. Len(file) + p
           /\ Len(file) \in Nat
           /\ \A i \in 1 .. Len(file) + p :
                 Cells(file, buf, p)[i] = IF i <= Len(file) THEN file[i] ELSE buf[i - Len(file) - 1]
<1> DEFINE top == [i \in 1 .. p |-> buf[i - 1]]
<1>0. p \in Nat /\ p <= BUF_SIZE /\ BUF_SIZE \in Nat
  BY SizesType
<1>1. \A i \in 1 .. p : buf[i - 1] \in Cell
  BY <1>0
<1>2. top \in Seq(Cell) /\ Len(top) = p
  BY <1>0, <1>1
<1>3. \A i \in 1 .. p : top[i] = buf[i - 1]
  OBVIOUS
<1> HIDE DEF top
<1>4. /\ file \o top \in Seq(Cell) /\ Len(file \o top) = Len(file) + p
      /\ DOMAIN (file \o top) = 1 .. Len(file) + p /\ Len(file) \in Nat
      /\ \A i \in 1 .. Len(file) + p :
            (file \o top)[i] = IF i <= Len(file) THEN file[i] ELSE top[i - Len(file)]
  BY <1>0, <1>2
<1>5. \A i \in 1 .. Len(file) + p : i > Len(file) => top[i - Len(file)] = buf[i - Len(file) - 1]
  BY <1>0, <1>3, <1>4
<1>6. Cells(file, buf, p) = file \o top
  BY DEF Cells, top
<1> QED
  BY <1>4, <1>5, <1>6

\* One more register of the dump of t.
LEMMA NumberedAppend ==
    ASSUME NEW w \in Seq(Cell), NEW v \in Seq(Cell), NEW t \in Threads, NEW r \in Nat \ {0}, r <= NumRegs,
           Len(v) = Len(w) + 1, \A i \in DOMAIN w : v[i] = w[i], v[Len(w) + 1] = <<t, r>>,
           Numbered(w), Len(w) % NumRegs = r - 1,
           r > 1 => w # << >> /\ w[Len(w)] = <<t, r - 1>>
    PROVE  /\ Numbered(v)
           /\ Len(v) % NumRegs = IF r + 1 > NumRegs THEN 0 ELSE r
           /\ v # << >> /\ v[Len(v)] = <<t, r>>
<1>0. /\ DOMAIN w = 1 .. Len(w) /\ DOMAIN v = 1 .. Len(w) + 1 /\ Len(w) \in Nat
      /\ NumRegs \in Nat \ {0}
  BY RegsDumped
<1>1. ASSUME NEW i \in DOMAIN v
      PROVE  v[i][2] = ((i - 1) % NumRegs) + 1 /\ (v[i][2] > 1 => v[i - 1][1] = v[i][1])
  <2>1. CASE i \in DOMAIN w
    <3>1. w[i][2] = ((i - 1) % NumRegs) + 1 /\ (w[i][2] > 1 => w[i - 1][1] = w[i][1]) /\ v[i] = w[i]
      BY <2>1 DEF Numbered
    <3>2. CASE i = 1
      <4>1. (1 - 1) % NumRegs = 0
        BY <1>0, Z3
      <4> QED
        BY <3>1, <3>2, <4>1
    <3>3. CASE i # 1
      <4>1. i - 1 \in DOMAIN w
        BY <1>0, <2>1, <3>3
      <4> QED
        BY <3>1, <4>1
    <3> QED
      BY <3>2, <3>3
  <2>2. CASE i = Len(w) + 1
    <3>1. v[i] = <<t, r>> /\ i - 1 = Len(w)
      BY <1>0, <2>2
    <3>2. v[i][2] = ((i - 1) % NumRegs) + 1
      BY <3>1
    <3>3. ASSUME r > 1 PROVE v[i - 1][1] = v[i][1]
      <4>1. Len(w) \in DOMAIN w /\ w[Len(w)] = <<t, r - 1>>
        BY <1>0, <3>3
      <4>2. v[i - 1] = <<t, r - 1>>
        BY <3>1, <4>1
      <4> QED
        BY <3>1, <4>2
    <3> QED
      BY <3>1, <3>2, <3>3
  <2> QED
    BY <1>0, <2>1, <2>2
<1>2. Len(v) % NumRegs = IF r + 1 > NumRegs THEN 0 ELSE r
  <2>1. (Len(w) + 1) % NumRegs = IF Len(w) % NumRegs = NumRegs - 1 THEN 0 ELSE (Len(w) % NumRegs) + 1
    BY <1>0, NextRemainder
  <2> QED
    BY <1>0, <2>1
<1> QED
  BY <1>0, <1>1, <1>2 DEF Numbered
LEMMA BegunAppend ==
    ASSUME NEW w \in Seq(Cell), NEW v \in Seq(Cell), NEW t \in Threads, NEW r \in Nat \ {0},
           Len(v) = Len(w) + 1, \A i \in DOMAIN w : v[i] = w[i], v[Len(w) + 1] = <<t, r>>,
           NEW u \in Threads
    PROVE  /\ r = 1 /\ NotIn(w, t) => InOnce(v, t)
           /\ r # 1 \/ u # t => /\ InOnce(w, u) => InOnce(v, u)
                                /\ NotIn(w, u) => NotIn(v, u)
<1>0. /\ DOMAIN w = 1 .. Len(w) /\ DOMAIN v = 1 .. Len(w) + 1 /\ Len(w) \in Nat
      /\ DOMAIN w \subseteq DOMAIN v /\ Len(w) + 1 \in DOMAIN v
  OBVIOUS
<1>1. ASSUME r = 1, NotIn(w, t) PROVE InOnce(v, t)
  <2>1. \A j \in DOMAIN v : v[j] = <<t, 1>> => j = Len(w) + 1
    BY <1>0, <1>1 DEF NotIn
  <2> QED
    BY <1>0, <1>1, <2>1 DEF InOnce
<1>2. ASSUME r # 1 \/ u # t PROVE v[Len(w) + 1] # <<u, 1>>
  BY <1>2
<1>3. ASSUME r # 1 \/ u # t, InOnce(w, u) PROVE InOnce(v, u)
  <2>1. PICK i \in DOMAIN w : w[i] = <<u, 1>> /\ \A j \in DOMAIN w : w[j] = <<u, 1>> => j = i
    BY <1>3 DEF InOnce
  <2>2. \A j \in DOMAIN v : v[j] = <<u, 1>> => j = i
    BY <1>0, <1>2, <1>3, <2>1
  <2> QED
    BY <1>0, <2>1, <2>2 DEF InOnce
<1>4. ASSUME r # 1 \/ u # t, NotIn(w, u) PROVE NotIn(v, u)
  BY <1>0, <1>2, <1>4 DEF NotIn
<1> QED
  BY <1>1, <1>3, <1>4

\* Which position the log goes by.
LEMMA LogOfPrinter ==
    ASSUME NEW t \in Threads, Printing(t)
    PROVE  Log = Content(pos[t])
BY DEF Log, Printing

LEMMA LogOfRest ==
    ASSUME \A t \in Threads : ~Printing(t)
    PROVE  Log = Content(dataBufPos)
BY DEF Log

\* Registers go into cells of the buffer, and the buffer into the file.
LEMMA DumpTypeInvariant ==
    ASSUME TypeOK, Fitting, DumpTypeOK, [Next]_vars
    PROVE  DumpTypeOK'
<1> USE DEF Goto, GoFrom
<1>0. /\ DOMAIN pc = Threads /\ pos \in [Threads -> Nat] /\ reg \in [Threads -> Nat \ {0}]
      /\ dataBufPos \in Nat
  BY DEF TypeOK, OtherTypeOK
<1>1. CASE dataFile' = dataFile /\ dataBuf' = dataBuf
  BY <1>1 DEF DumpTypeOK
<1>2. ASSUME NEW t \in Threads, getFileBuf(t) PROVE DumpTypeOK'
  <2>1. pos[t] \in 0 .. BUF_SIZE
    BY <1>0, <1>2, SizesType DEF getFileBuf, Fitting
  <2>2. Flushed(pos[t]) = Content(pos[t])
    BY DEF Flushed, Content, Cells
  <2>3. Flushed(pos[t]) \in Seq(Cell)
    BY <2>1, <2>2, ContentCells DEF DumpTypeOK, Content
  <2> QED
    BY <1>2, <2>3 DEF getFileBuf, DumpTypeOK
<1>3. ASSUME NEW t \in Threads, printDataReg(t) PROVE DumpTypeOK'
  <2>1. <<t, reg[t]>> \in Cell
    BY <1>0 DEF Cell
  <2> QED
    BY <1>3, <2>1 DEF printDataReg, DumpTypeOK
<1>4. ASSUME NEW t \in Threads,
             \/ initThread(t) \/ TakePos(t) \/ StorePos(t) \/ UnlockDump(t) \/ Mark(t)
             \/ checkMemRead(t) \/ \E m \in Marks : recordMemWrite(t, m)
      PROVE  dataFile' = dataFile /\ dataBuf' = dataBuf
  BY <1>4 DEF initThread, TakePos, StorePos, UnlockDump, checkMemRead, recordMemWrite, Mark, LockMark,
              UnlockMark, getQMForWriting, LoadByte, StoreByte, checkSM, checkTM, checkQM, returnQM,
              CopySM, CopyTM, CopyQM, LinkSM, LinkTM, LinkQM, dumpVars
<1>5. CASE UNCHANGED vars
  BY <1>1, <1>5 DEF vars, dumpVars
<1> QED
  BY <1>1, <1>2, <1>3, <1>4, <1>5 DEF Next, Dump

\* A step of a dump is a step of the thread that has the lock, and no other prints.
LEMMA AloneInDump ==
    ASSUME TypeOK, Held, strays = 0, NEW t \in Threads, Inside(t)
    PROVE  dataLock = t /\ \A u \in Threads \ {t} : ~Inside(u) /\ ~Printing(u) /\ pc[u] # "fits"
BY DEF Held, Inside, Printing

\* A step that neither prints nor moves the position of the buffer.
LEMMA OtherStepDumping ==
    ASSUME TypeOK, Held, Dumping, strays = 0, strays' = 0, NEW t \in Threads,
           \/ initThread(t) \/ TakePos(t) \/ UnlockDump(t) \/ Mark(t)
           \/ checkMemRead(t) \/ \E m \in Marks : recordMemWrite(t, m)
    PROVE  Dumping'
<1> USE DEF Goto, GoFrom
<1>0. /\ DOMAIN pc = Threads /\ pos \in [Threads -> Nat] /\ reg \in [Threads -> Nat \ {0}]
      /\ dataBufPos \in Nat /\ strays \in Nat
  BY DEF TypeOK, OtherTypeOK
<1>1. dataFile' = dataFile /\ dataBuf' = dataBuf /\ dataBufPos' = dataBufPos /\ reg' = reg
  BY DEF initThread, TakePos, UnlockDump, checkMemRead, recordMemWrite, Mark, LockMark,
         UnlockMark, getQMForWriting, LoadByte, StoreByte, checkSM, checkTM, checkQM, returnQM,
         CopySM, CopyTM, CopyQM, LinkSM, LinkTM, LinkQM, dumpVars
<1>2. /\ \A u \in Threads : u # t => pc'[u] = pc[u] /\ pos'[u] = pos[u]
      /\ pc'[t] # "printDataReg" /\ (pc[t] = "printDataReg" => pc'[t] = pc[t])
  BY <1>0 DEF initThread, TakePos, UnlockDump, checkMemRead, recordMemWrite, Mark, LockMark,
         UnlockMark, getQMForWriting, LoadByte, StoreByte, checkSM, checkTM, checkQM, returnQM,
         CopySM, CopyTM, CopyQM, LinkSM, LinkTM, LinkQM, dumpVars
<1>3. /\ pc'[t] = "fits" => pos'[t] = dataBufPos
      /\ Begun(t)' = Begun(t)
  BY <1>0, <1>1 DEF initThread, TakePos, UnlockDump, checkMemRead, recordMemWrite, Mark, LockMark,
         UnlockMark, getQMForWriting, LoadByte, StoreByte, checkSM, checkTM, checkQM, returnQM,
         CopySM, CopyTM, CopyQM, LinkSM, LinkTM, LinkQM, Begun, Initialized
<1>4. ASSUME NEW u \in Threads PROVE Printing(u)' <=> Printing(u)
  <2>1. CASE initThread(t) \/ LockMark(t)
    <3>1. dataLock = None /\ dataLock' = t
      BY <2>1 DEF initThread, LockMark, Lock
    <3> QED
      BY <1>2, <3>1, NoneIsNoThread DEF Printing
  <2>2. CASE UnlockDump(t) \/ UnlockMark(t)
    <3>1. Inside(t) /\ dataLock' = None /\ pc[t] # "printDataReg"
      BY <2>2 DEF UnlockDump, UnlockMark, Unlock, Inside
    <3>2. dataLock = t
      BY <3>1, AloneInDump
    <3> QED
      BY <3>1, <3>2, NoneIsNoThread DEF Printing
  <2>3. CASE checkMemRead(t)
    <3>1. dataLock = None
      BY <1>0, <2>3 DEF checkMemRead
    <3>2. dataLock' = None
      BY <2>3 DEF checkMemRead, Unlock
    <3> QED
      BY <3>1, <3>2, NoneIsNoThread DEF Printing
  <2>4. CASE \/ TakePos(t) \/ getQMForWriting(t) \/ LoadByte(t) \/ StoreByte(t)
             \/ \E m \in Marks : recordMemWrite(t, m)
    <3>1. dataLock' = dataLock /\ pc[t] # "printDataReg"
      BY <2>4 DEF TakePos, recordMemWrite, getQMForWriting, LoadByte, StoreByte, checkSM, checkTM,
                  checkQM, returnQM, CopySM, CopyTM, CopyQM, LinkSM, LinkTM, LinkQM
    <3> QED
      BY <1>2, <3>1 DEF Printing
  <2> QED
    BY <2>1, <2>2, <2>3, <2>4 DEF Mark
<1>5. Log' = Log
  <2>1. CASE \A u \in Threads : ~Printing(u)
    <3>1. Log = Content(dataBufPos)
      BY <2>1, LogOfRest
    <3>2. Log' = Content(dataBufPos)'
      BY <1>4, <2>1 DEF Log
    <3> QED
      BY <1>1, <3>1, <3>2 DEF Content
  <2>2. ASSUME NEW u \in Threads, Printing(u) PROVE Log' = Log
    <3>1. u # t /\ pos'[u] = pos[u]
      BY <1>2, <1>4, <2>2 DEF Printing
    <3>2. Log = Content(pos[u])
      BY <2>2, LogOfPrinter
    <3>3. Printing(u)' /\ dataLock' = u
      BY <1>4, <2>2 DEF Printing
    <3>4. Log' = Content(pos[u])'
      BY <3>3 DEF Log
    <3> QED
      BY <1>1, <3>1, <3>2, <3>4 DEF Content
  <2> QED
    BY <2>1, <2>2
<1>6. ASSUME NEW u \in Threads PROVE DumpOf(u)'
  <2>1. DumpOf(u)
    BY DEF Dumping
  <2>2. CASE u = t
    BY <1>1, <1>2, <1>3, <1>5, <2>1, <2>2 DEF DumpOf
  <2>3. CASE u # t
    <3>1. pc'[u] = pc[u] /\ pos'[u] = pos[u] /\ reg'[u] = reg[u] /\ Begun(u)' = Begun(u)
      BY <1>1, <1>2, <2>3 DEF Begun, Initialized
    <3> QED
      BY <1>1, <1>5, <2>1, <3>1 DEF DumpOf
  <2> QED
    BY <2>2, <2>3
<1> QED
  BY <1>4, <1>5, <1>6 DEF Dumping, Numbered
\* The buffer goes to the file, or is filled from where it is.
LEMMA FileBufDumping ==
    ASSUME TypeOK, Fitting, DumpTypeOK, Held, Dumping, strays = 0, NEW t \in Threads, getFileBuf(t)
    PROVE  Dumping'
<1> USE DEF Goto, GoFrom
<1>0. /\ DOMAIN pc = Threads /\ pos \in [Threads -> Nat] /\ reg \in [Threads -> Nat \ {0}]
  BY DEF TypeOK, OtherTypeOK
<1>1. /\ pc[t] = "fits" /\ pc' = [pc EXCEPT ![t] = "printDataReg"] /\ reg' = [reg EXCEPT ![t] = 1]
      /\ dataLock' = dataLock /\ dataBuf' = dataBuf /\ strays' = strays /\ dataBufPos' = dataBufPos
  BY DEF getFileBuf, ghostVars
<1>2. /\ dataLock = t /\ \A u \in Threads : ~Printing(u)
      /\ \A u \in Threads \ {t} : pc[u] # "fits" /\ pc[u] # "printDataReg"
  BY <1>1, AloneInDump DEF Inside, Printing
<1>3. pos[t] = dataBufPos /\ pos[t] \in 0 .. BUF_SIZE
  BY <1>0, <1>1, SizesType DEF Dumping, DumpOf, Fitting
<1>4. Log = Content(pos[t])
  BY <1>2, <1>3, LogOfRest
<1>5. Printing(t)' /\ pc'[t] = "printDataReg" /\ reg'[t] = 1
  BY <1>0, <1>1, <1>2 DEF Printing
<1>6. Log' = Content(pos[t])'
  BY <1>1, <1>2, <1>5 DEF Log
<1>7. Log' = Log
  <2>1. CASE Full(pos[t])
    <3>1. dataFile' = Content(pos[t]) /\ pos'[t] = 0
      BY <1>0, <2>1 DEF getFileBuf, Flushed, Content, Cells
    <3>2. Content(pos[t]) \in Seq(Cell)
      BY <1>3, ContentCells DEF DumpTypeOK, Content
    <3>3. [i \in 1 .. 0 |-> dataBuf'[i - 1]] = << >>
      OBVIOUS
    <3>4. Content(pos[t])' = dataFile' \o << >>
      BY <3>1, <3>3 DEF Content, Cells
    <3> QED
      BY <1>4, <1>6, <3>1, <3>2, <3>4
  <2>2. CASE ~Full(pos[t])
    <3>1. dataFile' = dataFile /\ pos' = pos
      BY <2>2 DEF getFileBuf
    <3> QED
      BY <1>1, <1>4, <1>6, <3>1 DEF Content
  <2> QED
    BY <2>1, <2>2
<1>8. Len(Log) % NumRegs = 0
  BY <1>2 DEF Dumping
<1>9. ASSUME NEW u \in Threads PROVE DumpOf(u)'
  <2>1. DumpOf(u)
    BY DEF Dumping
  <2>2. CASE u = t
    <3>1. ~Begun(t)
      BY <1>1 DEF Begun, Initialized
    <3>2. ~Begun(t)'
      BY <1>5 DEF Begun, Initialized
    <3> QED
      BY <1>5, <1>7, <1>8, <2>1, <2>2, <3>1, <3>2, RegsDumped DEF DumpOf
  <2>3. CASE u # t
    <3>1. pc'[u] = pc[u] /\ reg'[u] = reg[u] /\ pc[u] # "fits" /\ Begun(u)' = Begun(u)
      BY <1>0, <1>1, <1>2, <2>3 DEF Begun, Initialized
    <3> QED
      BY <1>2, <1>7, <2>1, <2>3, <3>1 DEF DumpOf
  <2> QED
    BY <2>2, <2>3
<1> QED
  BY <1>1, <1>5, <1>7, <1>9 DEF Dumping, Numbered

\* The next register.
LEMMA PrintDumping ==
    ASSUME TypeOK, Fitting, DumpTypeOK, DumpTypeOK', Held, Dumping, strays = 0, NEW t \in Threads,
           printDataReg(t)
    PROVE  Dumping'
<1>0. /\ DOMAIN pc = Threads /\ pos \in [Threads -> Nat] /\ reg \in [Threads -> Nat \ {0}]
  BY DEF TypeOK, OtherTypeOK
<1>1. /\ pc[t] = "printDataReg" /\ pc' = pc /\ dataLock' = dataLock /\ strays' = strays
      /\ dataFile' = dataFile /\ dataBufPos' = dataBufPos
      /\ dataBuf' = [dataBuf EXCEPT ![pos[t]] = <<t, reg[t]>>]
      /\ pos' = [pos EXCEPT ![t] = pos[t] + 1]
      /\ reg' = [reg EXCEPT ![t] = reg[t] + 1]
      /\ reg[t] <= NumRegs
  BY DEF printDataReg, ghostVars
<1>2. /\ dataLock = t /\ Printing(t)
      /\ \A u \in Threads \ {t} : pc[u] # "fits" /\ pc[u] # "printDataReg"
  BY <1>1, AloneInDump DEF Inside, Printing
<1>3. pos[t] \in 0 .. BUF_SIZE - 1 /\ pos[t] + 1 \in 0 .. BUF_SIZE /\ pos[t] \in 0 .. BUF_SIZE
  BY <1>0, <1>1, SizesType DEF Fitting
<1>4. Log = Content(pos[t])
  BY <1>2, LogOfPrinter
<1>5. Printing(t)' /\ pos'[t] = pos[t] + 1 /\ reg'[t] = reg[t] + 1
  BY <1>0, <1>1, <1>2 DEF Printing
<1>6. Log' = Content(pos[t])'
  BY <1>1, <1>2, <1>5 DEF Log
<1> DEFINE n == Len(dataFile) + pos[t]
<1>7. /\ Content(pos[t]) \in Seq(Cell) /\ Len(Content(pos[t])) = n /\ n \in Nat
      /\ DOMAIN Content(pos[t]) = 1 .. n
      /\ Len(dataFile) \in Nat
      /\ \A i \in 1 .. n : Content(pos[t])[i] = IF i <= Len(dataFile) THEN dataFile[i]
                                               ELSE dataBuf[i - Len(dataFile) - 1]
  <2>1. dataFile \in Seq(Cell) /\ dataBuf \in [0 .. BUF_SIZE - 1 -> Cell]
    BY DEF DumpTypeOK
  <2>2. PICK q \in 0 .. BUF_SIZE : q = pos[t]
    BY <1>3
  <2>3. /\ Content(q) \in Seq(Cell) /\ Len(Content(q)) = Len(dataFile) + q
        /\ DOMAIN Content(q) = 1 .. Len(dataFile) + q /\ Len(dataFile) \in Nat
        /\ \A i \in 1 .. Len(dataFile) + q :
              Content(q)[i] = IF i <= Len(dataFile) THEN dataFile[i] ELSE dataBuf[i - Len(dataFile) - 1]
    BY <2>1, ContentCells DEF Content
  <2>4. Len(dataFile) + q \in Nat
    BY <2>3, SizesType
  <2> QED
    BY <2>2, <2>3, <2>4
<1>8. PICK p : p = pos[t] + 1
  OBVIOUS
<1>9. /\ Content(p)' \in Seq(Cell) /\ Len(Content(p)') = n + 1
      /\ \A i \in 1 .. n + 1 : Content(p)'[i] = IF i <= Len(dataFile) THEN dataFile[i]
                                                ELSE dataBuf'[i - Len(dataFile) - 1]
  <2>1. p \in 0 .. BUF_SIZE
    BY <1>3, <1>8
  <2>2. /\ Content(p)' \in Seq(Cell) /\ Len(Content(p)') = Len(dataFile') + p
        /\ \A i \in 1 .. Len(dataFile') + p :
              Content(p)'[i] = IF i <= Len(dataFile') THEN dataFile'[i]
                               ELSE dataBuf'[i - Len(dataFile') - 1]
    BY <2>1, ContentCells DEF DumpTypeOK, Content
  <2>3. Len(dataFile') + p = n + 1 /\ dataFile' = dataFile
    BY <1>0, <1>1, <1>7, <1>8
  <2> QED
    BY <2>2, <2>3
<1>10. Log' = Content(p)'
  BY <1>5, <1>6, <1>8 DEF Content
<1> HIDE DEF n
<1>11. PICK w, v : w = Log /\ v = Log'
  OBVIOUS
<1>12. /\ w \in Seq(Cell) /\ v \in Seq(Cell) /\ Len(w) = n /\ Len(v) = Len(w) + 1 /\ DOMAIN w = 1 .. n
  BY <1>4, <1>7, <1>9, <1>10, <1>11
<1>13. v[Len(w) + 1] = <<t, reg[t]>>
  <2>1. PICK k \in Nat : k = n + 1 /\ k = Len(w) + 1
    BY <1>7, <1>12
  <2>2. k \in 1 .. n + 1 /\ ~(k <= Len(dataFile)) /\ k - Len(dataFile) - 1 = pos[t]
    BY <1>0, <1>7, <2>1 DEF n
  <2>3. v[k] = dataBuf'[k - Len(dataFile) - 1]
    <3>1. \A i \in 1 .. n + 1 : ~(i <= Len(dataFile)) => v[i] = dataBuf'[i - Len(dataFile) - 1]
      BY <1>9, <1>10, <1>11
    <3> QED
      BY <2>2, <3>1
  <2>4. dataBuf'[pos[t]] = <<t, reg[t]>>
    BY <1>1, <1>3 DEF DumpTypeOK
  <2> QED
    BY <2>1, <2>4, <2>2, <2>3
<1>14. \A i \in DOMAIN w : v[i] = w[i]
  <2> SUFFICES ASSUME NEW i \in 1 .. n PROVE Content(p)'[i] = Content(pos[t])[i]
    BY <1>4, <1>10, <1>11, <1>12
  <2>1. i \in 1 .. n + 1
    BY <1>7
  <2>2. CASE i <= Len(dataFile)
    BY <1>7, <1>9, <2>1, <2>2
  <2>3. CASE ~(i <= Len(dataFile))
    <3>1. i - Len(dataFile) - 1 \in 0 .. BUF_SIZE - 1 /\ i - Len(dataFile) - 1 # pos[t]
      BY <1>0, <1>3, <1>7, <2>3, SizesType DEF n
    <3>2. dataBuf'[i - Len(dataFile) - 1] = dataBuf[i - Len(dataFile) - 1]
      BY <1>1, <3>1 DEF DumpTypeOK
    <3> QED
      BY <1>7, <1>9, <2>1, <2>3, <3>2
  <2> QED
    BY <2>2, <2>3
<1>15. PICK r \in Nat \ {0} : r = reg[t]
  BY <1>0
<1>16. v[Len(w) + 1] = <<t, r>>
  BY <1>13, <1>15
<1>17. /\ Numbered(w) /\ Len(w) % NumRegs = r - 1 /\ r <= NumRegs
       /\ (r > 1 => w # << >> /\ w[Len(w)] = <<t, r - 1>>)
  <2>1. ~(r > NumRegs)
    BY <1>1, <1>15, RegsDumped
  <2>2. DumpOf(t) /\ Numbered(Log)
    BY DEF Dumping
  <2> QED
    BY <1>1, <1>11, <1>15, <2>1, <2>2 DEF DumpOf
<1>18. /\ Numbered(v) /\ Len(v) % NumRegs = (IF r + 1 > NumRegs THEN 0 ELSE r)
       /\ v # << >> /\ v[Len(v)] = <<t, r>>
  <2>1. w \in Seq(Cell) /\ v \in Seq(Cell) /\ Len(v) = Len(w) + 1
    BY <1>12
  <2> HIDE DEF n
  <2> QED
    BY <2>1, <1>14, <1>15, <1>16, <1>17, NumberedAppend, SMTT(30)
<1>19. ASSUME NEW u \in Threads PROVE DumpOf(u)'
  <2>1. DumpOf(u)
    BY DEF Dumping
  <2>2. CASE u = t
    <3>1. pc'[t] = "printDataReg" /\ reg'[t] = r + 1 /\ r + 1 > 1 /\ (r + 1) - 1 = r
      BY <1>1, <1>5, <1>15
    <3>2. Begun(t)'
      BY <3>1 DEF Begun
    <3>3. InOnce(v, t)
      <4>1. CASE r = 1
        <5>1. ~Begun(t)
          BY <1>1, <1>15, <4>1 DEF Begun, Initialized
        <5>2. NotIn(w, t)
          BY <1>11, <2>1, <2>2, <5>1 DEF DumpOf
        <5> QED
          BY <1>12, <1>14, <1>16, <4>1, <5>2, BegunAppend
      <4>2. CASE r # 1
        <5>1. Begun(t)
          BY <1>1, <1>15, <4>2 DEF Begun
        <5>2. InOnce(w, t)
          BY <1>11, <2>1, <2>2, <5>1 DEF DumpOf
        <5> QED
          BY <1>12, <1>14, <1>16, <4>2, <5>2, BegunAppend
      <4> QED
        BY <4>1, <4>2
    <3>4. InOnce(Log, t)'
      BY <1>11, <3>3 DEF InOnce
    <3> QED
      BY <1>11, <1>18, <2>2, <3>1, <3>2, <3>4 DEF DumpOf
  <2>3. CASE u # t
    <3>1. pc'[u] = pc[u] /\ reg'[u] = reg[u] /\ pc[u] # "fits" /\ pc[u] # "printDataReg"
          /\ Begun(u)' = Begun(u)
      BY <1>0, <1>1, <1>2, <2>3 DEF Begun, Initialized
    <3>2. (InOnce(w, u) => InOnce(v, u)) /\ (NotIn(w, u) => NotIn(v, u))
      BY <1>12, <1>14, <1>16, <2>3, BegunAppend
    <3>3. (InOnce(Log, u) => InOnce(Log, u)') /\ (NotIn(Log, u) => NotIn(Log, u)')
      BY <1>11, <3>2 DEF InOnce, NotIn
    <3> QED
      BY <2>1, <3>1, <3>3 DEF DumpOf
  <2> QED
    BY <2>2, <2>3
<1>20. Numbered(Log)'
  BY <1>11, <1>18 DEF Numbered
<1> QED
  BY <1>1, <1>5, <1>19, <1>20 DEF Dumping

\* The position of the buffer moves on to the end of the dump.
LEMMA StoreDumping ==
    ASSUME TypeOK, Held, Dumping, strays = 0, NEW t \in Threads, StorePos(t)
    PROVE  Dumping'
<1> USE DEF Goto, GoFrom
<1>0. /\ DOMAIN pc = Threads /\ reg \in [Threads -> Nat \ {0}] /\ NumRegs \in Nat \ {0}
  BY RegsDumped DEF TypeOK, OtherTypeOK
<1>1. /\ pc[t] = "printDataReg" /\ pc' = [pc EXCEPT ![t] = "unlockDump"] /\ dataLock' = dataLock
      /\ dataFile' = dataFile /\ dataBuf' = dataBuf /\ dataBufPos' = pos[t] /\ reg[t] > NumRegs
      /\ pos' = pos /\ reg' = reg /\ strays' = strays
  BY DEF StorePos, ghostVars
<1>2. /\ dataLock = t /\ Printing(t)
      /\ \A u \in Threads \ {t} : pc[u] # "fits" /\ pc[u] # "printDataReg"
  BY <1>1, AloneInDump DEF Inside, Printing
<1>3. Log = Content(pos[t])
  BY <1>2, LogOfPrinter
<1>4. pc'[t] = "unlockDump" /\ \A u \in Threads : ~Printing(u)'
  BY <1>0, <1>1, <1>2 DEF Printing
<1>5. Log' = Content(dataBufPos)'
  BY <1>4 DEF Log
<1>6. Log' = Log
  BY <1>1, <1>3, <1>5 DEF Content
<1>7. ASSUME NEW u \in Threads PROVE DumpOf(u)'
  <2>1. DumpOf(u)
    BY DEF Dumping
  <2>2. CASE u = t
    <3>1. Begun(t) /\ Begun(t)'
      BY <1>0, <1>1, <1>4 DEF Begun
    <3> QED
      BY <1>4, <1>6, <2>1, <2>2, <3>1 DEF DumpOf
  <2>3. CASE u # t
    <3>1. pc'[u] = pc[u] /\ reg'[u] = reg[u] /\ pc[u] # "fits" /\ pc[u] # "printDataReg"
          /\ Begun(u)' = Begun(u)
      BY <1>0, <1>1, <1>2, <2>3 DEF Begun, Initialized
    <3> QED
      BY <1>6, <2>1, <3>1 DEF DumpOf
  <2> QED
    BY <2>2, <2>3
<1>8. Len(Log) % NumRegs = 0
  BY <1>1 DEF Dumping, DumpOf
<1>9. Numbered(Log)
  BY DEF Dumping
<1> QED
  BY <1>6, <1>7, <1>8, <1>9 DEF Dumping, Numbered

LEMMA StepKeepsDumping ==
    ASSUME TypeOK, Fitting, Held, DumpTypeOK, DumpTypeOK', Dumping, [Next]_vars
    PROVE  Dumping'
<1>0. strays \in Nat
  BY DEF TypeOK, OtherTypeOK
<1>1. CASE UNCHANGED vars
  <2>1. /\ dataLock' = dataLock /\ pc' = pc /\ pos' = pos /\ reg' = reg /\ strays' = strays
        /\ dataFile' = dataFile /\ dataBuf' = dataBuf /\ dataBufPos' = dataBufPos
    BY <1>1 DEF vars, dumpVars, ghostVars
  <2>2. Log' = Log
    BY <2>1 DEF Log, Printing, Content
  <2>3. \A t \in Threads : DumpOf(t) => DumpOf(t)'
    BY <2>1, <2>2 DEF DumpOf, Begun, Initialized
  <2> QED
    BY <2>1, <2>2, <2>3 DEF Dumping, Printing, Numbered
<1>2. ASSUME NEW t \in Threads,
             \/ Dump(t) \/ Mark(t) \/ checkMemRead(t) \/ \E m \in Marks : recordMemWrite(t, m)
      PROVE  strays' = 0 => strays = 0
  <2>1. CASE checkMemRead(t)
    BY <1>0, <2>1 DEF checkMemRead
  <2>2. CASE Dump(t) \/ \E m \in Marks : recordMemWrite(t, m)
    BY <2>2 DEF Dump, initThread, TakePos, getFileBuf, printDataReg, StorePos, UnlockDump,
                recordMemWrite, ghostVars
  <2>3. CASE Mark(t)
    BY <2>3 DEF Mark, LockMark, UnlockMark, LoadByte, StoreByte, getQMForWriting, checkSM, checkTM,
                checkQM, returnQM, CopySM, CopyTM, CopyQM, LinkSM, LinkTM, LinkQM, ghostVars
  <2> QED
    BY <1>2, <2>1, <2>2, <2>3
<1>3. CASE Next /\ strays' = 0
  <2>1. PICK t \in Threads : \/ Dump(t) \/ Mark(t) \/ checkMemRead(t)
                             \/ \E m \in Marks : recordMemWrite(t, m)
    BY <1>3 DEF Next
  <2>2. strays = 0
    BY <1>2, <1>3, <2>1
  <2>3. CASE getFileBuf(t)
    BY <2>2, <2>3, FileBufDumping
  <2>4. CASE printDataReg(t)
    BY <2>2, <2>4, PrintDumping
  <2>5. CASE StorePos(t)
    BY <2>2, <2>5, StoreDumping
  <2>6. CASE \/ initThread(t) \/ TakePos(t) \/ UnlockDump(t) \/ Mark(t)
             \/ checkMemRead(t) \/ \E m \in Marks : recordMemWrite(t, m)
    BY <1>3, <2>2, <2>6, OtherStepDumping
  <2> QED
    BY <2>1, <2>3, <2>4, <2>5, <2>6 DEF Dump
<1>4. CASE strays' # 0
  BY <1>4 DEF Dumping
<1> QED
  BY <1>1, <1>3, <1>4

LEMMA InitDumping == Init => DumpTypeOK /\ Dumping
<1> SUFFICES ASSUME Init PROVE DumpTypeOK /\ Dumping
  OBVIOUS
<1> USE DEF Init
<1>1. DumpTypeOK
  BY DEF DumpTypeOK, Cell
<1>2. \A t \in Threads : ~Printing(t)
  BY DEF Printing
<1>3. Log = << >> \o << >>
  BY <1>2, LogOfRest DEF Content, Cells
<1>4. Log = << >>
  BY <1>3
<1>5. Len(Log) % NumRegs = 0
  <2>1. Len(Log) = 0
    BY <1>4
  <2> QED
    BY <2>1, RegsDumped, Division, Quotients
<1>6. Numbered(Log) /\ \A t \in Threads : NotIn(Log, t)
  BY <1>4 DEF Numbered, NotIn
<1>7. \A t \in Threads : DumpOf(t)
  BY <1>6 DEF DumpOf, Begun, Initialized
<1> QED
  BY <1>1, <1>5, <1>6, <1>7 DEF Dumping

\* With the lock free nobody is dumping.
LEMMA WholeAtRest ==
    ASSUME TypeOK, Held, Dumping
    PROVE  DumpsWholeUntilStrayed
<1> SUFFICES ASSUME strays = 0, dataLock = None
             PROVE  /\ \A i \in DOMAIN Written :
                          /\ Written[i][2] = ((i - 1) % NumRegs) + 1
                          /\ Written[i][2] > 1 => Written[i - 1][1] = Written[i][1]
                    /\ \A t \in Threads : Initialized(t) =>
                          Cardinality({i \in DOMAIN Written : Written[i] = <<t, 1>>}) = 1
  BY DEF DumpsWholeUntilStrayed
<1>1. \A t \in Threads : ~Printing(t)
  BY NoneIsNoThread DEF Printing
<1>2. Log = Written
  BY <1>1, LogOfRest DEF Content, Cells, Written
<1>3. Numbered(Written)
  BY <1>2 DEF Dumping
<1>4. ASSUME NEW t \in Threads, Initialized(t)
      PROVE  Cardinality({i \in DOMAIN Written : Written[i] = <<t, 1>>}) = 1
  <2>1. InOnce(Written, t)
    BY <1>2, <1>4 DEF Dumping, DumpOf, Begun
  <2>2. PICK i \in DOMAIN Written :
           Written[i] = <<t, 1>> /\ \A j \in DOMAIN Written : Written[j] = <<t, 1>> => j = i
    BY <2>1 DEF InOnce
  <2>3. {j \in DOMAIN Written : Written[j] = <<t, 1>>} = {i}
    BY <2>2
  <2> QED
    BY <2>3, FS_Singleton
<1> QED
  BY <1>3, <1>4 DEF Numbered

\* Until a memory read frees the lock under its holder, whenever the lock is free the
\* dump of every thread that initThread has returned for is in the file or the buffer,
\* once, whole and in one piece.
THEOREM DumpsWholeUntilStrayedHolds == Spec => []DumpsWholeUntilStrayed
<1>1. Init => Fitting /\ Held
  BY SizesType DEF Init, Fitting, Held, Inside
<1>2. TypeOK /\ Fitting /\ [Next]_vars => Fitting'
  BY StepKeepsFitting
<1>3. TypeOK /\ Held /\ [Next]_vars => Held'
  BY StepKeepsHeld
<1>4. TypeOK /\ Fitting /\ DumpTypeOK /\ [Next]_vars => DumpTypeOK'
  BY DumpTypeInvariant
<1>5. TypeOK /\ Fitting /\ Held /\ DumpTypeOK /\ DumpTypeOK' /\ Dumping /\ [Next]_vars => Dumping'
  BY StepKeepsDumping
<1>6. TypeOK /\ Held /\ Dumping => DumpsWholeUntilStrayed
  BY WholeAtRest
<1> QED
  BY <1>1, <1>2, <1>3, <1>4, <1>5, <1>6, InitDumping, TypeCorrect, PTL DEF Spec

-----------------------------------------------------------------------------
(***************************************************************************)
(* As long as no stray unlock comes, no mark is lost.  The argument: a     *)
(* thread that is alone in the tree stands, at every step, on the path of  *)
(* its part as far as it has got, and below that point the path is         *)
(* default (PathOf); so what it puts in place hides no bits, and the byte  *)
(* it stores is the byte that is there.  Hence bytes only grow (Grows).    *)
(*                                                                         *)
(* With stray unlocks marks are lost, but none is made up.  The argument:  *)
(* every page but a default one has a home, the one place of the tree that *)
(* it was copied for (Homes); whatever threads meet in the tree, they link *)
(* pages only at their homes and store only bits asked for there.          *)
(***************************************************************************)

NewSM == {"copyTM of SM", "copyQM of SM", "linkSM"}
AtSM  == {"checkTM", "copyTM", "copyQM of TM", "linkTM", "checkQM", "copyQM", "linkQM",
          "returnQM", "load", "store"}
AtTM  == {"checkQM", "copyQM", "linkQM", "returnQM", "load", "store"}
AtQM  == {"returnQM", "load", "store"}

\* How far the path of the part of a thread leads over the pages it holds.
PathOf(t) ==
    /\ pc[t] \in NewSM \cup {"copySM"} => PM[Part1(t).pm] = Default
    /\ pc[t] = "copySM" => sm[t] = Default
    /\ pc[t] \in NewSM \cup {"copyTM", "copyQM of TM", "linkTM"} => SM[sm[t]][Part1(t).sm] = Default
    /\ pc[t] = "copyTM" => tm[t] = Default
    /\ pc[t] \in {"copyQM of SM", "copyQM of TM", "linkSM", "linkTM", "copyQM", "linkQM"} =>
          TM[tm[t]][Part1(t).tm] = Default
    /\ pc[t] \in AtSM => PM[Part1(t).pm] = sm[t]
    /\ pc[t] \in AtTM => SM[sm[t]][Part1(t).sm] = tm[t]
    /\ pc[t] \in AtQM => TM[tm[t]][Part1(t).tm] = qm[t]
    /\ pc[t] = "store" => old[t] = QM[qm[t]][Part1(t).byte]

\* No byte loses a bit.
Grows == \A p \in Part : Byte(p) \subseteq Byte(p)'

-----------------------------------------------------------------------------

LEMMA PathType ==
    ASSUME TypeOK, NEW p \in Part
    PROVE  /\ p.pm \in Slots /\ p.sm \in Slots /\ p.tm \in Slots /\ p.byte \in SeenBytes
           /\ PM[p.pm] \in DOMAIN SM
           /\ SM[PM[p.pm]][p.sm] \in DOMAIN TM
           /\ TM[SM[PM[p.pm]][p.sm]][p.tm] \in DOMAIN QM
<1>1. p.pm \in Slots /\ p.sm \in Slots /\ p.tm \in Slots /\ p.byte \in SeenBytes
  BY DEF Part
<1>2. PM[p.pm] \in DOMAIN SM
  BY <1>1 DEF TypeOK, TreeTypeOK
<1>3. SM[PM[p.pm]][p.sm] \in DOMAIN TM
  BY <1>1, <1>2, PagesType
<1>4. TM[SM[PM[p.pm]][p.sm]][p.tm] \in DOMAIN QM
  BY <1>1, <1>3, PagesType
<1> QED
  BY <1>1, <1>2, <1>3, <1>4

\* A path that comes to a default page has no bits.
LEMMA DefaultPathEmpty ==
    ASSUME TypeOK, DefaultsNeverChange, NEW p \in Part,
           \/ PM[p.pm] = Default
           \/ SM[PM[p.pm]][p.sm] = Default
           \/ TM[SM[PM[p.pm]][p.sm]][p.tm] = Default
    PROVE  Byte(p) = {}
<1>1. p.pm \in Slots /\ p.sm \in Slots /\ p.tm \in Slots /\ p.byte \in SeenBytes
  BY PathType
<1>2. SM[PM[p.pm]][p.sm] = Default \/ TM[SM[PM[p.pm]][p.sm]][p.tm] = Default
  BY <1>1 DEF DefaultsNeverChange, AllDefault
<1>3. TM[SM[PM[p.pm]][p.sm]][p.tm] = Default
  BY <1>1, <1>2 DEF DefaultsNeverChange, AllDefault
<1> QED
  BY <1>1, <1>3 DEF DefaultsNeverChange, NoBits, Byte

\* The part of a thread that is in one.
LEMMA InPartType ==
    ASSUME TypeOK, Private, NEW t \in Threads, pc[t] \in InPart
    PROVE  /\ Part1(t) \in Part /\ parts[t] # << >>
           /\ Part1(t).pm \in Slots /\ Part1(t).sm \in Slots /\ Part1(t).tm \in Slots
           /\ Part1(t).byte \in SeenBytes
           /\ DOMAIN pc = Threads
           /\ sm \in [Threads -> DOMAIN SM] /\ tm \in [Threads -> DOMAIN TM] /\ qm \in [Threads -> DOMAIN QM]
<1>1. parts[t] # << >>
  BY DEF Private, PrivateOf
<1> QED
  BY <1>1, Part1Type DEF TypeOK, TreeTypeOK, OtherTypeOK

LEMMA SameTreeGrows ==
    ASSUME PM' = PM, SM' = SM, TM' = TM, QM' = QM
    PROVE  Grows
BY DEF Grows, Byte

LEMMA ChecksPath ==
    ASSUME TypeOK, Private, NEW t \in Threads, PathOf(t),
           checkSM(t) \/ checkTM(t) \/ checkQM(t) \/ returnQM(t) \/ LoadByte(t)
    PROVE  PathOf(t)' /\ Grows
<1> USE DEF Goto, GoFrom
<1>1. PM' = PM /\ SM' = SM /\ TM' = TM /\ QM' = QM /\ parts' = parts /\ Part1(t)' = Part1(t)
  BY DEF checkSM, checkTM, checkQM, returnQM, LoadByte, treeVars, Part1
<1>2. DOMAIN pc = Threads /\ sm \in [Threads -> DOMAIN SM] /\ tm \in [Threads -> DOMAIN TM]
      /\ qm \in [Threads -> DOMAIN QM] /\ old \in [Threads -> SUBSET Bits]
  BY DEF TypeOK, TreeTypeOK, OtherTypeOK
<1>0. Grows
  BY <1>1, SameTreeGrows
<1>3. CASE checkSM(t)
  <2>1. /\ sm'[t] = PM[Part1(t).pm]
        /\ pc'[t] = IF sm'[t] = Default THEN "copySM" ELSE "checkTM"
    BY <1>3, <1>2 DEF checkSM
  <2> QED
    BY <2>1, <1>0, <1>1 DEF PathOf, NewSM, AtSM, AtTM, AtQM
<1>4. CASE checkTM(t)
  <2>1. PM[Part1(t).pm] = sm[t]
    BY <1>4 DEF checkTM, PathOf, AtSM
  <2>2. /\ sm'[t] = sm[t] /\ tm'[t] = SM[sm[t]][Part1(t).sm]
        /\ pc'[t] = IF tm'[t] = Default THEN "copyTM" ELSE "checkQM"
    BY <1>4, <1>2, <2>1 DEF checkTM
  <2> QED
    BY <2>1, <2>2, <1>0, <1>1 DEF PathOf, NewSM, AtSM, AtTM, AtQM
<1>5. CASE checkQM(t)
  <2>1. PM[Part1(t).pm] = sm[t] /\ SM[sm[t]][Part1(t).sm] = tm[t]
    BY <1>5 DEF checkQM, PathOf, AtSM, AtTM
  <2>2. /\ sm'[t] = sm[t] /\ tm'[t] = tm[t] /\ qm'[t] = TM[tm[t]][Part1(t).tm]
        /\ pc'[t] = IF qm'[t] = Default THEN "copyQM" ELSE "returnQM"
    BY <1>5, <1>2, <2>1 DEF checkQM, is_DQM
  <2> QED
    BY <2>1, <2>2, <1>0, <1>1 DEF PathOf, NewSM, AtSM, AtTM, AtQM
<1>6. CASE returnQM(t)
  <2>1. /\ PM[Part1(t).pm] = sm[t] /\ SM[sm[t]][Part1(t).sm] = tm[t]
        /\ TM[tm[t]][Part1(t).tm] = qm[t]
    BY <1>6 DEF returnQM, PathOf, AtSM, AtTM, AtQM
  <2>2. sm'[t] = sm[t] /\ tm'[t] = tm[t] /\ qm'[t] = qm[t] /\ pc'[t] = "load"
    BY <1>6, <1>2, <2>1 DEF returnQM
  <2> QED
    BY <2>1, <2>2, <1>0, <1>1 DEF PathOf, NewSM, AtSM, AtTM, AtQM
<1>7. CASE LoadByte(t)
  <2>1. /\ PM[Part1(t).pm] = sm[t] /\ SM[sm[t]][Part1(t).sm] = tm[t]
        /\ TM[tm[t]][Part1(t).tm] = qm[t]
    BY <1>7 DEF LoadByte, PathOf, AtSM, AtTM, AtQM
  <2>2. /\ sm' = sm /\ tm' = tm /\ qm' = qm /\ pc'[t] = "store"
        /\ old'[t] = QM[qm[t]][Part1(t).byte]
    BY <1>7, <1>2 DEF LoadByte
  <2> QED
    BY <2>1, <2>2, <1>0, <1>1 DEF PathOf, NewSM, AtSM, AtTM, AtQM
<1> QED
  BY <1>3, <1>4, <1>5, <1>6, <1>7
LEMMA CopiesPath ==
    ASSUME TypeOK, DefaultsNeverChange, Private, NEW t \in Threads, PathOf(t),
           CopySM(t) \/ CopyTM(t) \/ CopyQM(t)
    PROVE  PathOf(t)' /\ Grows
<1> USE DEF Goto, GoFrom
<1>1. PM' = PM /\ parts' = parts /\ Part1(t)' = Part1(t)
  BY DEF CopySM, CopyTM, CopyQM, Part1
<1>2. pc[t] \in InPart
  BY DEF CopySM, CopyTM, CopyQM, InPart, HasSM
<1>3. /\ Part1(t) \in Part /\ DOMAIN pc = Threads
      /\ Part1(t).pm \in Slots /\ Part1(t).sm \in Slots /\ Part1(t).tm \in Slots
      /\ sm \in [Threads -> DOMAIN SM] /\ tm \in [Threads -> DOMAIN TM] /\ qm \in [Threads -> DOMAIN QM]
  BY <1>2, InPartType
<1>4. /\ SM \in Seq([Slots -> DOMAIN TM]) /\ TM \in Seq([Slots -> DOMAIN QM])
      /\ QM \in Seq([SeenBytes -> SUBSET Bits])
      /\ Default \in DOMAIN SM /\ Default \in DOMAIN TM /\ Default \in DOMAIN QM
  BY DEF TypeOK, TreeTypeOK, Default
<1>5. CASE CopySM(t)
  <2>1. sm[t] = Default /\ PM[Part1(t).pm] = Default /\ TM' = TM /\ QM' = QM
    BY <1>5 DEF CopySM, PathOf
  <2>2. SM' = Copied(SM, Default) /\ sm'[t] = Len(SM) + 1 /\ pc'[t] = "copyTM of SM"
    BY <1>3, <1>5, <2>1 DEF CopySM
  <2>3. SM'[sm'[t]] = AllDefault /\ \A q \in DOMAIN SM : SM'[q] = SM[q]
    <3>1. SM \in Seq([Slots -> DOMAIN TM]) /\ Default \in DOMAIN SM
      BY <1>4
    <3>2. SM'[Len(SM) + 1] = SM[Default] /\ \A q \in DOMAIN SM : SM'[q] = SM[q]
      BY <2>2, <3>1, CopiedType
    <3> QED
      BY <2>2, <3>2 DEF DefaultsNeverChange
  <2>4. PathOf(t)'
    BY <1>1, <1>3, <2>1, <2>2, <2>3 DEF PathOf, NewSM, AtSM, AtTM, AtQM, AllDefault
  <2>5. ASSUME NEW p \in Part PROVE Byte(p)' = Byte(p)
    BY <1>1, <2>1, <2>3, PathType DEF Byte
  <2> QED
    BY <2>4, <2>5 DEF Grows
<1>6. CASE CopyTM(t)
  <2>1. SM[sm[t]][Part1(t).sm] = Default /\ SM' = SM /\ QM' = QM /\ sm' = sm /\ qm' = qm
        /\ (pc[t] = "copyTM" => tm[t] = Default)
    BY <1>6 DEF CopyTM, PathOf, NewSM
  <2>2. TM' = Copied(TM, Default) /\ tm'[t] = Len(TM) + 1
    BY <1>3, <1>6, <2>1 DEF CopyTM
  <2>3. TM'[tm'[t]] = AllDefault /\ \A q \in DOMAIN TM : TM'[q] = TM[q]
    <3>1. TM \in Seq([Slots -> DOMAIN QM]) /\ Default \in DOMAIN TM
      BY <1>4
    <3>2. TM'[Len(TM) + 1] = TM[Default] /\ \A q \in DOMAIN TM : TM'[q] = TM[q]
      BY <2>2, <3>1, CopiedType
    <3> QED
      BY <2>2, <3>2 DEF DefaultsNeverChange
  <2>4. PathOf(t)'
    <3>1. TM'[tm'[t]][Part1(t)'.tm] = Default
      BY <1>1, <1>3, <2>3 DEF AllDefault
    <3>2. CASE pc[t] = "copyTM of SM" /\ pc'[t] = "copyQM of SM"
      <4>1. PM[Part1(t).pm] = Default
        BY <3>2 DEF PathOf, NewSM
      <4> QED
        BY <1>1, <2>1, <3>1, <3>2, <4>1 DEF PathOf, NewSM, AtSM, AtTM, AtQM
    <3>3. CASE pc[t] = "copyTM" /\ pc'[t] = "copyQM of TM"
      <4>1. PM[Part1(t).pm] = sm[t]
        BY <3>3 DEF PathOf, AtSM
      <4> QED
        BY <1>1, <2>1, <3>1, <3>3, <4>1 DEF PathOf, NewSM, AtSM, AtTM, AtQM
    <3> QED
      BY <1>3, <1>6, <3>2, <3>3 DEF CopyTM
  <2>5. ASSUME NEW p \in Part PROVE Byte(p)' = Byte(p)
    BY <1>1, <2>1, <2>3, PathType DEF Byte
  <2> QED
    BY <2>4, <2>5 DEF Grows
<1>7. CASE CopyQM(t)
  <2>1. /\ TM[tm[t]][Part1(t).tm] = Default /\ SM' = SM /\ TM' = TM /\ sm' = sm /\ tm' = tm
    BY <1>7 DEF CopyQM, PathOf
  <2>2. \A q \in DOMAIN QM : QM'[q] = QM[q]
    <3>1. Default \in DOMAIN QM /\ qm[t] \in DOMAIN QM /\ QM \in Seq([SeenBytes -> SUBSET Bits])
      BY <1>3, <1>4
    <3>2. PICK q \in DOMAIN QM : QM' = Copied(QM, q)
      BY <1>7, <2>1, <3>1 DEF CopyQM
    <3> QED
      BY <3>1, <3>2, CopiedType
  <2>4. PathOf(t)'
    <3>1. CASE pc[t] = "copyQM of SM" /\ pc'[t] = "linkSM"
      <4>1. PM[Part1(t).pm] = Default /\ SM[sm[t]][Part1(t).sm] = Default
        BY <3>1 DEF PathOf, NewSM
      <4> QED
        BY <1>1, <2>1, <3>1, <4>1 DEF PathOf, NewSM, AtSM, AtTM, AtQM
    <3>2. CASE pc[t] = "copyQM of TM" /\ pc'[t] = "linkTM"
      <4>1. PM[Part1(t).pm] = sm[t] /\ SM[sm[t]][Part1(t).sm] = Default
        BY <3>2 DEF PathOf, AtSM
      <4> QED
        BY <1>1, <2>1, <3>2, <4>1 DEF PathOf, NewSM, AtSM, AtTM, AtQM
    <3>3. CASE pc[t] = "copyQM" /\ pc'[t] = "linkQM"
      <4>1. PM[Part1(t).pm] = sm[t] /\ SM[sm[t]][Part1(t).sm] = tm[t]
        BY <3>3 DEF PathOf, AtSM, AtTM
      <4> QED
        BY <1>1, <2>1, <3>3, <4>1 DEF PathOf, NewSM, AtSM, AtTM, AtQM
    <3> QED
      BY <1>3, <1>7, <3>1, <3>2, <3>3 DEF CopyQM
  <2>5. ASSUME NEW p \in Part PROVE Byte(p)' = Byte(p)
    BY <1>1, <2>1, <2>2, PathType DEF Byte
  <2> QED
    BY <2>4, <2>5 DEF Grows
<1> QED
  BY <1>5, <1>6, <1>7

LEMMA LinksPath ==
    ASSUME TypeOK, DefaultsNeverChange, Private, NEW t \in Threads, PathOf(t),
           LinkSM(t) \/ LinkTM(t) \/ LinkQM(t)
    PROVE  PathOf(t)' /\ Grows
<1> USE DEF Goto, GoFrom
<1>1. parts' = parts /\ Part1(t)' = Part1(t) /\ QM' = QM /\ sm' = sm /\ tm' = tm /\ qm' = qm
  BY DEF LinkSM, LinkTM, LinkQM, Part1, localVars
<1>2. pc[t] \in InPart
  BY DEF LinkSM, LinkTM, LinkQM, InPart, HasSM, HasTM
<1>3. /\ Part1(t) \in Part /\ DOMAIN pc = Threads
      /\ Part1(t).pm \in Slots /\ Part1(t).sm \in Slots /\ Part1(t).tm \in Slots
      /\ sm[t] \in DOMAIN SM /\ tm[t] \in DOMAIN TM
  BY <1>2, InPartType
<1>4. /\ PM \in [Slots -> DOMAIN SM]
      /\ SM[sm[t]] \in [Slots -> DOMAIN TM] /\ TM[tm[t]] \in [Slots -> DOMAIN QM]
  BY <1>3, PagesType DEF TypeOK, TreeTypeOK
<1>5. CASE LinkSM(t)
  <2>1. /\ pc[t] = "linkSM" /\ pc'[t] = "linkTM" /\ SM' = SM /\ TM' = TM
        /\ PM' = [PM EXCEPT ![Part1(t).pm] = sm[t]]
    BY <1>3, <1>5 DEF LinkSM
  <2>2. PM[Part1(t).pm] = Default /\ SM[sm[t]][Part1(t).sm] = Default /\ TM[tm[t]][Part1(t).tm] = Default
    BY <2>1 DEF PathOf, NewSM
  <2>3. PM'[Part1(t).pm] = sm[t]
    BY <1>3, <1>4, <2>1
  <2>4. PathOf(t)'
    BY <1>1, <2>1, <2>2, <2>3 DEF PathOf, NewSM, AtSM, AtTM, AtQM
  <2>5. ASSUME NEW p \in Part PROVE Byte(p) \subseteq Byte(p)'
    <3>1. CASE p.pm = Part1(t).pm
      BY <3>1, <2>2, DefaultPathEmpty
    <3>2. CASE p.pm # Part1(t).pm
      <4>1. PM'[p.pm] = PM[p.pm]
        BY <3>2, <1>4, <2>1, PathType
      <4> QED
        BY <4>1, <1>1, <2>1 DEF Byte
    <3> QED
      BY <3>1, <3>2
  <2> QED
    BY <2>4, <2>5 DEF Grows
<1>6. CASE LinkTM(t)
  <2>1. /\ pc[t] = "linkTM" /\ pc'[t] = "linkQM" /\ PM' = PM /\ TM' = TM
        /\ SM' = [SM EXCEPT ![sm[t]] = [SM[sm[t]] EXCEPT ![Part1(t).sm] = tm[t]]]
    BY <1>3, <1>6 DEF LinkTM
  <2>2. PM[Part1(t).pm] = sm[t] /\ SM[sm[t]][Part1(t).sm] = Default /\ TM[tm[t]][Part1(t).tm] = Default
    BY <2>1 DEF PathOf, NewSM, AtSM
  <2>3. SM'[sm[t]] = [SM[sm[t]] EXCEPT ![Part1(t).sm] = tm[t]]
        /\ \A q \in DOMAIN SM : q # sm[t] => SM'[q] = SM[q]
    BY <1>3, <2>1
  <2>a. SM'[sm[t]][Part1(t).sm] = tm[t]
    BY <1>3, <1>4, <2>3
  <2>4. PathOf(t)'
    BY <1>1, <2>1, <2>2, <2>a DEF PathOf, NewSM, AtSM, AtTM, AtQM
  <2>5. ASSUME NEW p \in Part PROVE Byte(p) \subseteq Byte(p)'
    <3>1. CASE PM[p.pm] = sm[t] /\ p.sm = Part1(t).sm
      BY <3>1, <2>2, DefaultPathEmpty
    <3>2. CASE ~(PM[p.pm] = sm[t] /\ p.sm = Part1(t).sm)
      <4>1. SM'[PM[p.pm]][p.sm] = SM[PM[p.pm]][p.sm]
        <5>1. CASE PM[p.pm] = sm[t]
          BY <5>1, <3>2, <1>4, <2>3, PathType
        <5>2. CASE PM[p.pm] # sm[t]
          BY <5>2, <2>3, PathType
        <5> QED
          BY <5>1, <5>2
      <4> QED
        BY <4>1, <1>1, <2>1 DEF Byte
    <3> QED
      BY <3>1, <3>2
  <2> QED
    BY <2>4, <2>5 DEF Grows
<1>7. CASE LinkQM(t)
  <2>1. /\ pc[t] = "linkQM" /\ pc'[t] = "load" /\ PM' = PM /\ SM' = SM
        /\ TM' = [TM EXCEPT ![tm[t]] = [TM[tm[t]] EXCEPT ![Part1(t).tm] = qm[t]]]
    BY <1>3, <1>7 DEF LinkQM
  <2>2. PM[Part1(t).pm] = sm[t] /\ SM[sm[t]][Part1(t).sm] = tm[t] /\ TM[tm[t]][Part1(t).tm] = Default
    BY <2>1 DEF PathOf, AtSM, AtTM
  <2>3. TM'[tm[t]] = [TM[tm[t]] EXCEPT ![Part1(t).tm] = qm[t]]
        /\ \A q \in DOMAIN TM : q # tm[t] => TM'[q] = TM[q]
    BY <1>3, <2>1
  <2>a. TM'[tm[t]][Part1(t).tm] = qm[t]
    BY <1>3, <1>4, <2>3
  <2>4. PathOf(t)'
    BY <1>1, <2>1, <2>2, <2>a DEF PathOf, NewSM, AtSM, AtTM, AtQM
  <2>5. ASSUME NEW p \in Part PROVE Byte(p) \subseteq Byte(p)'
    <3> DEFINE m == SM[PM[p.pm]][p.sm]
    <3>0. m \in DOMAIN TM /\ p.tm \in Slots
      BY PathType
    <3>1. CASE m = tm[t] /\ p.tm = Part1(t).tm
      BY <3>1, <2>2, DefaultPathEmpty
    <3>2. CASE ~(m = tm[t] /\ p.tm = Part1(t).tm)
      <4>1. TM'[m][p.tm] = TM[m][p.tm]
        <5> HIDE DEF m
        <5>1. CASE m = tm[t]
          BY <5>1, <3>0, <3>2, <1>4, <2>3
        <5>2. CASE m # tm[t]
          BY <5>2, <3>0, <2>3
        <5> QED
          BY <5>1, <5>2
      <4> QED
        BY <4>1, <1>1, <2>1 DEF Byte
    <3> QED
      BY <3>1, <3>2
  <2> QED
    BY <2>4, <2>5 DEF Grows
<1> QED
  BY <1>5, <1>6, <1>7

\* The store adds the bits of the part to the byte at its address.
LEMMA StorePath ==
    ASSUME TypeOK, Private, NEW t \in Threads, PathOf(t), StoreByte(t)
    PROVE  PathOf(t)' /\ Grows /\ Part1(t).bits \subseteq QM'[TM'[SM'[PM'[Part1(t).pm]][Part1(t).sm]][Part1(t).tm]][Part1(t).byte]
<1>1. /\ pc[t] = "store" /\ PM' = PM /\ SM' = SM /\ TM' = TM
      /\ QM' = [QM EXCEPT ![qm[t]] = [QM[qm[t]] EXCEPT ![Part1(t).byte] = old[t] \cup Part1(t).bits]]
  BY DEF StoreByte, Goto, GoFrom, Merged
<1>2. Part1(t) \in Part /\ Part1(t).byte \in SeenBytes /\ DOMAIN pc = Threads /\ qm[t] \in DOMAIN QM
  BY <1>1, InPartType DEF InPart, HasQM
<1>3. /\ PM[Part1(t).pm] = sm[t] /\ SM[sm[t]][Part1(t).sm] = tm[t] /\ TM[tm[t]][Part1(t).tm] = qm[t]
      /\ old[t] = QM[qm[t]][Part1(t).byte]
  BY <1>1 DEF PathOf, AtSM, AtTM, AtQM
<1>4. QM[qm[t]] \in [SeenBytes -> SUBSET Bits]
  BY <1>2, PagesType
<1>5. pc'[t] = "setSeen"
  BY <1>2 DEF StoreByte, Goto, GoFrom
<1>6. PathOf(t)'
  BY <1>5 DEF PathOf, NewSM, AtSM, AtTM, AtQM
<1>7. /\ QM'[qm[t]][Part1(t).byte] = QM[qm[t]][Part1(t).byte] \cup Part1(t).bits
      /\ \A b \in SeenBytes : b # Part1(t).byte => QM'[qm[t]][b] = QM[qm[t]][b]
      /\ \A q \in DOMAIN QM : q # qm[t] => QM'[q] = QM[q]
  BY <1>1, <1>2, <1>3, <1>4
<1>8. \A q \in DOMAIN QM, b \in SeenBytes : QM[q][b] \subseteq QM'[q][b]
  BY <1>7
<1>9. ASSUME NEW p \in Part PROVE Byte(p) \subseteq Byte(p)'
  BY <1>1, <1>8, PathType DEF Byte
<1> QED
  BY <1>1, <1>3, <1>6, <1>7, <1>9 DEF Grows
-----------------------------------------------------------------------------
(* The invariant.                                                          *)

Marking(t) == pc[t] \in {"lockMark", "setSeen"} \cup InPart

\* All bits of the first n parts of a mark are set, and rest are the others.
DoneUpTo(n, mark, rest) ==
    /\ Len(rest) = Len(mark) - n
    /\ \A j \in 1 .. Len(rest) : rest[j] = mark[n + j]
    /\ \A i \in 1 .. n : mark[i].bits \subseteq Byte(mark[i])

LatestOf(k, t) == marks[k].by = t /\ \A l \in DOMAIN marks : marks[l].by = t => l <= k

MarksTypeOK ==
    marks \in Seq([by : Threads, parts : Seq(Part)]) /\ marked \subseteq DOMAIN marks

Returned == \A k \in marked : \A i \in DOMAIN marks[k].parts :
                marks[k].parts[i].bits \subseteq Byte(marks[k].parts[i])

Underway(t) ==
    Marking(t) => \A k \in DOMAIN marks : LatestOf(k, t) =>
        \E n \in 0 .. Len(marks[k].parts) : DoneUpTo(n, marks[k].parts, parts[t])

Kept == strays = 0 => Returned /\ \A t \in Threads : PathOf(t) /\ Underway(t)

\* The parts of a mark that was begun.
LEMMA PartsType ==
    ASSUME MarksTypeOK, NEW k \in DOMAIN marks
    PROVE  /\ marks[k].parts \in Seq(Part) /\ marks[k].by \in Threads
           /\ Len(marks[k].parts) \in Nat
           /\ DOMAIN marks[k].parts = 1 .. Len(marks[k].parts)
           /\ \A i \in 1 .. Len(marks[k].parts) : marks[k].parts[i] \in Part
<1>1. marks[k] \in [by : Threads, parts : Seq(Part)]
  BY ElementOf DEF MarksTypeOK
<1>2. marks[k].parts \in Seq(Part) /\ marks[k].by \in Threads
  BY <1>1
<1> QED
  BY <1>2, ElementOf

\* What was set stays set when bytes only grow.
LEMMA ReturnedKept ==
    ASSUME MarksTypeOK, Returned, Grows, marks' = marks, marked' = marked
    PROVE  Returned'
<1> SUFFICES ASSUME NEW k \in marked, NEW i \in DOMAIN marks[k].parts
             PROVE  marks[k].parts[i].bits \subseteq Byte(marks[k].parts[i])'
  BY DEF Returned, Byte
<1>1. marks[k].parts[i] \in Part
  BY PartsType DEF MarksTypeOK
<1> QED
  BY <1>1 DEF Returned, Grows

LEMMA UnderwayKept ==
    ASSUME MarksTypeOK, NEW u \in Threads, Underway(u), Grows, marks' = marks,
           pc'[u] = pc[u] \/ Marking(u), parts'[u] = parts[u]
    PROVE  Underway(u)'
<1>1. CASE ~Marking(u)
  BY <1>1 DEF Underway, Marking
<1>2. CASE Marking(u)
  <2> SUFFICES ASSUME NEW k \in DOMAIN marks, LatestOf(k, u)
               PROVE  \E n \in 0 .. Len(marks[k].parts) : DoneUpTo(n, marks[k].parts, parts[u])'
    BY DEF Underway, LatestOf, DoneUpTo, Byte
  <2>1. PICK n \in 0 .. Len(marks[k].parts) : DoneUpTo(n, marks[k].parts, parts[u])
    BY <1>2 DEF Underway
  <2>2. ASSUME NEW i \in 1 .. n
        PROVE  marks[k].parts[i].bits \subseteq Byte(marks[k].parts[i])'
    <3>1. marks[k].parts[i] \in Part
      BY PartsType
    <3>2. marks[k].parts[i].bits \subseteq Byte(marks[k].parts[i])
      BY <2>1 DEF DoneUpTo
    <3> QED
      BY <3>1, <3>2 DEF Grows
  <2> QED
    BY <2>1, <2>2 DEF DoneUpTo
<1> QED
  BY <1>1, <1>2
\* Beside a thread that is inside nobody is on a path.
LEMMA AlonePath ==
    ASSUME Held, strays = 0, NEW t \in Threads, Inside(t),
           NEW u \in Threads, u # t, pc'[u] = pc[u]
    PROVE  PathOf(u)'
<1>1. pc[u] \in {"initThread", "lockMark", "idle"}
  BY DEF Held, Inside
<1> QED
  BY <1>1 DEF PathOf, NewSM, AtSM, AtTM, AtQM

LEMMA MarksTypeInvariant ==
    ASSUME TypeOK, MarksTypeOK, [Next]_vars
    PROVE  MarksTypeOK' /\ (strays' = 0 => strays = 0)
<1> USE DEF Goto, GoFrom
<1>0. strays \in Nat
  BY DEF TypeOK, OtherTypeOK
<1>1. CASE UNCHANGED vars
  BY <1>1 DEF MarksTypeOK, vars, ghostVars
<1>2. ASSUME NEW t \in Threads, NEW m \in Marks, recordMemWrite(t, m)
      PROVE  MarksTypeOK' /\ strays' = strays
  <2>1. m \in Seq(Part)
    BY MarksType
  <2> QED
    BY <1>2, <2>1 DEF recordMemWrite, MarksTypeOK
<1>3. ASSUME NEW t \in Threads, UnlockMark(t)
      PROVE  MarksTypeOK' /\ strays' = strays
  BY <1>3 DEF UnlockMark, MarksTypeOK
<1>4. ASSUME NEW t \in Threads, checkMemRead(t)
      PROVE  MarksTypeOK' /\ (strays' = 0 => strays = 0)
  BY <1>0, <1>4 DEF checkMemRead, MarksTypeOK
<1>5. ASSUME NEW t \in Threads, Dump(t) \/ LockMark(t) \/ getQMForWriting(t) \/ LoadByte(t) \/ StoreByte(t)
      PROVE  MarksTypeOK' /\ strays' = strays
  <2>1. UNCHANGED ghostVars
    BY <1>5 DEF Dump, initThread, TakePos, getFileBuf, printDataReg, StorePos, UnlockDump, LockMark,
                getQMForWriting, checkSM, checkTM, checkQM, returnQM, CopySM, CopyTM, CopyQM,
                LinkSM, LinkTM, LinkQM, LoadByte, StoreByte
  <2> QED
    BY <2>1 DEF ghostVars, MarksTypeOK
<1> QED
  BY <1>1, <1>2, <1>3, <1>4, <1>5 DEF Next, Mark

\* A step of a thread that is inside the tree.
LEMMA TreeStepKept ==
    ASSUME TypeOK, DefaultsNeverChange, Private, Held, MarksTypeOK, Kept, strays = 0,
           NEW t \in Threads, getQMForWriting(t) \/ LoadByte(t)
    PROVE  Kept'
<1> USE DEF Goto, GoFrom
<1>1. parts' = parts /\ marks' = marks /\ marked' = marked
  BY DEF getQMForWriting, LoadByte, checkSM, checkTM, checkQM, returnQM, CopySM, CopyTM, CopyQM,
         LinkSM, LinkTM, LinkQM, ghostVars
<1>2. DOMAIN pc = Threads
  BY DEF TypeOK, OtherTypeOK
<1>3. /\ \A u \in Threads : u # t => pc'[u] = pc[u]
      /\ pc[t] \in {"setSeen"} \cup InPart
  BY <1>2 DEF getQMForWriting, LoadByte, checkSM, checkTM, checkQM, returnQM, CopySM, CopyTM, CopyQM,
              LinkSM, LinkTM, LinkQM, InPart, HasSM, HasTM, HasQM
<1>4. Inside(t) /\ Marking(t)
  BY <1>3 DEF Inside, Marking, InPart, HasSM, HasTM, HasQM
<1>5. PathOf(t)
  BY DEF Kept
<1>6. PathOf(t)' /\ Grows
  BY <1>5, ChecksPath, CopiesPath, LinksPath DEF getQMForWriting
<1>7. \A u \in Threads : PathOf(u)'
  BY <1>3, <1>4, <1>6, AlonePath
<1>8. Returned'
  BY <1>1, <1>6, ReturnedKept DEF Kept
<1>9. ASSUME NEW u \in Threads PROVE Underway(u)'
  <2>1. Underway(u) /\ (pc'[u] = pc[u] \/ Marking(u)) /\ parts'[u] = parts[u]
    BY <1>1, <1>3, <1>4 DEF Kept
  <2> QED
    BY <1>1, <1>6, <2>1, UnderwayKept
<1> QED
  BY <1>7, <1>8, <1>9 DEF Kept

LEMMA StoreKept ==
    ASSUME TypeOK, Private, Held, MarksTypeOK, Kept, strays = 0, NEW t \in Threads, StoreByte(t)
    PROVE  Kept'
<1> USE DEF Goto, GoFrom
<1>1. /\ parts' = [parts EXCEPT ![t] = Tail(parts[t])] /\ marks' = marks /\ marked' = marked
      /\ pc[t] = "store" /\ pc' = [pc EXCEPT ![t] = "setSeen"]
  BY DEF StoreByte, ghostVars
<1>2. DOMAIN pc = Threads /\ parts \in [Threads -> Seq(Part)] /\ parts[t] # << >>
  BY <1>1 DEF TypeOK, OtherTypeOK, Private, PrivateOf, InPart, HasQM
<1>3. Inside(t) /\ Marking(t)
  BY <1>1 DEF Inside, Marking, InPart, HasQM
<1>4. PathOf(t)
  BY DEF Kept
<1>5. PathOf(t)' /\ Grows
  BY <1>4, StorePath
<1>6. Part1(t).bits \subseteq QM'[TM'[SM'[PM'[Part1(t).pm]][Part1(t).sm]][Part1(t).tm]][Part1(t).byte]
  BY <1>4, StorePath
<1>7. \A u \in Threads : PathOf(u)'
  BY <1>1, <1>2, <1>3, <1>5, AlonePath
<1>8. Returned'
  BY <1>1, <1>5, ReturnedKept DEF Kept
<1>9. ASSUME NEW u \in Threads PROVE Underway(u)'
  <2>1. CASE u # t
    <3>1. Underway(u) /\ pc'[u] = pc[u] /\ parts'[u] = parts[u]
      BY <1>1, <1>2, <2>1 DEF Kept
    <3> QED
      BY <1>1, <1>5, <3>1, UnderwayKept
  <2>2. CASE u = t
    <3> SUFFICES ASSUME NEW k \in DOMAIN marks, LatestOf(k, t)
                 PROVE  \E n \in 0 .. Len(marks[k].parts) :
                           DoneUpTo(n, marks[k].parts, parts[t])'
      BY <1>1, <2>2 DEF Underway, LatestOf
    <3> DEFINE mark == marks[k].parts
               rest == parts[t]
    <3>1. PICK n \in 0 .. Len(mark) : DoneUpTo(n, mark, rest)
      BY <1>3 DEF Kept, Underway
    <3>2. /\ rest \in Seq(Part) /\ rest # << >> /\ Len(mark) \in Nat
          /\ \A i \in 1 .. Len(mark) : mark[i] \in Part
      BY <1>2, PartsType
    <3>3. /\ Len(rest) = Len(mark) - n /\ \A j \in 1 .. Len(rest) : rest[j] = mark[n + j]
          /\ \A i \in 1 .. n : mark[i].bits \subseteq Byte(mark[i])
      BY <3>1 DEF DoneUpTo
    <3> HIDE DEF mark, rest
    <3>4. Len(rest) \in Nat /\ Len(rest) > 0 /\ Head(rest) = rest[1]
      BY <3>2
    <3>5. Head(rest) = mark[n + 1] /\ n + 1 \in 0 .. Len(mark) /\ n + 1 \in 1 .. Len(mark)
      BY <3>2, <3>3, <3>4
    <3>6. Len(Tail(rest)) = Len(mark) - (n + 1)
      BY <3>2, <3>3
    <3>7. ASSUME NEW j \in 1 .. Len(Tail(rest)) PROVE Tail(rest)[j] = mark[n + 1 + j]
      <4>1. Tail(rest)[j] = rest[j + 1] /\ j + 1 \in 1 .. Len(rest)
        BY <3>2
      <4>2. rest[j + 1] = mark[n + (j + 1)] /\ n + (j + 1) = n + 1 + j
        BY <3>3, <4>1
      <4> QED
        BY <4>1, <4>2
    <3>8. ASSUME NEW i \in 1 .. n + 1 PROVE mark[i].bits \subseteq Byte(mark[i])'
      <4>1. CASE i = n + 1
        <5>1. mark[i] = Part1(t)
          BY <3>5, <4>1 DEF Part1, rest
        <5> QED
          BY <1>1, <1>6, <5>1 DEF Byte, mark
      <4>2. CASE i # n + 1
        <5>1. i \in 1 .. n /\ mark[i] \in Part
          BY <3>2, <3>5, <4>2
        <5>2. mark[i].bits \subseteq Byte(mark[i]) /\ Byte(mark[i]) \subseteq Byte(mark[i])'
          BY <1>1, <1>5, <3>3, <5>1 DEF Grows, mark
        <5> QED
          BY <5>2
      <4> QED
        BY <4>1, <4>2
    <3>9. parts'[t] = Tail(rest) /\ marks'[k].parts = mark
      BY <1>1, <1>2 DEF mark, rest
    <3>10. \A i \in 1 .. n + 1 : mark[i].bits \subseteq Byte(mark[i])'
      BY <3>8
    <3>11. DoneUpTo(n + 1, marks[k].parts, parts[t])'
      BY <1>1, <3>6, <3>7, <3>9, <3>10 DEF DoneUpTo, mark
    <3> QED
      BY <3>5, <3>11 DEF mark
  <2> QED
    BY <2>1, <2>2
<1> QED
  BY <1>7, <1>8, <1>9 DEF Kept
\* A step that touches neither the tree nor a path.
LEMMA OtherStepKept ==
    ASSUME TypeOK, MarksTypeOK, Kept, strays = 0, NEW t \in Threads,
           \/ Dump(t) \/ LockMark(t) \/ UnlockMark(t) \/ checkMemRead(t)
           \/ \E m \in Marks : recordMemWrite(t, m)
    PROVE  Kept'
<1> USE DEF Goto, GoFrom
<1>1. PM' = PM /\ SM' = SM /\ TM' = TM /\ QM' = QM /\ sm' = sm /\ tm' = tm /\ qm' = qm /\ old' = old
  BY DEF Dump, initThread, TakePos, getFileBuf, printDataReg, StorePos, UnlockDump, LockMark,
         UnlockMark, checkMemRead, recordMemWrite, treeVars, localVars
<1>2. DOMAIN pc = Threads /\ parts \in [Threads -> Seq(Part)]
  BY DEF TypeOK, OtherTypeOK
<1>3. /\ \A u \in Threads : u # t => pc'[u] = pc[u] /\ parts'[u] = parts[u]
      /\ pc'[t] \in {"getFileBuf", "fits", "printDataReg", "unlockDump", "idle", "setSeen", "lockMark"}
  BY <1>2 DEF Dump, initThread, TakePos, getFileBuf, printDataReg, StorePos, UnlockDump, LockMark,
              UnlockMark, checkMemRead, recordMemWrite
<1>4. Grows
  BY <1>1, SameTreeGrows
<1>5. ASSUME NEW u \in Threads PROVE PathOf(u)'
  <2>1. CASE u = t
    BY <1>3, <2>1 DEF PathOf, NewSM, AtSM, AtTM, AtQM
  <2>2. CASE u # t
    <3>1. PathOf(u) /\ Part1(u)' = Part1(u) /\ pc'[u] = pc[u]
      BY <1>3, <2>2 DEF Kept, Part1
    <3> QED
      BY <1>1, <3>1 DEF PathOf
  <2> QED
    BY <2>1, <2>2
<1>6. CASE \E m \in Marks : recordMemWrite(t, m)
  <2>1. PICK m \in Marks : recordMemWrite(t, m)
    BY <1>6
  <2>2. /\ marks' = Append(marks, [by |-> t, parts |-> m]) /\ marked' = marked
        /\ parts'[t] = m /\ m \in Seq(Part)
    BY <1>2, <2>1, MarksType DEF recordMemWrite
  <2>3. /\ DOMAIN marks = 1 .. Len(marks) /\ DOMAIN marks' = 1 .. Len(marks) + 1 /\ Len(marks) \in Nat
        /\ \A k \in DOMAIN marks : marks'[k] = marks[k]
        /\ marks'[Len(marks) + 1] = [by |-> t, parts |-> m]
    BY <2>2 DEF MarksTypeOK
  <2>4. Returned'
    <3>1. \A k \in marked : marks'[k] = marks[k]
      BY <2>3 DEF MarksTypeOK
    <3>2. \A k \in marked : \A i \in DOMAIN marks[k].parts :
             marks[k].parts[i].bits \subseteq Byte(marks[k].parts[i])
      BY DEF Kept, Returned
    <3>3. ASSUME NEW k \in marked, NEW i \in DOMAIN marks'[k].parts
          PROVE  marks'[k].parts[i].bits
                     \subseteq QM'[TM'[SM'[PM'[marks'[k].parts[i].pm]][marks'[k].parts[i].sm]]
                                     [marks'[k].parts[i].tm]][marks'[k].parts[i].byte]
      BY <1>1, <3>1, <3>2 DEF Byte
    <3> QED
      BY <2>2, <3>3 DEF Returned, Byte
  <2>5. ASSUME NEW u \in Threads, NEW k \in DOMAIN marks', LatestOf(k, u)', Marking(u)'
        PROVE  \E n \in 0 .. Len(marks'[k].parts) : DoneUpTo(n, marks[k].parts, parts[u])'
    <3>1. marks'[k].by = u /\ \A l \in DOMAIN marks' : marks'[l].by = u => l <= k
      BY <2>5 DEF LatestOf
    <3>2. CASE u = t
      <4>1. marks'[Len(marks) + 1].by = t /\ Len(marks) + 1 \in DOMAIN marks'
        BY <2>3
      <4>2. k = Len(marks) + 1
        BY <2>3, <3>1, <3>2, <4>1
      <4>3. marks'[k].parts = m /\ parts'[u] = m /\ Len(m) \in Nat
        BY <2>2, <2>3, <3>2, <4>2
      <4>4. DoneUpTo(0, marks[k].parts, parts[u])'
        BY <4>3 DEF DoneUpTo
      <4> QED
        BY <4>3, <4>4
    <3>3. CASE u # t
      <4>1. k \in DOMAIN marks /\ marks'[k] = marks[k]
        BY <2>3, <3>1, <3>3
      <4>2. LatestOf(k, u) /\ Marking(u)
        BY <1>3, <2>3, <2>5, <3>1, <3>3, <4>1 DEF LatestOf, Marking
      <4>3. PICK n \in 0 .. Len(marks[k].parts) : DoneUpTo(n, marks[k].parts, parts[u])
        BY <4>1, <4>2 DEF Kept, Underway
      <4>4. DoneUpTo(n, marks[k].parts, parts[u])'
        BY <1>1, <1>3, <3>3, <4>1, <4>3 DEF DoneUpTo, Byte
      <4> QED
        BY <4>1, <4>4
    <3> QED
      BY <3>2, <3>3
  <2>6. \A u \in Threads : Underway(u)'
    BY <2>5 DEF Underway
  <2> QED
    BY <1>5, <2>4, <2>6 DEF Kept
<1>7. CASE UnlockMark(t)
  <2>1. /\ marks' = marks /\ parts' = parts /\ parts[t] = << >> /\ pc[t] = "setSeen" /\ pc'[t] = "idle"
        /\ marked' = marked \cup {k \in DOMAIN marks : LatestOf(k, t)}
    BY <1>2, <1>7 DEF UnlockMark, LatestOf
  <2>2. Returned'
    <3> SUFFICES ASSUME NEW k \in marked', NEW i \in DOMAIN marks[k].parts
                 PROVE  marks[k].parts[i].bits \subseteq Byte(marks[k].parts[i])
      BY <1>1, <2>1 DEF Returned, Byte
    <3>1. CASE k \in marked
      BY <3>1 DEF Kept, Returned
    <3>2. CASE k \in DOMAIN marks /\ LatestOf(k, t)
      <4>1. PICK n \in 0 .. Len(marks[k].parts) : DoneUpTo(n, marks[k].parts, parts[t])
        BY <2>1, <3>2 DEF Kept, Underway, Marking
      <4>2. n = Len(marks[k].parts) /\ DOMAIN marks[k].parts = 1 .. n
        BY <2>1, <3>2, <4>1, PartsType DEF DoneUpTo
      <4> QED
        BY <4>1, <4>2 DEF DoneUpTo
    <3> QED
      BY <2>1, <3>1, <3>2
  <2>3. ASSUME NEW u \in Threads PROVE Underway(u)'
    <3>1. CASE u = t
      BY <2>1, <3>1 DEF Underway, Marking, InPart, HasSM, HasTM, HasQM
    <3>2. CASE u # t
      <4>1. Underway(u) /\ pc'[u] = pc[u] /\ parts'[u] = parts[u]
        BY <1>3, <3>2 DEF Kept
      <4> QED
        BY <1>4, <2>1, <4>1, UnderwayKept
    <3> QED
      BY <3>1, <3>2
  <2> QED
    BY <1>5, <2>2, <2>3 DEF Kept
<1>8. CASE Dump(t) \/ LockMark(t) \/ checkMemRead(t)
  <2>1. marks' = marks /\ marked' = marked /\ parts' = parts
    BY <1>8 DEF Dump, initThread, TakePos, getFileBuf, printDataReg, StorePos, UnlockDump, LockMark,
                checkMemRead, ghostVars
  <2>2. Returned'
    BY <1>4, <2>1, ReturnedKept DEF Kept
  <2>3. ~Marking(t)' \/ Marking(t)
    BY <1>2, <1>8 DEF Dump, initThread, TakePos, getFileBuf, printDataReg, StorePos, UnlockDump, LockMark,
                checkMemRead, Marking, InPart, HasSM, HasTM, HasQM
  <2>4. ASSUME NEW u \in Threads PROVE Underway(u)'
    <3>1. Underway(u) /\ parts'[u] = parts[u]
      BY <2>1 DEF Kept
    <3>2. CASE u # t \/ Marking(t)
      BY <1>3, <1>4, <2>1, <3>1, <3>2, UnderwayKept
    <3>3. CASE u = t /\ ~Marking(t)'
      BY <3>3 DEF Underway
    <3> QED
      BY <2>3, <3>2, <3>3
  <2> QED
    BY <1>5, <2>2, <2>4 DEF Kept
<1> QED
  BY <1>6, <1>7, <1>8

LEMMA StepKeepsKept ==
    ASSUME TypeOK, DefaultsNeverChange, Private, Held, MarksTypeOK, Kept, [Next]_vars
    PROVE  MarksTypeOK' /\ Kept'
<1>1. MarksTypeOK' /\ (strays' = 0 => strays = 0)
  BY MarksTypeInvariant
<1>2. CASE strays = 0
  <2>1. CASE UNCHANGED vars
    <3>1. /\ PM' = PM /\ SM' = SM /\ TM' = TM /\ QM' = QM /\ sm' = sm /\ tm' = tm /\ qm' = qm /\ old' = old
          /\ pc' = pc /\ parts' = parts /\ marks' = marks /\ marked' = marked
      BY <2>1 DEF vars, treeVars, localVars, ghostVars
    <3>2. Grows
      BY <3>1, SameTreeGrows
    <3>3. Returned' /\ \A u \in Threads : Underway(u)'
      BY <1>2, <3>1, <3>2, ReturnedKept, UnderwayKept DEF Kept
    <3>4. \A u \in Threads : PathOf(u)'
      BY <1>2, <3>1 DEF Kept, PathOf, Part1
    <3> QED
      BY <1>1, <3>3, <3>4 DEF Kept
  <2>2. CASE Next
    <3>1. PICK t \in Threads : \/ Dump(t) \/ Mark(t) \/ checkMemRead(t)
                               \/ \E m \in Marks : recordMemWrite(t, m)
      BY <2>2 DEF Next
    <3>2. CASE getQMForWriting(t) \/ LoadByte(t)
      BY <1>1, <1>2, <3>2, TreeStepKept
    <3>3. CASE StoreByte(t)
      BY <1>1, <1>2, <3>3, StoreKept
    <3>4. CASE \/ Dump(t) \/ LockMark(t) \/ UnlockMark(t) \/ checkMemRead(t)
               \/ \E m \in Marks : recordMemWrite(t, m)
      BY <1>1, <1>2, <3>4, OtherStepKept
    <3> QED
      BY <1>1, <3>1, <3>2, <3>3, <3>4 DEF Mark
  <2> QED
    BY <1>1, <2>1, <2>2
<1>3. CASE strays # 0
  BY <1>1, <1>3 DEF Kept
<1> QED
  BY <1>2, <1>3

\* Until a memory read frees the lock under its holder, every write that recordMemWrite
\* has returned from stays marked, for all trees, marks and threads.
THEOREM MarksKeptUntilStrayedHolds == Spec => []MarksKeptUntilStrayed
<1>1. Init => Held /\ MarksTypeOK /\ Kept
  BY DEF Init, Held, Inside, MarksTypeOK, Kept, Returned, PathOf, NewSM, AtSM, AtTM, AtQM,
         Underway, Marking, InPart, HasSM, HasTM, HasQM
<1>2. TypeOK /\ DefaultsNeverChange /\ Private /\ [Next]_vars
        => TypeOK' /\ DefaultsNeverChange' /\ Private'
  BY StepKeepsTree
<1>3. TypeOK /\ Held /\ [Next]_vars => Held'
  BY StepKeepsHeld
<1>4. TypeOK /\ DefaultsNeverChange /\ Private /\ Held /\ MarksTypeOK /\ Kept /\ [Next]_vars
        => MarksTypeOK' /\ Kept'
  BY StepKeepsKept
<1>5. Kept => MarksKeptUntilStrayed
  BY DEF Kept, Returned, MarksKeptUntilStrayed
<1> QED
  BY <1>1, <1>2, <1>3, <1>4, <1>5, InitTree, PTL DEF Spec

-----------------------------------------------------------------------------
(* Marks are never made up, with strays or without.                        *)

\* The bits asked for at a byte of the tree.
AskedFor(p, s, m, b) ==
    {bit \in Bits : \E k \in DOMAIN marks : \E j \in DOMAIN marks[k].parts :
        LET q == marks[k].parts[j]
        IN  q.pm = p /\ q.sm = s /\ q.tm = m /\ q.byte = b /\ bit \in q.bits}

AskedStay == \A p, s, m, b : AskedFor(p, s, m, b) \subseteq AskedFor(p, s, m, b)'

Backed(part) == part.bits \subseteq AskedFor(part.pm, part.sm, part.tm, part.byte)

\* What a thread has still to mark was asked for.
AllBacked == \A t \in Threads : \A i \in DOMAIN parts[t] : Backed(parts[t][i])

\* Every page but a default one serves one place of the tree, its home: the slots
\* lead from home to home, and a QM has only bits asked for at its home.
Homes(hS, hT, hQ) ==
    /\ \A p \in Slots : PM[p] # Default => hS[PM[p]] = p
    /\ \A x \in DOMAIN SM : \A s \in Slots : SM[x][s] # Default => hT[SM[x][s]] = <<hS[x], s>>
    /\ \A x \in DOMAIN TM : \A m \in Slots : TM[x][m] # Default => hQ[TM[x][m]] = <<hT[x], m>>
    /\ \A q \in DOMAIN QM : \A b \in SeenBytes : \A p, s, m :
          hQ[q] = <<<<p, s>>, m>> => QM[q][b] \subseteq AskedFor(p, s, m, b)

\* The pages a thread holds are at home where its part leads, and so are the bits.
AtHome(t, hS, hT, hQ) ==
    /\ pc[t] = "copySM" => sm[t] = Default
    /\ pc[t] = "copyTM" => tm[t] = Default
    /\ pc[t] = "copyQM" => qm[t] = Default
    /\ pc[t] \in HasSM => hS[sm[t]] = Part1(t).pm
    /\ pc[t] \in HasTM => hT[tm[t]] = <<Part1(t).pm, Part1(t).sm>>
    /\ pc[t] \in HasQM => hQ[qm[t]] = <<<<Part1(t).pm, Part1(t).sm>>, Part1(t).tm>>
    /\ pc[t] = "store" =>
          old[t] \subseteq AskedFor(Part1(t).pm, Part1(t).sm, Part1(t).tm, Part1(t).byte)

Housed(hS, hT, hQ) == Homes(hS, hT, hQ) /\ \A t \in Threads : AtHome(t, hS, hT, hQ)

SeenInv == AllBacked /\ \E hS, hT, hQ : Housed(hS, hT, hQ)

-----------------------------------------------------------------------------

\* Marks are only added.
LEMMA AskedGrows ==
    ASSUME TypeOK, MarksTypeOK, [Next]_vars
    PROVE  AskedStay
<1>1. CASE marks' = marks
  BY <1>1 DEF AskedStay, AskedFor
<1>2. ASSUME NEW t \in Threads, NEW m \in Marks, recordMemWrite(t, m)
      PROVE  AskedStay
  <2>1. m \in Seq(Part) /\ marks' = Append(marks, [by |-> t, parts |-> m])
    BY <1>2, MarksType DEF recordMemWrite
  <2>2. /\ DOMAIN marks \subseteq DOMAIN marks'
        /\ \A k \in DOMAIN marks : marks'[k] = marks[k]
    BY <2>1 DEF MarksTypeOK
  <2> QED
    BY <2>2 DEF AskedStay, AskedFor
<1>3. ASSUME NEW t \in Threads, Dump(t) \/ Mark(t) \/ checkMemRead(t)
      PROVE  marks' = marks
  BY <1>3 DEF Dump, initThread, TakePos, getFileBuf, printDataReg, StorePos, UnlockDump, Mark,
              LockMark, UnlockMark, checkMemRead, LoadByte, StoreByte, getQMForWriting,
              checkSM, checkTM, checkQM, returnQM, CopySM, CopyTM, CopyQM, LinkSM, LinkTM, LinkQM,
              ghostVars
<1>4. CASE UNCHANGED vars
  BY <1>1, <1>4 DEF vars, ghostVars
<1> QED
  BY <1>1, <1>2, <1>3, <1>4 DEF Next

\* The parts that threads have still to mark.
LEMMA BackedInvariant ==
    ASSUME TypeOK, MarksTypeOK, Private, AllBacked, [Next]_vars
    PROVE  AllBacked'
<1> USE DEF Goto, GoFrom
<1>0. AskedStay /\ parts \in [Threads -> Seq(Part)]
  BY AskedGrows DEF TypeOK, OtherTypeOK
<1>1. ASSUME NEW t \in Threads, parts'[t] = parts[t]
      PROVE  \A i \in DOMAIN parts'[t] : Backed(parts[t][i])'
  <2> SUFFICES ASSUME NEW i \in DOMAIN parts[t] PROVE Backed(parts[t][i])'
    BY <1>1
  <2>1. Backed(parts[t][i])
    BY DEF AllBacked
  <2>2. PICK part : part = parts[t][i]
    OBVIOUS
  <2> QED
    BY <1>0, <1>1, <2>1, <2>2 DEF AskedStay, Backed
<1>2. CASE parts' = parts
  BY <1>1, <1>2 DEF AllBacked
<1>3. ASSUME NEW t \in Threads, NEW m \in Marks, recordMemWrite(t, m)
      PROVE  AllBacked'
  <2>1. /\ m \in Seq(Part) /\ marks' = Append(marks, [by |-> t, parts |-> m])
        /\ parts' = [parts EXCEPT ![t] = m]
    BY <1>3, MarksType DEF recordMemWrite
  <2>2. marks'[Len(marks) + 1].parts = m /\ Len(marks) + 1 \in DOMAIN marks'
    BY <2>1 DEF MarksTypeOK
  <2>3. ASSUME NEW i \in DOMAIN m PROVE Backed(m[i])'
    <3>1. m[i] \in Part
      BY <2>1
    <3> QED
      BY <2>2, <3>1 DEF Backed, AskedFor, Part
  <2>4. parts'[t] = m /\ \A u \in Threads : u # t => parts'[u] = parts[u]
    BY <1>0, <2>1
  <2> QED
    BY <1>1, <2>3, <2>4 DEF AllBacked
<1>4. ASSUME NEW t \in Threads, StoreByte(t)
      PROVE  AllBacked'
  <2>1. parts' = [parts EXCEPT ![t] = Tail(parts[t])] /\ marks' = marks /\ parts[t] # << >>
    BY <1>4 DEF StoreByte, ghostVars, Private, PrivateOf, InPart, HasQM
  <2>2. /\ parts[t] \in Seq(Part) /\ parts'[t] = Tail(parts[t])
        /\ \A u \in Threads : u # t => parts'[u] = parts[u]
    BY <1>0, <2>1
  <2>3. ASSUME NEW i \in DOMAIN Tail(parts[t]) PROVE Backed(parts[t][i])'
    <3>1. Tail(parts[t])[i] = parts[t][i + 1] /\ i + 1 \in DOMAIN parts[t]
      BY <2>1, <2>2
    <3>2. Backed(parts[t][i + 1])
      BY <3>1 DEF AllBacked
    <3>3. PICK part : part = parts[t][i + 1]
      OBVIOUS
    <3>4. Backed(part)'
      BY <1>0, <3>2, <3>3 DEF AskedStay, Backed
    <3>5. parts'[t][i] = part
      BY <2>2, <3>1, <3>3
    <3> QED
      BY <3>4, <3>5 DEF Backed
  <2> QED
    BY <1>1, <2>2, <2>3 DEF AllBacked
<1>5. ASSUME NEW t \in Threads,
             \/ Dump(t) \/ LockMark(t) \/ getQMForWriting(t) \/ LoadByte(t) \/ UnlockMark(t)
             \/ checkMemRead(t)
      PROVE  parts' = parts
  BY <1>5 DEF Dump, initThread, TakePos, getFileBuf, printDataReg, StorePos, UnlockDump,
              LockMark, UnlockMark, checkMemRead, LoadByte, getQMForWriting,
              checkSM, checkTM, checkQM, returnQM, CopySM, CopyTM, CopyQM, LinkSM, LinkTM, LinkQM
<1>6. CASE UNCHANGED vars
  BY <1>2, <1>6 DEF vars
<1> QED
  BY <1>2, <1>3, <1>4, <1>5, <1>6 DEF Next, Mark

\* A thread that did not move stays at home, if the homes of the old pages stay.
LEMMA OthersAtHome ==
    ASSUME TypeOK, AskedStay, NEW u \in Threads, NEW hS, NEW hT, NEW hQ, AtHome(u, hS, hT, hQ),
           NEW gS, NEW gT, NEW gQ,
           \A x \in DOMAIN SM : gS[x] = hS[x], \A x \in DOMAIN TM : gT[x] = hT[x],
           \A x \in DOMAIN QM : gQ[x] = hQ[x],
           pc'[u] = pc[u], parts'[u] = parts[u], sm'[u] = sm[u], tm'[u] = tm[u], qm'[u] = qm[u],
           old'[u] = old[u]
    PROVE  AtHome(u, gS, gT, gQ)'
<1>1. sm[u] \in DOMAIN SM /\ tm[u] \in DOMAIN TM /\ qm[u] \in DOMAIN QM
  BY DEF TypeOK, TreeTypeOK
<1>2. Part1(u)' = Part1(u)
  BY DEF Part1
<1>3. AskedFor(Part1(u).pm, Part1(u).sm, Part1(u).tm, Part1(u).byte)
        \subseteq AskedFor(Part1(u).pm, Part1(u).sm, Part1(u).tm, Part1(u).byte)'
  BY <1>2 DEF AskedStay
<1> QED
  BY <1>1, <1>2, <1>3 DEF AtHome

\* A step that changes no page.
LEMMA SameTreeHomes ==
    ASSUME AskedStay, PM' = PM, SM' = SM, TM' = TM, QM' = QM, NEW hS, NEW hT, NEW hQ, Homes(hS, hT, hQ)
    PROVE  Homes(hS, hT, hQ)'
BY DEF Homes, AskedStay
LEMMA ChecksHouse ==
    ASSUME TypeOK, Private, AskedStay, NEW t \in Threads, NEW hS, NEW hT, NEW hQ, Housed(hS, hT, hQ),
           checkSM(t) \/ checkTM(t) \/ checkQM(t) \/ returnQM(t) \/ LoadByte(t)
    PROVE  Housed(hS, hT, hQ)'
<1> USE DEF Goto, GoFrom
<1>1. PM' = PM /\ SM' = SM /\ TM' = TM /\ QM' = QM /\ parts' = parts /\ Part1(t)' = Part1(t) /\ marks' = marks
  BY DEF checkSM, checkTM, checkQM, returnQM, LoadByte, treeVars, ghostVars, Part1
<1>2. /\ DOMAIN pc = Threads /\ sm \in [Threads -> DOMAIN SM] /\ tm \in [Threads -> DOMAIN TM]
      /\ qm \in [Threads -> DOMAIN QM] /\ old \in [Threads -> SUBSET Bits]
  BY DEF TypeOK, TreeTypeOK, OtherTypeOK
<1>3. Homes(hS, hT, hQ)'
  BY <1>1, SameTreeHomes DEF Housed
<1>4. ASSUME NEW u \in Threads, u # t PROVE AtHome(u, hS, hT, hQ)'
  <2>1. /\ pc'[u] = pc[u] /\ parts'[u] = parts[u] /\ sm'[u] = sm[u] /\ tm'[u] = tm[u]
        /\ qm'[u] = qm[u] /\ old'[u] = old[u]
    BY <1>1, <1>2, <1>4 DEF checkSM, checkTM, checkQM, returnQM, LoadByte
  <2> QED
    BY <2>1, OthersAtHome DEF Housed
<1>5. Homes(hS, hT, hQ) /\ AtHome(t, hS, hT, hQ) /\ PrivateOf(t)
  BY DEF Housed, Private
<1>6. parts[t] # << >>
  BY <1>5 DEF PrivateOf, InPart, HasSM, HasTM, HasQM, checkSM, checkTM, checkQM, returnQM, LoadByte
<1>7. /\ Part1(t).pm \in Slots /\ Part1(t).sm \in Slots /\ Part1(t).tm \in Slots
      /\ Part1(t).byte \in SeenBytes
  BY <1>6, Part1Type
<1>8. AtHome(t, hS, hT, hQ)'
  <2>1. CASE checkSM(t)
    <3>1. /\ sm'[t] = PM[Part1(t).pm]
          /\ pc'[t] = IF sm'[t] = Default THEN "copySM" ELSE "checkTM"
      BY <2>1, <1>2 DEF checkSM
    <3>2. sm'[t] # Default => hS[sm'[t]] = Part1(t).pm
      BY <1>5, <1>7, <3>1 DEF Homes
    <3> QED
      BY <1>1, <3>1, <3>2 DEF AtHome, HasSM, HasTM, HasQM
  <2>2. CASE checkTM(t)
    <3>1. PICK s \in {sm[t], PM[Part1(t).pm]} :
             /\ sm' = [sm EXCEPT ![t] = s] /\ tm' = [tm EXCEPT ![t] = SM[s][Part1(t).sm]]
             /\ Goto(t, IF SM[s][Part1(t).sm] = Default THEN "copyTM" ELSE "checkQM")
      BY <2>2 DEF checkTM
    <3>2. /\ sm'[t] = s /\ tm'[t] = SM[s][Part1(t).sm]
          /\ pc'[t] = IF tm'[t] = Default THEN "copyTM" ELSE "checkQM"
      BY <1>2, <3>1
    <3>3. pc[t] = "checkTM" /\ PM[Part1(t).pm] # Default
      BY <1>5, <2>2 DEF checkTM, PrivateOf
    <3>4. s \in DOMAIN SM /\ hS[s] = Part1(t).pm
      <4>1. PM \in [Slots -> DOMAIN SM]
        BY DEF TypeOK, TreeTypeOK
      <4> QED
        BY <1>2, <1>5, <1>7, <3>1, <3>3, <4>1 DEF Homes, AtHome, HasSM
    <3>5. tm'[t] # Default => hT[tm'[t]] = <<Part1(t).pm, Part1(t).sm>>
      BY <1>5, <1>7, <3>2, <3>4 DEF Homes
    <3> QED
      BY <1>1, <3>2, <3>4, <3>5 DEF AtHome, HasSM, HasTM, HasQM
  <2>3. CASE checkQM(t)
    <3>1. PICK m \in {tm[t], SM[sm[t]][Part1(t).sm]} :
             /\ tm' = [tm EXCEPT ![t] = m] /\ qm' = [qm EXCEPT ![t] = TM[m][Part1(t).tm]]
             /\ Goto(t, IF is_DQM(TM[m][Part1(t).tm]) THEN "copyQM" ELSE "returnQM")
      BY <2>3 DEF checkQM
    <3>2. /\ tm'[t] = m /\ qm'[t] = TM[m][Part1(t).tm] /\ sm' = sm
          /\ pc'[t] = IF qm'[t] = Default THEN "copyQM" ELSE "returnQM"
      BY <1>2, <2>3, <3>1 DEF checkQM, is_DQM
    <3>3. pc[t] = "checkQM" /\ SM[sm[t]][Part1(t).sm] # Default
      BY <1>5, <2>3 DEF checkQM, PrivateOf
    <3>4. hS[sm[t]] = Part1(t).pm /\ hT[tm[t]] = <<Part1(t).pm, Part1(t).sm>>
      BY <1>5, <3>3 DEF AtHome, HasSM, HasTM
    <3>5. m \in DOMAIN TM /\ hT[m] = <<Part1(t).pm, Part1(t).sm>>
      <4>1. sm[t] \in DOMAIN SM /\ SM[sm[t]][Part1(t).sm] \in DOMAIN TM /\ tm[t] \in DOMAIN TM
        BY <1>2, <1>7, PagesType
      <4>2. hT[SM[sm[t]][Part1(t).sm]] = <<hS[sm[t]], Part1(t).sm>>
        BY <1>5, <1>7, <3>3, <4>1 DEF Homes
      <4> QED
        BY <3>1, <3>4, <4>1, <4>2
    <3>6. qm'[t] # Default => hQ[qm'[t]] = <<<<Part1(t).pm, Part1(t).sm>>, Part1(t).tm>>
      BY <1>5, <1>7, <3>2, <3>5 DEF Homes
    <3> QED
      BY <1>1, <3>2, <3>4, <3>5, <3>6 DEF AtHome, HasSM, HasTM, HasQM
  <2>4. CASE returnQM(t)
    <3>1. PICK q \in {qm[t], TM[tm[t]][Part1(t).tm]} : qm' = [qm EXCEPT ![t] = q]
      BY <2>4 DEF returnQM
    <3>2. qm'[t] = q /\ pc'[t] = "load" /\ pc[t] = "returnQM" /\ TM[tm[t]][Part1(t).tm] # Default
      BY <1>2, <1>5, <2>4, <3>1 DEF returnQM, PrivateOf
    <3>3. /\ hT[tm[t]] = <<Part1(t).pm, Part1(t).sm>>
          /\ hQ[qm[t]] = <<<<Part1(t).pm, Part1(t).sm>>, Part1(t).tm>>
      BY <1>5, <3>2 DEF AtHome, HasTM, HasQM
    <3>4. hQ[TM[tm[t]][Part1(t).tm]] = <<hT[tm[t]], Part1(t).tm>>
      BY <1>2, <1>5, <1>7, <3>2 DEF Homes
    <3>5. hQ[q] = <<<<Part1(t).pm, Part1(t).sm>>, Part1(t).tm>>
      BY <3>1, <3>3, <3>4
    <3> QED
      BY <1>1, <3>2, <3>5 DEF AtHome, HasSM, HasTM, HasQM
  <2>5. CASE LoadByte(t)
    <3>1. /\ qm' = qm /\ pc[t] = "load" /\ pc'[t] = "store"
          /\ old'[t] = QM[qm[t]][Part1(t).byte]
      BY <1>2, <2>5 DEF LoadByte
    <3>2. hQ[qm[t]] = <<<<Part1(t).pm, Part1(t).sm>>, Part1(t).tm>>
      BY <1>5, <3>1 DEF AtHome, HasQM
    <3>3. QM[qm[t]][Part1(t).byte]
             \subseteq AskedFor(Part1(t).pm, Part1(t).sm, Part1(t).tm, Part1(t).byte)
      BY <1>2, <1>5, <1>7, <3>2 DEF Homes
    <3>4. AskedFor(Part1(t).pm, Part1(t).sm, Part1(t).tm, Part1(t).byte)'
             = AskedFor(Part1(t).pm, Part1(t).sm, Part1(t).tm, Part1(t).byte)
      BY <1>1 DEF AskedFor
    <3> QED
      BY <1>1, <3>1, <3>2, <3>3, <3>4 DEF AtHome, HasSM, HasTM, HasQM
  <2> QED
    BY <2>1, <2>2, <2>3, <2>4, <2>5
<1> QED
  BY <1>3, <1>4, <1>8 DEF Housed
LEMMA LinksHouse ==
    ASSUME TypeOK, Private, DefaultsNeverChange, AskedStay, NEW t \in Threads, NEW hS, NEW hT, NEW hQ,
           Housed(hS, hT, hQ), LinkSM(t) \/ LinkTM(t) \/ LinkQM(t)
    PROVE  Housed(hS, hT, hQ)'
<1> USE DEF Goto, GoFrom
<1>1. /\ parts' = parts /\ Part1(t)' = Part1(t) /\ marks' = marks /\ QM' = QM
      /\ sm' = sm /\ tm' = tm /\ qm' = qm /\ old' = old
  BY DEF LinkSM, LinkTM, LinkQM, localVars, ghostVars, Part1
<1>2. /\ DOMAIN pc = Threads /\ sm[t] \in DOMAIN SM /\ tm[t] \in DOMAIN TM /\ qm[t] \in DOMAIN QM
      /\ PM \in [Slots -> DOMAIN SM]
      /\ \A p \in DOMAIN SM : SM[p] \in [Slots -> DOMAIN TM]
      /\ \A p \in DOMAIN TM : TM[p] \in [Slots -> DOMAIN QM]
  <2>1. DOMAIN pc = Threads
    BY DEF TypeOK, OtherTypeOK
  <2>2. /\ sm \in [Threads -> DOMAIN SM] /\ tm \in [Threads -> DOMAIN TM]
        /\ qm \in [Threads -> DOMAIN QM] /\ PM \in [Slots -> DOMAIN SM]
    BY DEF TypeOK, TreeTypeOK
  <2> QED
    BY <2>1, <2>2, PagesType
<1>3. Homes(hS, hT, hQ) /\ AtHome(t, hS, hT, hQ) /\ PrivateOf(t)
  BY DEF Housed, Private
<1>4. parts[t] # << >>
  BY <1>3 DEF PrivateOf, InPart, HasSM, HasTM, HasQM, LinkSM, LinkTM, LinkQM
<1>5. Part1(t).pm \in Slots /\ Part1(t).sm \in Slots /\ Part1(t).tm \in Slots
  BY <1>4, Part1Type
<1>6. ASSUME NEW u \in Threads PROVE AtHome(u, hS, hT, hQ)'
  <2>1. CASE u # t
    <3>1. pc'[u] = pc[u]
      BY <1>2, <2>1 DEF LinkSM, LinkTM, LinkQM
    <3> QED
      BY <1>1, <3>1, OthersAtHome DEF Housed
  <2>2. CASE u = t
    BY <1>1, <1>2, <1>3, <2>2 DEF AtHome, HasSM, HasTM, HasQM, LinkSM, LinkTM, LinkQM
  <2> QED
    BY <2>1, <2>2
<1>7. ASSUME NEW p, NEW s, NEW m, NEW b
      PROVE  AskedFor(p, s, m, b)' = AskedFor(p, s, m, b)
  BY <1>1 DEF AskedFor
<1>8. \A q \in DOMAIN QM' : \A b \in SeenBytes : \A p, s, m :
          hQ[q] = <<<<p, s>>, m>> => QM'[q][b] \subseteq AskedFor(p, s, m, b)'
  BY <1>1, <1>3, <1>7 DEF Homes
<1>9. CASE LinkSM(t)
  <2>1. /\ PM' = [PM EXCEPT ![Part1(t).pm] = sm[t]] /\ SM' = SM /\ TM' = TM
        /\ hS[sm[t]] = Part1(t).pm
    BY <1>3, <1>9 DEF LinkSM, AtHome, HasSM
  <2>2. \A p \in Slots : PM'[p] # Default => hS[PM'[p]] = p
    BY <1>2, <1>3, <2>1 DEF Homes
  <2>3. Homes(hS, hT, hQ)'
    BY <1>3, <1>8, <2>1, <2>2 DEF Homes
  <2> QED
    BY <1>6, <2>3 DEF Housed
<1>10. CASE LinkTM(t)
  <2>1. /\ SM' = [SM EXCEPT ![sm[t]][Part1(t).sm] = tm[t]] /\ PM' = PM /\ TM' = TM
        /\ hS[sm[t]] = Part1(t).pm /\ hT[tm[t]] = <<Part1(t).pm, Part1(t).sm>>
    BY <1>3, <1>10 DEF LinkTM, AtHome, HasSM, HasTM
  <2>2. DOMAIN SM' = DOMAIN SM
    BY <2>1
  <2>3. ASSUME NEW x \in DOMAIN SM, NEW s \in Slots, SM'[x][s] # Default
        PROVE  hT[SM'[x][s]] = <<hS[x], s>>
    <3>1. CASE x = sm[t] /\ s = Part1(t).sm
      BY <1>2, <2>1, <3>1
    <3>2. CASE ~(x = sm[t] /\ s = Part1(t).sm)
      <4>1. SM'[x][s] = SM[x][s]
        BY <1>2, <2>1, <3>2
      <4> QED
        BY <1>3, <2>3, <4>1 DEF Homes
    <3> QED
      BY <3>1, <3>2
  <2>4. Homes(hS, hT, hQ)'
    BY <1>3, <1>8, <2>1, <2>2, <2>3 DEF Homes
  <2> QED
    BY <1>6, <2>4 DEF Housed
<1>11. CASE LinkQM(t)
  <2>1. /\ TM' = [TM EXCEPT ![tm[t]][Part1(t).tm] = qm[t]] /\ PM' = PM /\ SM' = SM
        /\ hT[tm[t]] = <<Part1(t).pm, Part1(t).sm>>
    BY <1>3, <1>11 DEF LinkQM, AtHome, HasTM
  <2>2. DOMAIN TM' = DOMAIN TM
    BY <2>1
  <2>3. hQ[qm[t]] = <<hT[tm[t]], Part1(t).tm>>
    BY <1>3, <1>11, <2>1 DEF LinkQM, AtHome, HasQM
  <2>4. ASSUME NEW x \in DOMAIN TM, NEW m \in Slots, TM'[x][m] # Default
        PROVE  hQ[TM'[x][m]] = <<hT[x], m>>
    <3>1. CASE x = tm[t] /\ m = Part1(t).tm
      BY <1>2, <2>1, <2>3, <3>1
    <3>2. CASE ~(x = tm[t] /\ m = Part1(t).tm)
      <4>1. TM'[x][m] = TM[x][m]
        BY <1>2, <2>1, <3>2
      <4> QED
        BY <1>3, <2>4, <4>1 DEF Homes
    <3> QED
      BY <3>1, <3>2
  <2>5. Homes(hS, hT, hQ)'
    BY <1>3, <1>8, <2>1, <2>2, <2>4 DEF Homes
  <2> QED
    BY <1>6, <2>5 DEF Housed
<1> QED
  BY <1>9, <1>10, <1>11

LEMMA StoreHouse ==
    ASSUME TypeOK, Private, AllBacked, AskedStay, NEW t \in Threads, NEW hS, NEW hT, NEW hQ,
           Housed(hS, hT, hQ), StoreByte(t)
    PROVE  Housed(hS, hT, hQ)'
<1> USE DEF Goto, GoFrom
<1>1. /\ marks' = marks /\ PM' = PM /\ SM' = SM /\ TM' = TM
      /\ sm' = sm /\ tm' = tm /\ qm' = qm /\ old' = old
      /\ pc[t] = "store" /\ pc' = [pc EXCEPT ![t] = "setSeen"]
      /\ parts' = [parts EXCEPT ![t] = Tail(@)]
      /\ QM' = [QM EXCEPT ![qm[t]][Part1(t).byte] = old[t] \cup Part1(t).bits]
  BY DEF StoreByte, localVars, ghostVars, Merged
<1>2. /\ DOMAIN pc = Threads /\ DOMAIN parts = Threads /\ qm[t] \in DOMAIN QM
      /\ \A p \in DOMAIN QM : QM[p] \in [SeenBytes -> SUBSET Bits]
  <2>1. DOMAIN pc = Threads /\ DOMAIN parts = Threads
    BY DEF TypeOK, OtherTypeOK
  <2>2. qm[t] \in DOMAIN QM
    BY DEF TypeOK, TreeTypeOK
  <2> QED
    BY <2>1, <2>2, PagesType
<1>3. Homes(hS, hT, hQ) /\ AtHome(t, hS, hT, hQ) /\ PrivateOf(t)
  BY DEF Housed, Private
<1>4. parts[t] # << >> /\ parts[t] \in Seq(Part)
  BY <1>1, <1>3 DEF PrivateOf, InPart, HasQM, TypeOK, OtherTypeOK
<1>5. /\ Part1(t).byte \in SeenBytes
      /\ Part1(t).bits \subseteq AskedFor(Part1(t).pm, Part1(t).sm, Part1(t).tm, Part1(t).byte)
  <2>1. 1 \in DOMAIN parts[t] /\ Part1(t) = parts[t][1]
    BY <1>4 DEF Part1
  <2>2. Backed(parts[t][1])
    BY <2>1 DEF AllBacked
  <2> QED
    BY <1>4, <2>1, <2>2, Part1Type DEF Backed
<1>6. ASSUME NEW u \in Threads PROVE AtHome(u, hS, hT, hQ)'
  <2>1. CASE u # t
    BY <1>1, <1>2, <2>1, OthersAtHome DEF Housed
  <2>2. CASE u = t
    BY <1>1, <1>2, <2>2 DEF AtHome, HasSM, HasTM, HasQM
  <2> QED
    BY <2>1, <2>2
<1>7. ASSUME NEW p, NEW s, NEW m, NEW b
      PROVE  AskedFor(p, s, m, b)' = AskedFor(p, s, m, b)
  BY <1>1 DEF AskedFor
<1>8. DOMAIN QM' = DOMAIN QM
  BY <1>1
<1>9. ASSUME NEW q \in DOMAIN QM, NEW b \in SeenBytes, NEW p, NEW s, NEW m, hQ[q] = <<<<p, s>>, m>>
      PROVE  QM'[q][b] \subseteq AskedFor(p, s, m, b)
  <2>1. CASE q = qm[t] /\ b = Part1(t).byte
    <3>1. QM'[q][b] = old[t] \cup Part1(t).bits
      BY <1>1, <1>2, <1>5, <2>1
    <3>2. hQ[q] = <<<<Part1(t).pm, Part1(t).sm>>, Part1(t).tm>>
      BY <1>1, <1>3, <2>1 DEF AtHome, HasQM
    <3>3. p = Part1(t).pm /\ s = Part1(t).sm /\ m = Part1(t).tm
      BY <1>9, <3>2
    <3>4. old[t] \subseteq AskedFor(Part1(t).pm, Part1(t).sm, Part1(t).tm, Part1(t).byte)
      BY <1>1, <1>3 DEF AtHome
    <3> QED
      BY <1>5, <2>1, <3>1, <3>3, <3>4
  <2>2. CASE ~(q = qm[t] /\ b = Part1(t).byte)
    <3>1. QM'[q][b] = QM[q][b]
      BY <1>1, <1>2, <2>2
    <3> QED
      BY <1>3, <1>9, <3>1 DEF Homes
  <2> QED
    BY <2>1, <2>2
<1>10. Homes(hS, hT, hQ)'
  BY <1>1, <1>3, <1>7, <1>8, <1>9 DEF Homes
<1> QED
  BY <1>6, <1>10 DEF Housed
\* A copied page gets the home of the place it is copied for.
LEMMA CopySMHouse ==
    ASSUME TypeOK, Private, DefaultsNeverChange, AskedStay, NEW t \in Threads, NEW hS, NEW hT, NEW hQ,
           Housed(hS, hT, hQ), CopySM(t)
    PROVE  \E gS : Housed(gS, hT, hQ)'
<1> USE DEF Goto, GoFrom
<1>1. /\ PM' = PM /\ TM' = TM /\ QM' = QM /\ tm' = tm /\ qm' = qm /\ old' = old
      /\ parts' = parts /\ Part1(t)' = Part1(t) /\ marks' = marks
      /\ pc[t] = "copySM" /\ pc' = [pc EXCEPT ![t] = "copyTM of SM"]
      /\ sm' = [sm EXCEPT ![t] = Len(SM) + 1]
  BY DEF CopySM, ghostVars, Part1
<1>2. /\ DOMAIN pc = Threads /\ sm \in [Threads -> DOMAIN SM] /\ PM \in [Slots -> DOMAIN SM]
      /\ SM \in Seq([Slots -> DOMAIN TM]) /\ 1 \in DOMAIN SM
  BY DEF TypeOK, TreeTypeOK, OtherTypeOK
<1>3. Homes(hS, hT, hQ) /\ AtHome(t, hS, hT, hQ) /\ PrivateOf(t)
  BY DEF Housed, Private
<1>4. Part1(t).pm \in Slots
  <2>1. parts[t] # << >>
    BY <1>1, <1>3 DEF PrivateOf, InPart
  <2> QED
    BY <2>1, Part1Type
<1>5. PICK p \in {sm[t], PM[Part1(t).pm]} : SM' = Copied(SM, p)
  BY DEF CopySM
<1>6. p \in DOMAIN SM /\ (p # Default => hS[p] = Part1(t).pm)
  <2>1. sm[t] = Default
    BY <1>1, <1>3 DEF AtHome
  <2>2. PM[Part1(t).pm] # Default => hS[PM[Part1(t).pm]] = Part1(t).pm
    BY <1>3, <1>4 DEF Homes
  <2> QED
    BY <1>2, <1>4, <1>5, <2>1, <2>2
<1> DEFINE new == Len(SM) + 1
<1>7. /\ DOMAIN SM' = 1 .. new /\ DOMAIN SM = 1 .. Len(SM) /\ Len(SM) \in Nat
      /\ \A x \in DOMAIN SM : SM'[x] = SM[x]
      /\ SM'[new] = SM[p]
  BY <1>2, <1>5, <1>6, CopiedType
<1>8. PICK gS : gS = [x \in DOMAIN SM' |-> IF x \in DOMAIN SM THEN hS[x] ELSE Part1(t).pm]
  OBVIOUS
<1>9. (\A x \in DOMAIN SM : gS[x] = hS[x]) /\ gS[new] = Part1(t).pm
  BY <1>7, <1>8
<1>10. ASSUME NEW u \in Threads PROVE AtHome(u, gS, hT, hQ)'
  <2>1. CASE u # t
    <3>1. pc'[u] = pc[u] /\ sm'[u] = sm[u] /\ parts'[u] = parts[u] /\ tm'[u] = tm[u]
          /\ qm'[u] = qm[u] /\ old'[u] = old[u]
      BY <1>1, <1>2, <2>1
    <3>2. AtHome(u, hS, hT, hQ)
      BY DEF Housed
    <3> QED
      BY <1>9, <3>1, <3>2, OthersAtHome
  <2>2. CASE u = t
    <3>1. pc'[t] = "copyTM of SM" /\ sm'[t] = new
      BY <1>1, <1>2
    <3> QED
      BY <1>1, <1>9, <2>2, <3>1 DEF AtHome, HasSM, HasTM, HasQM
  <2> QED
    BY <2>1, <2>2
<1>11. ASSUME NEW x \in DOMAIN SM', NEW s \in Slots, SM'[x][s] # Default
       PROVE  hT[SM'[x][s]] = <<gS[x], s>>
  <2>1. CASE x \in DOMAIN SM
    <3>1. SM'[x] = SM[x] /\ gS[x] = hS[x]
      BY <1>7, <1>9, <2>1
    <3>2. SM[x][s] # Default
      BY <1>11, <3>1
    <3>3. hT[SM[x][s]] = <<hS[x], s>>
      BY <1>3, <2>1, <3>2 DEF Homes
    <3> QED
      BY <3>1, <3>3
  <2>2. CASE x \notin DOMAIN SM
    <3>1. x = new /\ SM[p][s] # Default
      BY <1>7, <1>11, <2>2
    <3>2. p # Default
      BY <3>1 DEF DefaultsNeverChange, AllDefault
    <3>3. hT[SM[p][s]] = <<hS[p], s>>
      BY <1>3, <1>6, <3>1 DEF Homes
    <3> QED
      BY <1>6, <1>7, <1>9, <3>1, <3>2, <3>3
  <2> QED
    BY <2>1, <2>2
<1>12. \A q \in Slots : PM'[q] # Default => gS[PM'[q]] = q
  BY <1>1, <1>2, <1>3, <1>9 DEF Homes
<1>13. ASSUME NEW q, NEW s, NEW m, NEW b
       PROVE  AskedFor(q, s, m, b)' = AskedFor(q, s, m, b)
  BY <1>1 DEF AskedFor
<1>14. Homes(gS, hT, hQ)'
  BY <1>1, <1>3, <1>11, <1>12, <1>13 DEF Homes
<1> QED
  BY <1>10, <1>14 DEF Housed

LEMMA CopyTMHouse ==
    ASSUME TypeOK, Private, DefaultsNeverChange, AskedStay, NEW t \in Threads, NEW hS, NEW hT, NEW hQ,
           Housed(hS, hT, hQ), CopyTM(t)
    PROVE  \E gT : Housed(hS, gT, hQ)'
<1> USE DEF Goto, GoFrom
<1>1. /\ PM' = PM /\ SM' = SM /\ QM' = QM /\ sm' = sm /\ qm' = qm /\ old' = old
      /\ parts' = parts /\ Part1(t)' = Part1(t) /\ marks' = marks
      /\ pc[t] \in {"copyTM of SM", "copyTM"}
      /\ tm' = [tm EXCEPT ![t] = Len(TM) + 1]
  BY DEF CopyTM, ghostVars, Part1
<1>2. /\ DOMAIN pc = Threads /\ tm \in [Threads -> DOMAIN TM] /\ sm[t] \in DOMAIN SM
      /\ \A x \in DOMAIN SM : SM[x] \in [Slots -> DOMAIN TM]
      /\ TM \in Seq([Slots -> DOMAIN QM]) /\ 1 \in DOMAIN TM
  <2>1. DOMAIN pc = Threads
    BY DEF TypeOK, OtherTypeOK
  <2>2. /\ tm \in [Threads -> DOMAIN TM] /\ sm \in [Threads -> DOMAIN SM]
        /\ TM \in Seq([Slots -> DOMAIN QM]) /\ 1 \in DOMAIN TM
    BY DEF TypeOK, TreeTypeOK
  <2>3. \A x \in DOMAIN SM : SM[x] \in [Slots -> DOMAIN TM]
    BY PagesType
  <2> QED
    BY <2>1, <2>2, <2>3
<1>3. Homes(hS, hT, hQ) /\ AtHome(t, hS, hT, hQ) /\ PrivateOf(t)
  BY DEF Housed, Private
<1>4. Part1(t).pm \in Slots /\ Part1(t).sm \in Slots
  <2>1. parts[t] # << >>
    BY <1>1, <1>3 DEF PrivateOf, InPart, HasSM
  <2> QED
    BY <2>1, Part1Type
<1>5. PICK p \in DOMAIN TM : /\ TM' = Copied(TM, p)
                             /\ p # Default => hT[p] = <<Part1(t).pm, Part1(t).sm>>
  <2>1. hS[sm[t]] = Part1(t).pm
    BY <1>1, <1>3 DEF AtHome, HasSM
  <2> DEFINE m == SM[sm[t]][Part1(t).sm]
  <2>2. m \in DOMAIN TM /\ (m # Default => hT[m] = <<Part1(t).pm, Part1(t).sm>>)
    <3>1. SM[sm[t]] \in [Slots -> DOMAIN TM]
      BY <1>2
    <3>2. m \in DOMAIN TM
      BY <1>4, <3>1
    <3>3. m # Default => hT[m] = <<hS[sm[t]], Part1(t).sm>>
      BY <1>2, <1>3, <1>4 DEF Homes
    <3> QED
      BY <2>1, <3>2, <3>3
  <2>3. pc[t] = "copyTM" => tm[t] = Default
    BY <1>3 DEF AtHome
  <2>4. Default \in DOMAIN TM
    BY <1>2 DEF Default
  <2> QED
    BY <2>2, <2>3, <2>4 DEF CopyTM
<1> DEFINE new == Len(TM) + 1
<1>7. /\ DOMAIN TM' = 1 .. new /\ DOMAIN TM = 1 .. Len(TM) /\ Len(TM) \in Nat
      /\ \A x \in DOMAIN TM : TM'[x] = TM[x]
      /\ TM'[new] = TM[p]
  BY <1>2, <1>5, CopiedType
<1>8. PICK gT : gT = [x \in DOMAIN TM' |-> IF x \in DOMAIN TM THEN hT[x]
                                           ELSE <<Part1(t).pm, Part1(t).sm>>]
  OBVIOUS
<1>9. (\A x \in DOMAIN TM : gT[x] = hT[x]) /\ gT[new] = <<Part1(t).pm, Part1(t).sm>>
  BY <1>7, <1>8
<1>10. ASSUME NEW u \in Threads PROVE AtHome(u, hS, gT, hQ)'
  <2>1. CASE u # t
    <3>1. pc'[u] = pc[u] /\ sm'[u] = sm[u] /\ parts'[u] = parts[u] /\ tm'[u] = tm[u]
          /\ qm'[u] = qm[u] /\ old'[u] = old[u]
      BY <1>1, <1>2, <2>1 DEF CopyTM
    <3>2. AtHome(u, hS, hT, hQ)
      BY DEF Housed
    <3> QED
      BY <1>9, <3>1, <3>2, OthersAtHome
  <2>2. CASE u = t
    <3>1. pc'[t] \in {"copyQM of SM", "copyQM of TM"} /\ tm'[t] = new
      BY <1>1, <1>2 DEF CopyTM
    <3>2. hS[sm[t]] = Part1(t).pm
      BY <1>1, <1>3 DEF AtHome, HasSM
    <3> QED
      BY <1>1, <1>9, <2>2, <3>1, <3>2 DEF AtHome, HasSM, HasTM, HasQM
  <2> QED
    BY <2>1, <2>2
<1>11. ASSUME NEW x \in DOMAIN TM', NEW m \in Slots, TM'[x][m] # Default
       PROVE  hQ[TM'[x][m]] = <<gT[x], m>>
  <2>1. CASE x \in DOMAIN TM
    <3>1. TM'[x] = TM[x] /\ gT[x] = hT[x]
      BY <1>7, <1>9, <2>1
    <3>2. TM[x][m] # Default => hQ[TM[x][m]] = <<hT[x], m>>
      BY <1>3, <2>1 DEF Homes
    <3> QED
      BY <1>11, <3>1, <3>2
  <2>2. CASE x \notin DOMAIN TM
    <3>1. x = new /\ TM[p][m] # Default
      BY <1>7, <1>11, <2>2
    <3>2. p # Default
      BY <3>1 DEF DefaultsNeverChange, AllDefault
    <3>3. hQ[TM[p][m]] = <<hT[p], m>>
      BY <1>3, <1>5, <3>1 DEF Homes
    <3> QED
      BY <1>5, <1>7, <1>9, <3>1, <3>2, <3>3
  <2> QED
    BY <2>1, <2>2
<1>12. \A x \in DOMAIN SM' : \A s \in Slots : SM'[x][s] # Default => gT[SM'[x][s]] = <<hS[x], s>>
  BY <1>1, <1>2, <1>3, <1>9 DEF Homes
<1>13. ASSUME NEW q, NEW s, NEW m, NEW b
       PROVE  AskedFor(q, s, m, b)' = AskedFor(q, s, m, b)
  BY <1>1 DEF AskedFor
<1>14. Homes(hS, gT, hQ)'
  BY <1>1, <1>3, <1>11, <1>12, <1>13 DEF Homes
<1> QED
  BY <1>10, <1>14 DEF Housed

LEMMA CopyQMHouse ==
    ASSUME TypeOK, Private, DefaultsNeverChange, AskedStay, NEW t \in Threads, NEW hS, NEW hT, NEW hQ,
           Housed(hS, hT, hQ), CopyQM(t)
    PROVE  \E gQ : Housed(hS, hT, gQ)'
<1> USE DEF Goto, GoFrom
<1>1. /\ PM' = PM /\ SM' = SM /\ TM' = TM /\ sm' = sm /\ tm' = tm /\ old' = old
      /\ parts' = parts /\ Part1(t)' = Part1(t) /\ marks' = marks
      /\ pc[t] \in {"copyQM of SM", "copyQM of TM", "copyQM"}
      /\ qm' = [qm EXCEPT ![t] = Len(QM) + 1]
  BY DEF CopyQM, ghostVars, Part1
<1>2. /\ DOMAIN pc = Threads /\ qm \in [Threads -> DOMAIN QM] /\ tm[t] \in DOMAIN TM
      /\ \A x \in DOMAIN TM : TM[x] \in [Slots -> DOMAIN QM]
      /\ QM \in Seq([SeenBytes -> SUBSET Bits]) /\ 1 \in DOMAIN QM
  <2>1. DOMAIN pc = Threads
    BY DEF TypeOK, OtherTypeOK
  <2>2. /\ qm \in [Threads -> DOMAIN QM] /\ tm \in [Threads -> DOMAIN TM]
        /\ QM \in Seq([SeenBytes -> SUBSET Bits]) /\ 1 \in DOMAIN QM
    BY DEF TypeOK, TreeTypeOK
  <2>3. \A x \in DOMAIN TM : TM[x] \in [Slots -> DOMAIN QM]
    BY PagesType
  <2> QED
    BY <2>1, <2>2, <2>3
<1>3. Homes(hS, hT, hQ) /\ AtHome(t, hS, hT, hQ) /\ PrivateOf(t)
  BY DEF Housed, Private
<1>4. Part1(t).tm \in Slots
  <2>1. parts[t] # << >>
    BY <1>1, <1>3 DEF PrivateOf, InPart, HasSM
  <2> QED
    BY <2>1, Part1Type
<1> DEFINE home == <<<<Part1(t).pm, Part1(t).sm>>, Part1(t).tm>>
           new == Len(QM) + 1
<1>5. PICK p \in DOMAIN QM : QM' = Copied(QM, p) /\ (p # Default => hQ[p] = home)
  <2>1. hT[tm[t]] = <<Part1(t).pm, Part1(t).sm>>
    BY <1>1, <1>3 DEF AtHome, HasTM
  <2> DEFINE m == TM[tm[t]][Part1(t).tm]
  <2>2. m \in DOMAIN QM /\ (m # Default => hQ[m] = home)
    <3>1. TM[tm[t]] \in [Slots -> DOMAIN QM]
      BY <1>2
    <3>2. m \in DOMAIN QM
      BY <1>4, <3>1
    <3>3. m # Default => hQ[m] = <<hT[tm[t]], Part1(t).tm>>
      BY <1>2, <1>3, <1>4 DEF Homes
    <3> QED
      BY <2>1, <3>2, <3>3
  <2>3. pc[t] = "copyQM" => qm[t] = Default
    BY <1>3 DEF AtHome
  <2>4. Default \in DOMAIN QM
    BY <1>2 DEF Default
  <2> QED
    BY <2>2, <2>3, <2>4 DEF CopyQM
<1>7. /\ DOMAIN QM' = 1 .. new /\ DOMAIN QM = 1 .. Len(QM) /\ Len(QM) \in Nat
      /\ \A x \in DOMAIN QM : QM'[x] = QM[x]
      /\ QM'[new] = QM[p]
  BY <1>2, <1>5, CopiedType
<1>8. PICK gQ : gQ = [x \in DOMAIN QM' |-> IF x \in DOMAIN QM THEN hQ[x] ELSE home]
  OBVIOUS
<1>9. (\A x \in DOMAIN QM : gQ[x] = hQ[x]) /\ gQ[new] = home
  BY <1>7, <1>8
<1>10. ASSUME NEW u \in Threads PROVE AtHome(u, hS, hT, gQ)'
  <2>1. CASE u # t
    <3>1. pc'[u] = pc[u] /\ sm'[u] = sm[u] /\ parts'[u] = parts[u] /\ tm'[u] = tm[u]
          /\ qm'[u] = qm[u] /\ old'[u] = old[u]
      BY <1>1, <1>2, <2>1 DEF CopyQM
    <3>2. AtHome(u, hS, hT, hQ)
      BY DEF Housed
    <3> QED
      BY <1>9, <3>1, <3>2, OthersAtHome
  <2>2. CASE u = t
    <3>1. /\ pc[t] = "copyQM of SM" => pc'[t] = "linkSM"
          /\ pc[t] = "copyQM of TM" => pc'[t] = "linkTM"
          /\ pc[t] = "copyQM" => pc'[t] = "linkQM"
          /\ qm'[t] = new
      BY <1>1, <1>2 DEF CopyQM
    <3>2. hS[sm[t]] = Part1(t).pm /\ hT[tm[t]] = <<Part1(t).pm, Part1(t).sm>>
      BY <1>1, <1>3 DEF AtHome, HasSM, HasTM
    <3> QED
      BY <1>1, <1>9, <2>2, <3>1, <3>2 DEF AtHome, HasSM, HasTM, HasQM
  <2> QED
    BY <2>1, <2>2
<1>11. ASSUME NEW q \in DOMAIN QM', NEW b \in SeenBytes, NEW x, NEW s, NEW m, gQ[q] = <<<<x, s>>, m>>
       PROVE  QM'[q][b] \subseteq AskedFor(x, s, m, b)
  <2>1. CASE q \in DOMAIN QM
    BY <1>3, <1>7, <1>9, <1>11, <2>1 DEF Homes
  <2>2. CASE q \notin DOMAIN QM
    <3>1. QM'[q] = QM[p] /\ gQ[q] = home
      BY <1>7, <1>9, <2>2
    <3>2. CASE p = Default
      BY <3>1, <3>2 DEF DefaultsNeverChange, NoBits
    <3>3. CASE p # Default
      <4>1. hQ[p] = <<<<x, s>>, m>>
        BY <1>5, <1>11, <3>1, <3>3
      <4> QED
        BY <1>3, <1>5, <3>1, <4>1 DEF Homes
    <3> QED
      BY <3>2, <3>3
  <2> QED
    BY <2>1, <2>2
<1>12. \A x \in DOMAIN TM' : \A m \in Slots : TM'[x][m] # Default => gQ[TM'[x][m]] = <<hT[x], m>>
  BY <1>1, <1>2, <1>3, <1>9 DEF Homes
<1>13. ASSUME NEW q, NEW s, NEW m, NEW b
       PROVE  AskedFor(q, s, m, b)' = AskedFor(q, s, m, b)
  BY <1>1 DEF AskedFor
<1>14. Homes(hS, hT, gQ)'
  BY <1>1, <1>3, <1>11, <1>12, <1>13 DEF Homes
<1> QED
  BY <1>10, <1>14 DEF Housed
\* A step that touches no page and no local pointer, by a thread that enters no part.
LEMMA OutsideHouse ==
    ASSUME TypeOK, AskedStay, NEW hS, NEW hT, NEW hQ, Housed(hS, hT, hQ), NEW t \in Threads,
           \/ Dump(t) \/ LockMark(t) \/ UnlockMark(t) \/ checkMemRead(t)
           \/ \E m \in Marks : recordMemWrite(t, m)
    PROVE  Housed(hS, hT, hQ)'
<1> USE DEF Goto, GoFrom
<1>1. PM' = PM /\ SM' = SM /\ TM' = TM /\ QM' = QM /\ sm' = sm /\ tm' = tm /\ qm' = qm /\ old' = old
  BY DEF Dump, initThread, TakePos, getFileBuf, printDataReg, StorePos, UnlockDump, LockMark,
         UnlockMark, checkMemRead, recordMemWrite, treeVars, localVars
<1>2. DOMAIN pc = Threads /\ parts \in [Threads -> Seq(Part)]
  BY DEF TypeOK, OtherTypeOK
<1>3. /\ \A u \in Threads : u # t => pc'[u] = pc[u] /\ parts'[u] = parts[u]
      /\ pc'[t] \in {"getFileBuf", "fits", "printDataReg", "unlockDump", "idle", "setSeen", "lockMark"}
  BY <1>2 DEF Dump, initThread, TakePos, getFileBuf, printDataReg, StorePos, UnlockDump, LockMark,
              UnlockMark, checkMemRead, recordMemWrite
<1>4. ASSUME NEW u \in Threads PROVE AtHome(u, hS, hT, hQ)'
  <2>1. CASE u # t
    BY <1>1, <1>3, <2>1, OthersAtHome DEF Housed
  <2>2. CASE u = t
    BY <1>3, <2>2 DEF AtHome, HasSM, HasTM, HasQM
  <2> QED
    BY <2>1, <2>2
<1> QED
  BY <1>1, <1>4, SameTreeHomes DEF Housed

LEMMA StepKeepsSeen ==
    ASSUME TypeOK, DefaultsNeverChange, Private, MarksTypeOK, SeenInv, [Next]_vars
    PROVE  SeenInv'
<1>1. AskedStay /\ AllBacked'
  BY AskedGrows, BackedInvariant DEF SeenInv
<1>2. PICK hS, hT, hQ : Housed(hS, hT, hQ)
  BY DEF SeenInv
<1>3. AllBacked
  BY DEF SeenInv
<1>4. CASE UNCHANGED vars
  <2>1. /\ PM' = PM /\ SM' = SM /\ TM' = TM /\ QM' = QM /\ sm' = sm /\ tm' = tm /\ qm' = qm
        /\ old' = old /\ pc' = pc /\ parts' = parts
    BY <1>4 DEF vars, treeVars, localVars
  <2>2. \A u \in Threads : AtHome(u, hS, hT, hQ)'
    BY <1>1, <1>2, <2>1, OthersAtHome DEF Housed
  <2>3. Housed(hS, hT, hQ)'
    BY <1>1, <1>2, <2>1, <2>2, SameTreeHomes DEF Housed
  <2> QED
    BY <1>1, <2>3 DEF SeenInv
<1>5. CASE Next
  <2>1. PICK t \in Threads : \/ Dump(t) \/ Mark(t) \/ checkMemRead(t)
                             \/ \E m \in Marks : recordMemWrite(t, m)
    BY <1>5 DEF Next
  <2>2. CASE \/ Dump(t) \/ LockMark(t) \/ UnlockMark(t) \/ checkMemRead(t)
             \/ \E m \in Marks : recordMemWrite(t, m)
    <3>1. Housed(hS, hT, hQ)'
      BY <1>1, <1>2, <2>2, OutsideHouse
    <3> QED
      BY <1>1, <3>1 DEF SeenInv
  <2>3. CASE checkSM(t) \/ checkTM(t) \/ checkQM(t) \/ returnQM(t) \/ LoadByte(t)
    <3>1. Housed(hS, hT, hQ)'
      BY <1>1, <1>2, <2>3, ChecksHouse
    <3> QED
      BY <1>1, <3>1 DEF SeenInv
  <2>4. CASE LinkSM(t) \/ LinkTM(t) \/ LinkQM(t)
    <3>1. Housed(hS, hT, hQ)'
      BY <1>1, <1>2, <2>4, LinksHouse
    <3> QED
      BY <1>1, <3>1 DEF SeenInv
  <2>5. CASE StoreByte(t)
    <3>1. Housed(hS, hT, hQ)'
      BY <1>1, <1>2, <1>3, <2>5, StoreHouse
    <3> QED
      BY <1>1, <3>1 DEF SeenInv
  <2>6. CASE CopySM(t)
    <3>1. \E gS : Housed(gS, hT, hQ)'
      BY <1>1, <1>2, <2>6, CopySMHouse
    <3> QED
      BY <1>1, <3>1 DEF SeenInv
  <2>7. CASE CopyTM(t)
    <3>1. \E gT : Housed(hS, gT, hQ)'
      BY <1>1, <1>2, <2>7, CopyTMHouse
    <3> QED
      BY <1>1, <3>1 DEF SeenInv
  <2>8. CASE CopyQM(t)
    <3>1. \E gQ : Housed(hS, hT, gQ)'
      BY <1>1, <1>2, <2>8, CopyQMHouse
    <3> QED
      BY <1>1, <3>1 DEF SeenInv
  <2> QED
    BY <2>1, <2>2, <2>3, <2>4, <2>5, <2>6, <2>7, <2>8 DEF Mark, getQMForWriting
<1> QED
  BY <1>4, <1>5

LEMMA InitSeen ==
    ASSUME Init
    PROVE  SeenInv
<1> USE DEF Init, Default
<1>1. SM = <<AllDefault>> /\ TM = <<AllDefault>> /\ QM = <<NoBits>>
  OBVIOUS
<1>2. DOMAIN SM = {1} /\ DOMAIN TM = {1} /\ DOMAIN QM = {1}
  BY <1>1
<1>3. SM[1] = AllDefault /\ TM[1] = AllDefault /\ QM[1] = NoBits
  BY <1>1
<1>4. AllBacked
  BY DEF AllBacked
<1>5. PICK hS, hT, hQ : hS = << >> /\ hT = << >> /\ hQ = << >>
  OBVIOUS
<1>6. Homes(hS, hT, hQ)
  <2>1. \A p \in Slots : PM[p] = 1
    BY DEF AllDefault
  <2>2. \A x \in DOMAIN SM : \A s \in Slots : SM[x][s] = 1
    BY <1>2, <1>3 DEF AllDefault
  <2>3. \A x \in DOMAIN TM : \A s \in Slots : TM[x][s] = 1
    BY <1>2, <1>3 DEF AllDefault
  <2>4. \A q \in DOMAIN QM : \A b \in SeenBytes : QM[q][b] = {}
    BY <1>2, <1>3 DEF NoBits
  <2> QED
    BY <2>1, <2>2, <2>3, <2>4 DEF Homes
<1>7. \A t \in Threads : AtHome(t, hS, hT, hQ)
  BY DEF AtHome, HasSM, HasTM, HasQM
<1> QED
  BY <1>4, <1>6, <1>7 DEF SeenInv, Housed

\* At home, the path of an address comes to bits asked for there.
LEMMA SeenAtHome ==
    ASSUME TypeOK, DefaultsNeverChange, MarksTypeOK, SeenInv
    PROVE  SeenOnlyIfMarked
<1>1. PICK hS, hT, hQ : Homes(hS, hT, hQ)
  BY DEF SeenInv, Housed
<1> SUFFICES ASSUME NEW p \in Slots, NEW s \in Slots, NEW m \in Slots, NEW b \in SeenBytes,
                    NEW bit \in Byte([pm |-> p, sm |-> s, tm |-> m, byte |-> b])
             PROVE  \E k \in DOMAIN marks : \E j \in DOMAIN marks[k].parts :
                       LET q == marks[k].parts[j]
                       IN  <<q.pm, q.sm, q.tm, q.byte>> = <<p, s, m, b>> /\ bit \in q.bits
  BY DEF SeenOnlyIfMarked
<1> DEFINE S == PM[p]
           T == SM[S][s]
           Q == TM[T][m]
<1>2. bit \in QM[Q][b]
  BY DEF Byte
<1>3. S \in DOMAIN SM /\ T \in DOMAIN TM /\ Q \in DOMAIN QM
  <2>1. S \in DOMAIN SM
    BY DEF TypeOK, TreeTypeOK
  <2>2. T \in DOMAIN TM
    BY <2>1, PagesType
  <2> QED
    BY <2>1, <2>2, PagesType
<1>4. Q # Default
  BY <1>2 DEF DefaultsNeverChange, NoBits
<1>5. T # Default
  BY <1>4 DEF DefaultsNeverChange, AllDefault
<1>6. S # Default
  BY <1>5 DEF DefaultsNeverChange, AllDefault
<1>7. hS[S] = p /\ hT[T] = <<hS[S], s>> /\ hQ[Q] = <<hT[T], m>>
  BY <1>1, <1>3, <1>4, <1>5, <1>6 DEF Homes
<1>8. hQ[Q] = <<<<p, s>>, m>>
  BY <1>7
<1>9. bit \in AskedFor(p, s, m, b)
  BY <1>1, <1>2, <1>3, <1>8 DEF Homes
<1> QED
  BY <1>9 DEF AskedFor

\* Marks are never made up, also after memory reads have freed the lock under its
\* holder: a bit set in the tree was asked for at the address that leads to it.
THEOREM SeenOnlyIfMarkedHolds == Spec => []SeenOnlyIfMarked
<1>1. Init => MarksTypeOK
  BY DEF Init, MarksTypeOK
<1>2. TypeOK /\ DefaultsNeverChange /\ Private /\ [Next]_vars
        => TypeOK' /\ DefaultsNeverChange' /\ Private'
  BY StepKeepsTree
<1>3. TypeOK /\ MarksTypeOK /\ [Next]_vars => MarksTypeOK'
  BY MarksTypeInvariant
<1>4. TypeOK /\ DefaultsNeverChange /\ Private /\ MarksTypeOK /\ SeenInv /\ [Next]_vars => SeenInv'
  BY StepKeepsSeen
<1>5. TypeOK /\ DefaultsNeverChange /\ MarksTypeOK /\ SeenInv => SeenOnlyIfMarked
  BY SeenAtHome
<1>6. Init => SeenInv
  BY InitSeen
<1> QED
  BY <1>1, <1>2, <1>3, <1>4, <1>5, <1>6, InitTree, PTL DEF Spec
=============================================================================
