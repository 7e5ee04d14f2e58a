------------------------- MODULE WmEventQueueProofs -------------------------
(***************************************************************************)
(* For a ring of any size: the types of the event queue's state, that an   *)
(* interrupted wm_pop_event never returns a torn or overwritten event,     *)
(* that the ring is a FIFO, and that a drag ends with its button.          *)
(***************************************************************************)
EXTENDS WmEventQueue, SequenceLemmas

(* The values q that PushReport threads through its pushes. *)
Ring == [slots : [Index -> Event], head : Index]

(* Advancing an index stays in the ring and moves it. *)
LEMMA SuccType ==
  ASSUME NEW i \in Index
  PROVE  Succ(i) \in Index
  BY QueueSizeAssumption DEF Index, Succ

(* The slot at the tail of a non-empty ring survives a push, and a push    *)
(* never makes a non-empty ring look empty.                                *)
Keeps(q, r) ==
  q.head # event_queue_tail =>
    /\ r.head # event_queue_tail
    /\ r.slots[event_queue_tail] = q.slots[event_queue_tail]

LEMMA PushKeeps ==
  ASSUME event_queue_tail \in Index, NEW q \in Ring, NEW e \in Event
  PROVE  Push(q, e) \in Ring /\ Keeps(q, Push(q, e))
  <1>1. Succ(q.head) \in Index
    BY SuccType DEF Ring
  <1>2. QED
    BY <1>1 DEF Push, Full, Keeps, Ring

LEMMA PushIfKeeps ==
  ASSUME event_queue_tail \in Index,
         NEW q \in Ring, NEW e \in Event, NEW cond \in BOOLEAN
  PROVE  PushIf(cond, q, e) \in Ring /\ Keeps(q, PushIf(cond, q, e))
  BY PushKeeps DEF PushIf, Keeps

LEMMA EvType ==
  ASSUME NEW t \in EventTypes, NEW b \in SUBSET Buttons
  PROVE  Ev(t, b) \in Event
  BY DEF Ev, Event

LEMMA ReportKeeps ==
  ASSUME event_queue_tail \in Index, NEW q \in Ring,
         NEW old \in SUBSET Buttons, NEW new \in SUBSET Buttons
  PROVE  PushReport(q, old, new) \in Ring /\ Keeps(q, PushReport(q, old, new))
  <1> DEFINE m == AfterMotion(q, new)
             p == PushIf(LeftPressed(old, new), m, Ev("PRESS", new))
             l == PushIf(LeftReleased(old, new), p, Ev("RELEASE", new))
             r == PushIf(RightPressed(old, new), l, Ev("PRESS", {"right"}))
  <1>1. /\ Ev("MOUSE", new) \in Event
        /\ Ev("PRESS", new) \in Event
        /\ Ev("RELEASE", new) \in Event
        /\ Ev("PRESS", {"right"}) \in Event
    BY EvType DEF EventTypes, Buttons
  <1>2. m \in Ring /\ Keeps(q, m)
    BY <1>1, PushKeeps DEF AfterMotion
  <1>3. /\ LeftPressed(old, new) \in BOOLEAN
        /\ LeftReleased(old, new) \in BOOLEAN
        /\ RightPressed(old, new) \in BOOLEAN
    BY DEF LeftPressed, LeftReleased, RightPressed
  <1> HIDE DEF m
  <1>4. p \in Ring /\ Keeps(m, p)
    BY <1>1, <1>2, <1>3, PushIfKeeps
  <1> HIDE DEF p
  <1>5. l \in Ring /\ Keeps(p, l)
    BY <1>1, <1>3, <1>4, PushIfKeeps
  <1> HIDE DEF l
  <1>6. r \in Ring /\ Keeps(l, r)
    BY <1>1, <1>3, <1>5, PushIfKeeps
  <1>7. Keeps(q, r)
    BY <1>2, <1>4, <1>5, <1>6 DEF Keeps
  <1>8. PushReport(q, old, new) = r
    BY DEF PushReport, AfterLeft, r, l, p, m
  <1>9. QED
    BY <1>6, <1>7, <1>8

----------------------------------------------------------------------------
(* The interrupt's effect, as the two invariants need it. *)
LEMMA MouseKeeps ==
  ASSUME TypeOK, NEW b \in SUBSET Buttons, wm_handle_mouse(b)
  PROVE  /\ event_queue' \in [Index -> Event]
         /\ event_queue_head' \in Index
         /\ event_queue_head # event_queue_tail =>
              /\ event_queue_head' # event_queue_tail
              /\ event_queue'[event_queue_tail] = event_queue[event_queue_tail]
  <1> DEFINE q0 == [slots |-> event_queue, head |-> event_queue_head]
             q  == PushReport(q0, mouse_buttons, b)
  <1>1. q0 \in Ring /\ q0.slots = event_queue /\ q0.head = event_queue_head
    BY DEF TypeOK, Ring
  <1>2. event_queue' = q.slots /\ event_queue_head' = q.head
    BY DEF wm_handle_mouse
  <1> HIDE DEF q0
  <1>3. q \in Ring /\ Keeps(q0, q)
    BY <1>1, ReportKeeps DEF TypeOK
  <1> HIDE DEF q
  <1>4. QED
    BY <1>1, <1>2, <1>3 DEF Ring, Keeps

(* The state of the queue and of its two users has its declared types. *)
THEOREM TypeCorrect == Spec => []TypeOK
  <1>1. Init => TypeOK
    <2>1. 0 \in Index
      BY QueueSizeAssumption DEF Index
    <2>2. Blank \in Event /\ {} \in SUBSET Buttons
      BY DEF Blank, Event, EventTypes
    <2>3. QED
      BY <2>1, <2>2 DEF Init, TypeOK
  <1>2. TypeOK /\ [Next]_vars => TypeOK'
    <2> SUFFICES ASSUME TypeOK, [Next]_vars
                 PROVE  TypeOK'
      OBVIOUS
    <2>1. ASSUME NEW b \in SUBSET Buttons, wm_handle_mouse(b)
          PROVE  TypeOK'
      <3>1. lostRelease' \in BOOLEAN
        BY <2>1 DEF wm_handle_mouse, TypeOK, Full
      <3>2. QED
        BY <2>1, <3>1, MouseKeeps DEF wm_handle_mouse, TypeOK
    <2>2. CASE PopEmpty \/ NextFrame \/ PopCheck
      BY <2>2 DEF PopEmpty, NextFrame, PopCheck, Goto, TypeOK, ring, producerOnly
    <2>3. CASE CopyType \/ CopyRest
      BY <2>3 DEF CopyType, CopyRest, Goto, TypeOK, Event, ring, producerOnly
    <2>4. CASE AdvanceTail
      BY <2>4, SuccType DEF AdvanceTail, Goto, TypeOK, producerOnly
    <2>5. CASE HandleMotion \/ HandlePress \/ HandleRelease
      BY <2>5 DEF HandleMotion, HandlePress, HandleRelease, Goto, TypeOK,
                  Event, ring, producerOnly
    <2>6. CASE UNCHANGED vars
      BY <2>6 DEF vars, TypeOK
    <2>7. QED
      BY <2>1, <2>2, <2>3, <2>4, <2>5, <2>6 DEF Next, Mouse, Task
  <1>3. QED
    BY <1>1, <1>2, PTL DEF Spec

(* wm_pop_event returns the oldest accepted event, whole, no matter how    *)
(* many mouse interrupts fall between its accesses and how full the ring   *)
(* is: the full test of wm_push_event keeps producers off the tail slot.   *)
THEOREM PopNeverTorn == Spec => []PoppedIntact
  <1>1. Init => PoppedIntact
    BY DEF Init, PoppedIntact, Popping
  <1>2. TypeOK /\ PoppedIntact /\ [Next]_vars => PoppedIntact'
    <2> SUFFICES ASSUME TypeOK, PoppedIntact, [Next]_vars
                 PROVE  PoppedIntact'
      OBVIOUS
    <2>1. ASSUME NEW b \in SUBSET Buttons, wm_handle_mouse(b)
          PROVE  PoppedIntact'
      <3>1. UNCHANGED <<event_queue_tail, pc, event>>
        BY <2>1 DEF wm_handle_mouse
      <3>2. QED
        BY <2>1, <3>1, MouseKeeps DEF PoppedIntact, Popping
    <2>2. CASE PopEmpty \/ NextFrame \/ PopCheck \/ AdvanceTail
      BY <2>2 DEF PopEmpty, NextFrame, PopCheck, AdvanceTail, Goto,
                  PoppedIntact, Popping, ring
    <2>3. CASE CopyType \/ CopyRest
      BY <2>3 DEF CopyType, CopyRest, Goto, PoppedIntact, Popping, TypeOK,
                  Event, ring
    <2>4. CASE HandleMotion \/ HandlePress \/ HandleRelease
      BY <2>4 DEF HandleMotion, HandlePress, HandleRelease, Goto,
                  PoppedIntact, Popping
    <2>5. CASE UNCHANGED vars
      BY <2>5 DEF vars, PoppedIntact, Popping
    <2>6. QED
      BY <2>1, <2>2, <2>3, <2>4, <2>5 DEF Next, Mouse, Task
  <1>3. QED
    BY <1>1, <1>2, TypeCorrect, PTL DEF Spec

----------------------------------------------------------------------------
(* The ring as a sequence.  Put is what a push does to it. *)
Contents(q) == RingSeq(q.slots, event_queue_tail, q.head, QueueSize)
Room(s) == Len(s) < QueueSize - 1
Put(s, e) == IF Room(s) THEN Append(s, e) ELSE s
PutIf(cond, s, e) == IF cond THEN Put(s, e) ELSE s
Fits(s) == s \in Seq(Event) /\ Len(s) <= QueueSize - 1

(* A push puts its event behind those that wait, if there is room. *)
LEMMA PushPuts ==
  ASSUME event_queue_tail \in Index, NEW q \in Ring, NEW e \in Event
  PROVE  /\ Contents(Push(q, e)) = Put(Contents(q), e)
         /\ Fits(Contents(q))
         /\ Full(q) <=> ~Room(Contents(q))
<1> DEFINE n == QueueSize
           t == event_queue_tail
           h == q.head
           slots == q.slots
<1>1. /\ n \in Nat \ {0} /\ t \in 0 .. n - 1 /\ h \in 0 .. n - 1
      /\ slots \in [0 .. n - 1 -> Event] /\ Succ(h) = After(h, n)
  BY QueueSizeAssumption DEF Index, Ring, Succ, After, Turn
<1>2. Full(q) <=> After(h, n) = t
  BY <1>1 DEF Full
<1>3. Contents(q) = RingSeq(slots, t, h, n)
  BY DEF Contents
<1>4. ~Full(q) => Contents(Push(q, e)) = RingSeq([slots EXCEPT ![h] = e], t, After(h, n), n)
  BY <1>1 DEF Contents, Push
<1>5. Full(q) => Contents(Push(q, e)) = Contents(q)
  BY DEF Contents, Push
<1> HIDE DEF n, t, h, slots
<1>6. /\ Len(RingSeq(slots, t, h, n)) = Distance(t, h, n)
      /\ Distance(t, h, n) \in 0 .. n - 1
      /\ Distance(t, h, n) = n - 1 <=> After(h, n) = t
  <2>1. Len(RingSeq(slots, t, h, n)) = Distance(t, h, n)
    BY <1>1, RingSeqLen
  <2>2. /\ Distance(t, h, n) \in 0 .. n - 1
        /\ Distance(t, h, n) = n - 1 <=> After(h, n) = t
    BY <1>1, RingLength, ZenonT(40)
  <2> QED BY <2>1, <2>2
<1>7. RingSeq(slots, t, h, n) \in Seq(Event)
  BY <1>1, RingSeqIs
<1>8. After(h, n) # t => WriteAppends(slots, t, h, n, e)
  BY <1>1, RingAppend
<1>9. Fits(Contents(q)) /\ (Full(q) <=> ~Room(Contents(q)))
  BY <1>1, <1>2, <1>3, <1>6, <1>7 DEF Fits, Room, n
<1>10. Contents(Push(q, e)) = Put(Contents(q), e)
  BY <1>2, <1>3, <1>4, <1>5, <1>8, <1>9 DEF Put, WriteAppends
<1> QED BY <1>9, <1>10

(* Put keeps a sequence of events that fits. *)
LEMMA PutFits ==
  ASSUME NEW s, Fits(s), NEW e \in Event
  PROVE  Fits(Put(s, e))
BY QueueSizeAssumption DEF Fits, Put, Room

(* What a report does to the sequence of waiting events. *)
AfterReport(s, old, new) ==
  PutIf(RightPressed(old, new),
    PutIf(LeftReleased(old, new),
      PutIf(LeftPressed(old, new), Put(s, Ev("MOUSE", new)), Ev("PRESS", new)),
      Ev("RELEASE", new)),
    Ev("PRESS", {"right"}))

LEMMA ReportPuts ==
  ASSUME event_queue_tail \in Index, NEW q \in Ring,
         NEW old \in SUBSET Buttons, NEW new \in SUBSET Buttons
  PROVE  /\ Contents(PushReport(q, old, new)) = AfterReport(Contents(q), old, new)
         /\ Full(AfterMotion(q, new)) <=> ~Room(Put(Contents(q), Ev("MOUSE", new)))
<1> DEFINE m == AfterMotion(q, new)
           p == PushIf(LeftPressed(old, new), m, Ev("PRESS", new))
           l == PushIf(LeftReleased(old, new), p, Ev("RELEASE", new))
           r == PushIf(RightPressed(old, new), l, Ev("PRESS", {"right"}))
<1>1. /\ Ev("MOUSE", new) \in Event
      /\ Ev("PRESS", new) \in Event
      /\ Ev("RELEASE", new) \in Event
      /\ Ev("PRESS", {"right"}) \in Event
  BY EvType DEF EventTypes, Buttons
<1>2. ASSUME NEW x \in Ring, NEW e \in Event, NEW c \in BOOLEAN
      PROVE  PushIf(c, x, e) \in Ring /\ Contents(PushIf(c, x, e)) = PutIf(c, Contents(x), e)
  BY <1>2, PushPuts, PushIfKeeps DEF PushIf, PutIf
<1>3. /\ LeftPressed(old, new) \in BOOLEAN
      /\ LeftReleased(old, new) \in BOOLEAN
      /\ RightPressed(old, new) \in BOOLEAN
  BY DEF LeftPressed, LeftReleased, RightPressed
<1>4. m \in Ring /\ Contents(m) = Put(Contents(q), Ev("MOUSE", new))
  BY <1>1, PushPuts, PushKeeps DEF AfterMotion
<1>5. Full(m) <=> ~Room(Contents(m))
  BY <1>1, <1>4, PushPuts
<1> HIDE DEF m
<1>6. p \in Ring /\ Contents(p) = PutIf(LeftPressed(old, new), Contents(m), Ev("PRESS", new))
  BY <1>1, <1>2, <1>3, <1>4
<1> HIDE DEF p
<1>7. l \in Ring /\ Contents(l) = PutIf(LeftReleased(old, new), Contents(p), Ev("RELEASE", new))
  BY <1>1, <1>2, <1>3, <1>6
<1> HIDE DEF l
<1>8. Contents(r) = PutIf(RightPressed(old, new), Contents(l), Ev("PRESS", {"right"}))
  BY <1>1, <1>2, <1>3, <1>7
<1>9. PushReport(q, old, new) = r
  BY DEF PushReport, AfterLeft, r, l, p, m
<1>10. Contents(r) = AfterReport(Contents(q), old, new)
  BY <1>4, <1>6, <1>7, <1>8 DEF AfterReport
<1> QED BY <1>4, <1>5, <1>9, <1>10 DEF m

(* The two steps that change what waits, and the steps that do not. *)
LEMMA WaitingIs ==
  ASSUME TypeOK
  PROVE  /\ Fits(Waiting)
         /\ Waiting = RingSeq(event_queue, event_queue_tail, event_queue_head, QueueSize)
<1> DEFINE q0 == [slots |-> event_queue, head |-> event_queue_head]
<1>1. q0 \in Ring /\ event_queue_tail \in Index /\ Blank \in Event
  BY DEF TypeOK, Ring, Blank, Event, EventTypes
<1>2. Waiting = RingSeq(event_queue, event_queue_tail, event_queue_head, QueueSize)
  BY DEF Waiting, RingSeq, RingRun, Distance, RingPlace, Turn
<1>3. Contents(q0) = RingSeq(event_queue, event_queue_tail, event_queue_head, QueueSize)
  BY DEF Contents
<1> HIDE DEF q0
<1>4. Fits(Contents(q0))
  BY <1>1, PushPuts
<1> QED BY <1>2, <1>3, <1>4

LEMMA MouseReports ==
  ASSUME TypeOK, NEW b \in SUBSET Buttons, wm_handle_mouse(b)
  PROVE  /\ Waiting' = AfterReport(Waiting, mouse_buttons, b)
         /\ lostRelease' = IF LeftReleased(mouse_buttons, b)
                             THEN ~Room(Put(Waiting, Ev("MOUSE", b)))
                             ELSE lostRelease
<1> DEFINE q0 == [slots |-> event_queue, head |-> event_queue_head]
           q  == PushReport(q0, mouse_buttons, b)
<1>1. q0 \in Ring /\ event_queue_tail \in Index
  BY DEF TypeOK, Ring
<1>2. /\ event_queue' = q.slots /\ event_queue_head' = q.head
      /\ UNCHANGED event_queue_tail
      /\ lostRelease' = IF LeftReleased(mouse_buttons, b)
                          THEN Full(AfterMotion(q0, b)) ELSE lostRelease
  BY DEF wm_handle_mouse
<1>3. Contents(q0) = Waiting
  BY WaitingIs DEF Contents
<1>4. Waiting' = Contents(q)
  <2>1. Waiting' = RingSeq(event_queue', event_queue_tail', event_queue_head', QueueSize)
    BY DEF Waiting, RingSeq, RingRun, Distance, RingPlace, Turn
  <2> HIDE DEF q
  <2> QED BY <1>2, <2>1 DEF Contents
<1> HIDE DEF q0
<1>5. /\ Contents(q) = AfterReport(Contents(q0), mouse_buttons, b)
      /\ Full(AfterMotion(q0, b)) <=> ~Room(Put(Contents(q0), Ev("MOUSE", b)))
  BY <1>1, ReportPuts DEF TypeOK
<1>6. Full(AfterMotion(q0, b)) \in BOOLEAN /\ Room(Put(Waiting, Ev("MOUSE", b))) \in BOOLEAN
  BY DEF Full, Room
<1> HIDE DEF q
<1> QED BY <1>2, <1>3, <1>4, <1>5, <1>6

LEMMA PopTakes ==
  ASSUME TypeOK, PoppedIntact, AdvanceTail
  PROVE  Waiting # <<>> /\ event = Head(Waiting) /\ Waiting' = Tail(Waiting)
<1> DEFINE n == QueueSize
           t == event_queue_tail
           h == event_queue_head
           slots == event_queue
<1>1. /\ n \in Nat \ {0} /\ t \in 0 .. n - 1 /\ h \in 0 .. n - 1
      /\ slots \in [0 .. n - 1 -> Event]
  BY QueueSizeAssumption DEF Index, TypeOK
<1>2. h # t /\ event = slots[t]
  BY DEF AdvanceTail, Goto, PoppedIntact, Popping
<1>3. Waiting = RingSeq(slots, t, h, n)
  BY WaitingIs
<1>4. Waiting' = RingSeq(slots, After(t, n), h, n)
  <2>1. Waiting' = RingSeq(event_queue', event_queue_tail', event_queue_head', QueueSize)
    BY DEF Waiting, RingSeq, RingRun, Distance, RingPlace, Turn
  <2> QED BY <2>1 DEF AdvanceTail, Succ, After, Turn
<1> HIDE DEF n, t, h, slots
<1>5. /\ RingSeq(slots, t, h, n) # <<>> /\ Head(RingSeq(slots, t, h, n)) = slots[t]
      /\ RingSeq(slots, After(t, n), h, n) = Tail(RingSeq(slots, t, h, n))
  BY <1>1, <1>2, RingTail
<1> QED BY <1>2, <1>3, <1>4, <1>5

LEMMA OthersLeave ==
  ASSUME PopEmpty \/ NextFrame \/ PopCheck \/ CopyType \/ CopyRest
         \/ HandleMotion \/ HandlePress \/ HandleRelease \/ UNCHANGED vars
  PROVE  Waiting' = Waiting /\ UNCHANGED <<mouse_buttons, lostRelease>>
<1>1. UNCHANGED ring /\ UNCHANGED producerOnly
  BY DEF PopEmpty, NextFrame, PopCheck, CopyType, CopyRest, HandleMotion, HandlePress,
         HandleRelease, vars, ring, producerOnly
<1> QED BY <1>1 DEF Waiting, ring, producerOnly

----------------------------------------------------------------------------
(* The ring implements the FIFO of EventFifo. *)
Some(cond, e) == IF cond THEN <<e>> ELSE <<>>

(* Putting an event is adding it to what waits and cutting what is too     *)
(* long.                                                                   *)
LEMMA PutCuts ==
  ASSUME NEW s, Fits(s), NEW e \in Event, NEW cond \in BOOLEAN
  PROVE  /\ PutIf(cond, s, e) = Cut(s \o Some(cond, e), QueueSize - 1)
         /\ Fits(PutIf(cond, s, e))
<1> DEFINE n == QueueSize - 1
<1>1. n \in Nat /\ s \in Seq(Event) /\ Len(s) \in 0 .. n /\ (Room(s) <=> Len(s) < n)
  BY QueueSizeAssumption DEF Fits, Room
<1>2. Fits(PutIf(cond, s, e))
  BY PutFits DEF PutIf
<1> HIDE DEF n
<1>3. Cut(s, n) = s
  BY <1>1, CutIs
<1>4. CASE ~cond
  <2>1. s \o <<>> = s
    BY <1>1
  <2> QED BY <1>3, <1>4, <2>1 DEF PutIf, Some, n
<1>5. CASE cond
  <2>1. s \o <<e>> = Append(s, e) /\ Len(Append(s, e)) = Len(s) + 1 /\ Append(s, e) \in Seq(Event)
    BY <1>1
  <2>2. CASE Room(s)
    <3>1. Len(Append(s, e)) <= n
      BY <1>1, <2>1, <2>2
    <3>2. Cut(Append(s, e), n) = Append(s, e)
      BY <1>1, <2>1, <3>1, CutIs
    <3>3. PutIf(cond, s, e) = Append(s, e) /\ s \o Some(cond, e) = Append(s, e)
      BY <1>5, <2>1, <2>2 DEF PutIf, Put, Some
    <3>4. PutIf(cond, s, e) = Cut(s \o Some(cond, e), n)
      BY <3>2, <3>3
    <3> QED BY <1>2, <3>4 DEF n
  <2>3. CASE ~Room(s)
    <3>1. ~(Len(Append(s, e)) <= n) /\ Len(s) = n
      BY <1>1, <2>1, <2>3
    <3>2. Cut(Append(s, e), n) \in Seq(Event) /\ Len(Cut(Append(s, e), n)) = n
          /\ \A i \in 1 .. n : Cut(Append(s, e), n)[i] = Append(s, e)[i]
      BY <1>1, <2>1, <3>1, CutIs
    <3>3. \A i \in 1 .. n : Append(s, e)[i] = s[i]
      BY <1>1, <3>1
    <3>4. Cut(Append(s, e), n) = s
      BY <1>1, <3>1, <3>2, <3>3
    <3> QED BY <1>5, <2>1, <2>3, <3>4 DEF PutIf, Put, Some, n
  <2> QED BY <2>2, <2>3
<1> QED BY <1>2, <1>4, <1>5 DEF n

(* A report puts the batch of EventFifo. *)
LEMMA ReportIsBatch ==
  ASSUME NEW s, Fits(s), NEW old \in SUBSET Buttons, NEW new \in SUBSET Buttons
  PROVE  AfterReport(s, old, new) = Fifo!Prefix(s \o Fifo!Batch(old, new), QueueSize - 1)
<1> DEFINE n == QueueSize - 1
           a1 == Some(TRUE, Ev("MOUSE", new))
           a2 == Some(LeftPressed(old, new), Ev("PRESS", new))
           a3 == Some(LeftReleased(old, new), Ev("RELEASE", new))
           a4 == Some(RightPressed(old, new), Ev("PRESS", {"right"}))
           s1 == PutIf(TRUE, s, Ev("MOUSE", new))
           s2 == PutIf(LeftPressed(old, new), s1, Ev("PRESS", new))
           s3 == PutIf(LeftReleased(old, new), s2, Ev("RELEASE", new))
           s4 == PutIf(RightPressed(old, new), s3, Ev("PRESS", {"right"}))
<1>1. /\ Ev("MOUSE", new) \in Event
      /\ Ev("PRESS", new) \in Event
      /\ Ev("RELEASE", new) \in Event
      /\ Ev("PRESS", {"right"}) \in Event
  BY EvType DEF EventTypes, Buttons
<1>2. /\ LeftPressed(old, new) \in BOOLEAN
      /\ LeftReleased(old, new) \in BOOLEAN
      /\ RightPressed(old, new) \in BOOLEAN
  BY DEF LeftPressed, LeftReleased, RightPressed
<1>3. /\ a1 \in Seq(Event) /\ a2 \in Seq(Event) /\ a3 \in Seq(Event) /\ a4 \in Seq(Event)
      /\ s \in Seq(Event) /\ n \in Nat
  BY <1>1, QueueSizeAssumption DEF Some, Fits
<1>4. s1 = Cut(s \o a1, n) /\ Fits(s1)
  BY <1>1, PutCuts
<1>5. s2 = Cut(s1 \o a2, n) /\ Fits(s2)
  <2> HIDE DEF s1
  <2> QED BY <1>1, <1>2, <1>4, PutCuts
<1>6. s3 = Cut(s2 \o a3, n) /\ Fits(s3)
  <2> HIDE DEF s2
  <2> QED BY <1>1, <1>2, <1>5, PutCuts
<1>7. s4 = Cut(s3 \o a4, n)
  <2> HIDE DEF s3
  <2> QED BY <1>1, <1>2, <1>6, PutCuts
<1>8. AfterReport(s, old, new) = s4
  BY DEF AfterReport, PutIf
<1>9. Fifo!Batch(old, new) = ((a1 \o a2) \o a3) \o a4
  BY DEF Fifo!Batch, Fifo!Edge, Fifo!Happened, Some, Ev, LeftPressed, LeftReleased, RightPressed
<1>10. \A x : Fifo!Prefix(x, n) = Cut(x, n)
  BY DEF Fifo!Prefix, Cut
<1> HIDE DEF n, a1, a2, a3, a4, s1, s2, s3, s4
<1> DEFINE b1 == s \o a1
           b2 == b1 \o a2
           b3 == b2 \o a3
           b4 == b3 \o a4
<1>11. b1 \in Seq(Event) /\ b2 \in Seq(Event) /\ b3 \in Seq(Event)
  BY <1>3
<1> HIDE DEF b1, b2, b3
<1>12. s2 = Cut(b2, n)
  BY <1>3, <1>4, <1>5, <1>11, CutConcat DEF b1, b2
<1>13. s3 = Cut(b3, n)
  BY <1>3, <1>6, <1>11, <1>12, CutConcat DEF b3
<1>14. s4 = Cut(b4, n)
  BY <1>3, <1>7, <1>11, <1>13, CutConcat
<1>15. b4 = s \o (((a1 \o a2) \o a3) \o a4)
  <2>1. a1 \o a2 \in Seq(Event) /\ (a1 \o a2) \o a3 \in Seq(Event)
    BY <1>3
  <2>2. b2 = s \o (a1 \o a2)
    <3>1. b2 = (s \o a1) \o a2
      BY DEF b1, b2
    <3>2. s \in Seq(Event) /\ a1 \in Seq(Event) /\ a2 \in Seq(Event)
      BY <1>3
    <3>3. (s \o a1) \o a2 = s \o (a1 \o a2)
      BY <3>2, ConcatAssociative
    <3> QED BY <3>1, <3>3, Zenon
  <2>3. b3 = s \o ((a1 \o a2) \o a3)
    <3> DEFINE a12 == a1 \o a2
    <3>1. a12 \in Seq(Event) /\ b3 = (s \o a12) \o a3
      BY <2>1, <2>2 DEF b3
    <3> HIDE DEF a12
    <3>2. b3 = s \o (a12 \o a3)
      BY <1>3, <3>1, ConcatAssociative, SMTT(30)
    <3> QED BY <3>2 DEF a12
  <2> DEFINE a123 == (a1 \o a2) \o a3
  <2>4. a123 \in Seq(Event) /\ b4 = (s \o a123) \o a4
    BY <2>1, <2>3
  <2> HIDE DEF a123
  <2>5. b4 = s \o (a123 \o a4)
    <3>1. (s \o a123) \o a4 = s \o (a123 \o a4)
      BY <1>3, <2>4, ConcatAssociative, SMTT(30)
    <3> QED BY <2>4, <3>1, Zenon
  <2> QED BY <2>5 DEF a123
<1> QED BY <1>8, <1>9, <1>10, <1>14, <1>15 DEF n

(* No interleaving of pushes and interrupted pops loses, duplicates,       *)
(* reorders or alters an accepted event: every step of the ring and its    *)
(* users is a report, a take or a finish of the FIFO, or changes nothing   *)
(* of it.                                                                  *)
THEOREM RingImplementsFifo == Spec => ImplementsFifo
<1>1. Init => Fifo!FifoInit
  <2> SUFFICES ASSUME Init PROVE Fifo!FifoInit
    OBVIOUS
  <2>1. TypeOK
    <3>1. 0 \in Index /\ Blank \in Event
      BY QueueSizeAssumption DEF Index, Blank, Event, EventTypes
    <3> QED BY <3>1 DEF Init, TypeOK
  <2>2. Len(Waiting) = Distance(event_queue_tail, event_queue_head, QueueSize)
        /\ Waiting \in Seq(Event)
    BY <2>1, WaitingIs, RingSeqLen, QueueSizeAssumption DEF TypeOK, Index, Fits
  <2>3. Distance(event_queue_tail, event_queue_head, QueueSize) = 0
    BY <2>1, RingLength, QueueSizeAssumption DEF Init, TypeOK, Index
  <2> QED BY <2>2, <2>3 DEF Init, Fifo!FifoInit
<1>2. TypeOK /\ PoppedIntact /\ [Next]_vars => [Fifo!FifoNext]_(Fifo!absVars)
  <2> SUFFICES ASSUME TypeOK, PoppedIntact, [Next]_vars
               PROVE  [Fifo!FifoNext]_(Fifo!absVars)
    OBVIOUS
  <2>1. ASSUME NEW b \in SUBSET Buttons, wm_handle_mouse(b) PROVE Fifo!Report
    <3>1. Waiting' = Fifo!Prefix(Waiting \o Fifo!Batch(mouse_buttons, b), QueueSize - 1)
      BY <2>1, MouseReports, WaitingIs, ReportIsBatch DEF TypeOK
    <3>2. mouse_buttons' = b /\ UNCHANGED <<pc, event>>
      BY <2>1 DEF wm_handle_mouse
    <3> QED BY <3>1, <3>2 DEF Fifo!Report, Buttons
  <2>2. CASE AdvanceTail
    <3>1. event # None
      BY NoneAssumption DEF TypeOK
    <3> QED BY <2>2, <3>1, PopTakes DEF AdvanceTail, Goto, producerOnly, Fifo!FifoNext, Fifo!Take
  <2>3. CASE HandleMotion \/ HandlePress \/ HandleRelease
    <3>1. event # None
      BY NoneAssumption DEF TypeOK
    <3>2. Waiting' = Waiting /\ UNCHANGED mouse_buttons
      BY <2>3, OthersLeave
    <3> QED BY <2>3, <3>1, <3>2
            DEF HandleMotion, HandlePress, HandleRelease, Goto, Fifo!FifoNext, Fifo!Finish
  <2>4. CASE PopEmpty \/ NextFrame \/ PopCheck \/ CopyType \/ CopyRest \/ UNCHANGED vars
    <3>1. Waiting' = Waiting /\ UNCHANGED mouse_buttons
      BY <2>4, OthersLeave
    <3>2. UNCHANGED (IF pc = "handle" THEN event ELSE None)
      BY <2>4 DEF PopEmpty, NextFrame, PopCheck, CopyType, CopyRest, Goto, vars
    <3> QED BY <3>1, <3>2 DEF Fifo!absVars
  <2> QED BY <2>1, <2>2, <2>3, <2>4 DEF Next, Mouse, Task, Fifo!FifoNext
<1> QED BY <1>1, <1>2, TypeCorrect, PopNeverTorn, PTL DEF Spec, ImplementsFifo, Fifo!FifoSpec

----------------------------------------------------------------------------
(* A left drag, or a press of the left button that waits, is answered for  *)
(* when the button is held, its release was dropped, or a release waits    *)
(* behind it.                                                              *)
Release(e) == e.type = "RELEASE"
LeftPress(e) == e.type = "PRESS" /\ "left" \in e.buttons
ReleaseAfter(s, i) == \E j \in i + 1 .. Len(s) : Release(s[j])
Answered(s) == \A i \in 1 .. Len(s) : LeftPress(s[i]) => ReleaseAfter(s, i)
Held == "left" \in mouse_buttons \/ lostRelease

DragInv ==
  \/ Held
  \/ /\ Answered(Waiting)
     /\ pc = "handle" /\ LeftPress(event) => ReleaseAfter(Waiting, 0)
     /\ dragStart # None /\ "left" \in dragStart =>
          (pc = "handle" /\ Release(event)) \/ ReleaseAfter(Waiting, 0)

(* Releases stay where they are when an event is added. *)
LEMMA AppendAnswered ==
  ASSUME NEW s \in Seq(Event), NEW e \in Event
  PROVE  /\ ReleaseAfter(s, 0) => ReleaseAfter(Append(s, e), 0)
         /\ Answered(s) /\ ~LeftPress(e) => Answered(Append(s, e))
         /\ Release(e) => Answered(Append(s, e)) /\ ReleaseAfter(Append(s, e), 0)
<1> DEFINE u == Append(s, e)
           n == Len(s)
<1>1. /\ n \in Nat /\ Len(u) = n + 1 /\ u[n + 1] = e
      /\ \A i \in 1 .. n : u[i] = s[i]
  OBVIOUS
<1> HIDE DEF u
<1>2. \A i \in 1 .. n + 1 : i \in 1 .. n \/ i = n + 1
  BY <1>1
<1>3. ASSUME NEW i \in 0 .. n, ReleaseAfter(s, i) PROVE ReleaseAfter(u, i)
  <2>1. PICK j \in i + 1 .. n : Release(s[j])
    BY <1>3 DEF ReleaseAfter
  <2>2. j \in i + 1 .. n + 1 /\ j \in 1 .. n
    BY <1>1, <2>1
  <2>3. Release(u[j])
    BY <1>1, <2>1, <2>2
  <2> QED BY <1>1, <2>2, <2>3 DEF ReleaseAfter
<1>4. 0 \in 0 .. n /\ \A i \in 1 .. n : i \in 0 .. n
  BY <1>1
<1>5. ASSUME Answered(s), ~LeftPress(e) PROVE Answered(u)
  BY <1>1, <1>2, <1>3, <1>4, <1>5 DEF Answered
<1>6. ASSUME Release(e) PROVE Answered(u) /\ ReleaseAfter(u, 0)
  <2>1. ~LeftPress(e)
    BY <1>6 DEF Release, LeftPress
  <2>2. \A i \in 0 .. n : n + 1 \in i + 1 .. n + 1
    BY <1>1
  <2>3. \A i \in 0 .. n : ReleaseAfter(u, i)
    BY <1>1, <1>6, <2>2 DEF ReleaseAfter
  <2> QED BY <1>1, <1>2, <1>4, <2>1, <2>3 DEF Answered
<1> QED BY <1>3, <1>4, <1>5, <1>6 DEF u

LEMMA PutAnswered ==
  ASSUME NEW s, Fits(s), NEW e \in Event, NEW cond \in BOOLEAN, cond => ~LeftPress(e)
  PROVE  /\ Fits(PutIf(cond, s, e))
         /\ ReleaseAfter(s, 0) => ReleaseAfter(PutIf(cond, s, e), 0)
         /\ Answered(s) => Answered(PutIf(cond, s, e))
<1>1. s \in Seq(Event)
  BY DEF Fits
<1>2. Fits(PutIf(cond, s, e))
  BY PutFits DEF PutIf
<1>3. PutIf(cond, s, e) = s \/ (cond /\ PutIf(cond, s, e) = Append(s, e))
  BY DEF PutIf, Put
<1> QED BY <1>1, <1>2, <1>3, AppendAnswered

(* Taking the head leaves the releases behind it. *)
LEMMA TailAnswered ==
  ASSUME NEW s \in Seq(Event), s # <<>>, Answered(s)
  PROVE  /\ Answered(Tail(s))
         /\ LeftPress(Head(s)) => ReleaseAfter(Tail(s), 0)
         /\ ReleaseAfter(s, 0) => Release(Head(s)) \/ ReleaseAfter(Tail(s), 0)
<1> DEFINE u == Tail(s)
           n == Len(s)
<1>1. /\ n \in Nat \ {0} /\ Len(u) = n - 1 /\ Head(s) = s[1]
      /\ \A i \in 1 .. n - 1 : u[i] = s[i + 1]
  OBVIOUS
<1> HIDE DEF u
<1>2. ASSUME NEW i \in 1 .. n, ReleaseAfter(s, i) PROVE ReleaseAfter(u, i - 1)
  <2>1. PICK j \in i + 1 .. n : Release(s[j])
    BY <1>2 DEF ReleaseAfter
  <2>2. j - 1 \in (i - 1) + 1 .. n - 1 /\ j - 1 \in 1 .. n - 1 /\ (j - 1) + 1 = j
    BY <1>1, <2>1
  <2>3. Release(u[j - 1])
    BY <1>1, <2>1, <2>2
  <2> QED BY <1>1, <2>2, <2>3 DEF ReleaseAfter
<1>3. Answered(u)
  <2> SUFFICES ASSUME NEW i \in 1 .. Len(u), LeftPress(u[i]) PROVE ReleaseAfter(u, i)
    BY DEF Answered
  <2>1. i + 1 \in 1 .. n /\ u[i] = s[i + 1] /\ (i + 1) - 1 = i
    BY <1>1
  <2> QED BY <1>2, <2>1 DEF Answered
<1>4. ASSUME LeftPress(Head(s)) PROVE ReleaseAfter(u, 0)
  <2>1. 1 \in 1 .. n /\ 1 - 1 = 0
    BY <1>1
  <2>2. ReleaseAfter(s, 1)
    BY <1>1, <1>4, <2>1 DEF Answered
  <2>3. ReleaseAfter(u, 1 - 1)
    BY <1>2, <2>1, <2>2
  <2> QED BY <2>1, <2>3
<1>5. ASSUME ReleaseAfter(s, 0), ~Release(Head(s)) PROVE ReleaseAfter(u, 0)
  <2>1. PICK j \in 0 + 1 .. n : Release(s[j])
    BY <1>5 DEF ReleaseAfter
  <2>2. j # 1
    BY <1>1, <1>5, <2>1
  <2>3. j \in 1 + 1 .. n /\ 1 \in 1 .. n /\ 1 - 1 = 0
    BY <1>1, <2>1, <2>2
  <2>4. ReleaseAfter(s, 1)
    BY <2>1, <2>3 DEF ReleaseAfter
  <2>5. ReleaseAfter(u, 1 - 1)
    BY <1>2, <2>3, <2>4
  <2> QED BY <2>3, <2>5
<1> QED BY <1>3, <1>4, <1>5 DEF u

(* A report whose release is not dropped answers every left press before   *)
(* it; one without a release adds no left press unless the button is held. *)
LEMMA MouseAnswers ==
  ASSUME TypeOK, NEW b \in SUBSET Buttons, wm_handle_mouse(b), ~Held'
  PROVE  \/ Answered(Waiting') /\ ReleaseAfter(Waiting', 0)
         \/ /\ ~Held
            /\ Answered(Waiting) => Answered(Waiting')
            /\ ReleaseAfter(Waiting, 0) => ReleaseAfter(Waiting', 0)
<1> DEFINE old == mouse_buttons
           m == Ev("MOUSE", b)
           r == Ev("RELEASE", b)
           p == Ev("PRESS", {"right"})
           s1 == PutIf(TRUE, Waiting, m)
           s3 == PutIf(LeftReleased(old, b), s1, r)
           s4 == PutIf(RightPressed(old, b), s3, p)
<1>1. /\ m \in Event /\ r \in Event /\ p \in Event
      /\ ~LeftPress(m) /\ ~LeftPress(r) /\ ~LeftPress(p) /\ Release(r)
  BY EvType DEF EventTypes, Buttons, Ev, LeftPress, Release
<1>2. LeftReleased(old, b) \in BOOLEAN /\ RightPressed(old, b) \in BOOLEAN
  BY DEF LeftReleased, RightPressed
<1>3. ~LeftPressed(old, b)
  BY DEF Held, LeftPressed, wm_handle_mouse
<1>4. Waiting' = s4
  BY <1>3, MouseReports DEF AfterReport, PutIf, TypeOK
<1>5. /\ ~lostRelease' /\ "left" \notin b
      /\ LeftReleased(old, b) => Room(s1)
      /\ ~LeftReleased(old, b) => ~Held
  <2>1. ~lostRelease' /\ "left" \notin b
    BY DEF Held, wm_handle_mouse
  <2>2. lostRelease' = IF LeftReleased(old, b) THEN ~Room(s1) ELSE lostRelease
    BY MouseReports DEF PutIf
  <2>3. ~LeftReleased(old, b) => "left" \notin old
    BY <2>1 DEF LeftReleased
  <2> HIDE DEF s1
  <2>4. LeftReleased(old, b) => Room(s1)
    BY <2>1, <2>2
  <2> QED BY <2>1, <2>2, <2>3, <2>4 DEF Held
<1>6. /\ Fits(s1)
      /\ Answered(Waiting) => Answered(s1)
      /\ ReleaseAfter(Waiting, 0) => ReleaseAfter(s1, 0)
  BY <1>1, WaitingIs, PutAnswered
<1> HIDE DEF s1, m, r, p
<1>7. /\ Fits(s3)
      /\ Answered(s1) => Answered(s3)
      /\ ReleaseAfter(s1, 0) => ReleaseAfter(s3, 0)
  BY <1>1, <1>2, <1>6, PutAnswered
<1>8. LeftReleased(old, b) => Answered(s3) /\ ReleaseAfter(s3, 0)
  BY <1>1, <1>5, <1>6, AppendAnswered DEF PutIf, Put, Fits
<1> HIDE DEF s3
<1>9. /\ Answered(s3) => Answered(s4)
      /\ ReleaseAfter(s3, 0) => ReleaseAfter(s4, 0)
  BY <1>1, <1>2, <1>7, PutAnswered
<1> QED BY <1>4, <1>5, <1>6, <1>7, <1>8, <1>9

(* The invariant behind the next theorem. *)
LEMMA DragInvHolds == Spec => []DragInv
<1>1. Init => DragInv
  <2> SUFFICES ASSUME Init PROVE DragInv
    OBVIOUS
  <2>1. Waiting = <<>> \/ Len(Waiting) = 0
    <3>1. Len(Waiting) = Distance(0, 0, QueueSize)
      BY RingSeqLen, QueueSizeAssumption DEF Init, Waiting, RingSeq, RingRun, Distance, RingPlace, Turn
    <3>2. Distance(0, 0, QueueSize) = 0
      BY RingLength, QueueSizeAssumption
    <3> QED BY <3>1, <3>2
  <2> QED BY <2>1 DEF Init, DragInv, Answered
<1>2. TypeOK /\ PoppedIntact /\ DragInv /\ [Next]_vars => DragInv'
  <2> SUFFICES ASSUME TypeOK, PoppedIntact, DragInv, [Next]_vars, ~Held'
               PROVE  DragInv'
    BY DEF DragInv
  <2>1. ASSUME NEW b \in SUBSET Buttons, wm_handle_mouse(b) PROVE DragInv'
    <3>1. UNCHANGED <<pc, event, dragStart>>
      BY <2>1 DEF wm_handle_mouse
    <3> QED BY <2>1, <3>1, MouseAnswers DEF DragInv
  <2>2. ASSUME Task \/ UNCHANGED vars PROVE ~Held
    BY <2>2, OthersLeave DEF Task, AdvanceTail, producerOnly, Held
  <2>3. CASE AdvanceTail
    <3>1. Waiting \in Seq(Event)
      BY WaitingIs DEF Fits
    <3> QED BY <2>2, <2>3, <3>1, PopTakes, TailAnswered DEF Task, AdvanceTail, Goto, DragInv
  <2>4. CASE HandleMotion \/ HandlePress \/ HandleRelease
    <3>1. Waiting' = Waiting /\ ~Held
      BY <2>2, <2>4, OthersLeave DEF Task
    <3>2. CASE HandlePress
      BY <3>1, <3>2 DEF HandlePress, Goto, DragInv, LeftPress, Release
    <3>3. CASE HandleMotion
      BY <3>1, <3>3 DEF HandleMotion, Goto, DragInv, Release
    <3>4. CASE HandleRelease
      BY <3>1, <3>4 DEF HandleRelease, Goto, DragInv
    <3> QED BY <2>4, <3>2, <3>3, <3>4
  <2>5. CASE PopEmpty \/ NextFrame \/ PopCheck \/ CopyType \/ CopyRest
    <3>1. Waiting' = Waiting /\ ~Held
      BY <2>2, <2>5, OthersLeave DEF Task
    <3> QED BY <2>5, <3>1 DEF PopEmpty, NextFrame, PopCheck, CopyType, CopyRest, Goto, DragInv
  <2>6. CASE UNCHANGED vars
    <3>1. Waiting' = Waiting /\ ~Held
      BY <2>2, <2>6, OthersLeave
    <3> QED BY <2>6, <3>1 DEF vars, DragInv
  <2> QED BY <2>1, <2>3, <2>4, <2>5, <2>6 DEF Next, Mouse, Task
<1> QED BY <1>1, <1>2, TypeCorrect, PopNeverTorn, PTL DEF Spec

(* When the task has drained the ring, a window is dragged with the left   *)
(* button only while the button is held, unless the ring was full when the *)
(* release arrived.                                                        *)
THEOREM DragEnds == Spec => []LeftDragEndsWithButton
<1>1. TypeOK /\ DragInv => LeftDragEndsWithButton
  <2> SUFFICES ASSUME TypeOK, DragInv, Drained, dragStart # None, "left" \in dragStart, ~Held
               PROVE  FALSE
    BY DEF LeftDragEndsWithButton, Held
  <2>1. Len(Waiting) = 0
    <3>1. event_queue_tail \in 0 .. QueueSize - 1 /\ QueueSize \in Nat \ {0}
          /\ event_queue_head = event_queue_tail
      BY QueueSizeAssumption DEF TypeOK, Index, Drained
    <3>2. Len(Waiting) = Distance(event_queue_tail, event_queue_head, QueueSize)
      BY <3>1, WaitingIs, RingSeqLen
    <3> QED BY <3>1, <3>2, RingLength
  <2>2. ReleaseAfter(Waiting, 0)
    BY DEF DragInv, Drained
  <2> QED BY <2>1, <2>2 DEF ReleaseAfter
<1> QED BY <1>1, DragInvHolds, TypeCorrect, PTL
=============================================================================
