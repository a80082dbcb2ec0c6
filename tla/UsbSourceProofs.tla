----------------------------- MODULE UsbSourceProofs -----------------------------
(***************************************************************************)
(* Proofs about UsbSource for any number of tasks and sticks and any length *)
(* of the event queue: an open file keeps its stick, and as long as no      *)
(* event was dropped the three marks of a mounted stick agree.              *)
(***************************************************************************)
EXTENDS UsbSource, TLAPS, SequenceTheorems

(* The events that are not worked off: the one in hand has place 0, those of *)
(* the queue follow.                                                         *)
First == IF msc = NoEvent THEN 1 ELSE 0
Last == Len(evq)
Ev(n) == IF n = 0 THEN msc ELSE evq[n]
Pending == First .. Last
Plugged(n) == Ev(n).event = "connected"

(* Every stick is announced once, in order, and is newer than the one at     *)
(* /usb, also when events were dropped.                                      *)
Fresh == \A n \in Pending : Plugged(n) => base < Ev(n).addr /\ Ev(n).addr <= plugs
Rising == \A m, n \in Pending : m < n /\ Plugged(m) /\ Plugged(n) => Ev(m).addr < Ev(n).addr

(* s_vfs never names another stick than the one at /usb, and may forget it   *)
(* only when a later stick has come.                                         *)
VfsInv ==
  /\ base <= plugs /\ vfs \in {0, base} /\ (base = plugs => vfs = base)
  /\ stick => plugs # 0

(* Who has a file open has the mutex, and has seen only the stick at /usb.   *)
JobInv ==
  \A t \in Tasks :
    /\ pc[t] = "copy" => owner = t /\ base # 0 /\ vfs = base /\ \A d \in seen[t] : d = base
    /\ pc[t] \in {"idle", "ready"} => seen[t] = {}

(* Without a loss, plugging and unplugging alternate, the last event is what *)
(* became of the port, and nothing is at /usb when a stick is announced.     *)
OrderInv ==
  /\ \A n \in Pending : n < Last => Plugged(n) # Plugged(n + 1)
  /\ Pending # {} => (Plugged(Last) <=> stick)
MarksInv ==
  /\ vfs = base /\ (mounted <=> vfs # 0)
  /\ Pending # {} /\ Plugged(First) => base = 0
  /\ Pending = {} /\ base # 0 => stick /\ base = plugs

IInv ==
  /\ TypeOK /\ Fresh /\ Rising /\ VfsInv /\ JobInv /\ OneStickPerJob
  /\ ~lost => OrderInv /\ MarksInv

-----------------------------------------------------------------------------
(* What the steps do to the pending events: one more, the first one in hand, *)
(* the first one done, or nothing.                                           *)
Added(e) ==
  /\ First' = First /\ Last' = Last + 1
  /\ \A n \in First .. Last : Ev(n)' = Ev(n)
  /\ \A n : n = Last + 1 => Ev(n)' = e
Taken ==
  /\ First = 1 /\ First' = 0 /\ Last' = Last - 1
  /\ \A n \in 0 .. Last - 1 : Ev(n)' = Ev(n + 1)
Done ==
  /\ First = 0 /\ First' = 1 /\ Last' = Last
  /\ \A n \in 1 .. Last : Ev(n)' = Ev(n)
Kept ==
  /\ First' = First /\ Last' = Last
  /\ \A n \in First .. Last : Ev(n)' = Ev(n)

LEMMA PendingType ==
  ASSUME TypeOK
  PROVE  /\ First \in {0, 1} /\ Last \in Nat
         /\ Pending = {n \in Int : First <= n /\ n <= Last}
         /\ \A n \in Pending : Ev(n) \in Events
<1>1. Len(evq) \in Nat
  BY LenProperties DEF TypeOK
<1>2. \A n \in 1 .. Len(evq) : evq[n] \in Events
  BY ElementOfSeq DEF TypeOK
<1>3. ASSUME NEW n \in Pending PROVE Ev(n) \in Events
  <2>1. CASE n = 0
    BY <2>1, <1>3 DEF Ev, Pending, First, TypeOK
  <2>2. CASE n # 0
    BY <1>1, <1>2, <1>3, <2>2 DEF Ev, Pending, First, Last
  <2> QED
    BY <2>1, <2>2
<1> QED
  BY <1>1, <1>3 DEF First, Last, Pending

LEMMA NotifyShape ==
  ASSUME TypeOK, NEW e \in Events, Notify(e), UNCHANGED msc
  PROVE  /\ evq' \in Seq(Events) /\ Len(evq') <= QueueLen /\ lost' \in BOOLEAN
         /\ (Added(e) /\ lost' = lost) \/ (Kept /\ lost')
<1>1. evq \in Seq(Events) /\ Len(evq) \in Nat /\ QueueLen \in Nat
  BY LenProperties, UsbConstants DEF TypeOK
<1>2. CASE Len(evq) < QueueLen
  <2>1. evq' = Append(evq, e) /\ UNCHANGED lost
    BY <1>2 DEF Notify
  <2>2. /\ evq' \in Seq(Events) /\ Len(evq') = Len(evq) + 1
        /\ \A n \in 1 .. Len(evq) : evq'[n] = evq[n]
        /\ evq'[Len(evq) + 1] = e
    BY <1>1, <2>1, AppendProperties
  <2>3. Added(e)
    BY <1>1, <2>2 DEF Added, First, Last, Ev
  <2> QED
    BY <1>1, <1>2, <2>1, <2>2, <2>3 DEF TypeOK
<1>3. CASE ~(Len(evq) < QueueLen)
  BY <1>1, <1>3 DEF Notify, Kept, First, Last, Ev, TypeOK
<1> QED
  BY <1>2, <1>3

LEMMA ReceiveShape ==
  ASSUME TypeOK, MscReceive
  PROVE  /\ evq' \in Seq(Events) /\ Len(evq') <= QueueLen /\ msc' \in Events
         /\ Taken
<1>1. evq \in Seq(Events) /\ evq # << >> /\ Len(evq) \in Nat /\ QueueLen \in Nat
  BY LenProperties, UsbConstants DEF TypeOK, MscReceive
<1>2. /\ Head(evq) \in Events /\ Tail(evq) \in Seq(Events) /\ Len(Tail(evq)) = Len(evq) - 1
      /\ \A n \in 1 .. Len(evq) - 1 : Tail(evq)[n] = evq[n + 1]
  BY <1>1, HeadTailProperties
<1>3. msc' = Head(evq) /\ evq' = Tail(evq) /\ msc = NoEvent /\ Head(evq) = evq[1]
  BY <1>1 DEF MscReceive
<1>4. msc' # NoEvent
  BY <1>2, <1>3 DEF Events, NoEvent
<1> QED
  BY <1>1, <1>2, <1>3, <1>4 DEF Taken, First, Last, Ev, TypeOK

LEMMA HandledShape ==
  ASSUME TypeOK, UsbMount \/ UsbUnmount
  PROVE  Done /\ 0 \in Pending /\ Ev(0) = msc /\ msc \in Events
<1>1. msc # NoEvent /\ msc' = NoEvent /\ UNCHANGED evq
  BY DEF UsbMount, UsbUnmount, NoEvent, busVars
<1>2. Len(evq) \in Nat
  BY LenProperties DEF TypeOK
<1> QED
  BY <1>1, <1>2 DEF Done, First, Last, Ev, Pending, TypeOK

LEMMA OtherShape ==
  ASSUME UNCHANGED <<evq, msc>>
  PROVE  Kept
BY DEF Kept, First, Last, Ev

-----------------------------------------------------------------------------
(* Types.                                                                    *)
LEMMA PlugEvent ==
  ASSUME TypeOK
  PROVE  /\ Plug => [event |-> "connected", addr |-> plugs + 1] \in Events
         /\ Unplug => [event |-> "disconnected", addr |-> plugs] \in Events
BY UsbConstants DEF TypeOK, Plug, Events, Addresses

LEMMA TypeStep == TypeOK /\ [Next]_vars => TypeOK'
<1> SUFFICES ASSUME TypeOK, [Next]_vars PROVE TypeOK'
  OBVIOUS
<1> USE UsbConstants DEF vars, busVars, hostVars, jobVars
<1>0. /\ vfs \in Addresses /\ base \in Addresses /\ mounted \in BOOLEAN /\ 0 \in Addresses
      /\ off \in [Tasks -> 0 .. Chunks] /\ seen \in [Tasks -> SUBSET Addresses]
  BY DEF TypeOK, Addresses
<1>1. CASE Plug
  <2>1. evq' \in Seq(Events) /\ Len(evq') <= QueueLen /\ lost' \in BOOLEAN
    BY <1>1, PlugEvent, NotifyShape DEF Plug
  <2> QED
    BY <1>1, <2>1 DEF Plug, TypeOK, Addresses
<1>2. CASE Unplug
  <2>1. evq' \in Seq(Events) /\ Len(evq') <= QueueLen /\ lost' \in BOOLEAN
    BY <1>2, PlugEvent, NotifyShape DEF Unplug
  <2> QED
    BY <1>2, <2>1 DEF Unplug, TypeOK
<1>3. CASE MscReceive
  <2>1. evq' \in Seq(Events) /\ Len(evq') <= QueueLen /\ msc' \in Events
    BY <1>3, ReceiveShape
  <2> QED
    BY <1>3, <2>1 DEF MscReceive, TypeOK
<1>4. CASE UsbMount
  <2>1. msc.addr \in Addresses
    BY <1>4, HandledShape DEF Events
  <2>2. vfs' \in Addresses /\ base' \in Addresses /\ mounted' \in BOOLEAN
    BY <1>0, <1>4, <2>1 DEF UsbMount
  <2>3. msc' = NoEvent /\ UNCHANGED <<busVars, jobVars>>
    BY <1>4 DEF UsbMount
  <2> QED
    BY <2>2, <2>3 DEF TypeOK
<1>5. CASE UsbUnmount
  <2>1. vfs' \in Addresses /\ base' \in Addresses /\ mounted' \in BOOLEAN
    BY <1>0, <1>5 DEF UsbUnmount
  <2>2. msc' = NoEvent /\ UNCHANGED <<busVars, jobVars>>
    BY <1>5 DEF UsbUnmount
  <2> QED
    BY <2>1, <2>2 DEF TypeOK
<1>6. ASSUME NEW t \in Tasks, Resolve(t) \/ JobStep(t) PROVE TypeOK'
  <2>1. UNCHANGED <<busVars, hostVars>>
    BY <1>6 DEF Resolve, JobStep, UseInternal, Open, Copy, Close, Return
  <2>2. owner' \in Tasks \cup {Free} /\ pc' \in [Tasks -> {"idle", "ready", "copy", "ok", "failed"}]
    BY <1>6 DEF Resolve, JobStep, UseInternal, Open, Copy, Close, Return, TypeOK
  <2>3. path' \in [Tasks -> {"lfs", "usb"}]
    BY <1>6 DEF Resolve, JobStep, UseInternal, Open, Copy, Close, Return, TypeOK
  <2>4. off' \in [Tasks -> 0 .. Chunks]
    BY <1>0, <1>6 DEF Resolve, JobStep, UseInternal, Open, Copy, Close, Return
  <2>5. seen' \in [Tasks -> SUBSET Addresses]
    BY <1>0, <1>6 DEF Resolve, JobStep, UseInternal, Open, Copy, Close, Return
  <2>6. upload' \in BOOLEAN
    BY <1>6, Zenon DEF Resolve, JobStep, UseInternal, Open, Copy, Close, Return, TypeOK
  <2> QED
    BY <2>1, <2>2, <2>3, <2>4, <2>5, <2>6 DEF TypeOK
<1>7. CASE UNCHANGED vars
  BY <1>7 DEF TypeOK
<1> QED
  BY <1>1, <1>2, <1>3, <1>4, <1>5, <1>6, <1>7 DEF Next

(* The steps of the tasks leave the port, the events and the mount alone.    *)
LEMMA TaskFrame ==
  ASSUME NEW t \in Tasks, Resolve(t) \/ JobStep(t)
  PROVE  UNCHANGED <<busVars, hostVars>>
BY DEF Resolve, JobStep, UseInternal, Open, Copy, Close, Return

-----------------------------------------------------------------------------
(* The announcements.                                                        *)
LEMMA FreshStep ==
  ASSUME TypeOK, Fresh, Rising, VfsInv, [Next]_vars
  PROVE  Fresh' /\ Rising'
<1>0. /\ base \in Nat /\ plugs \in Nat /\ TypeOK' /\ base <= plugs
      /\ \A n \in Pending : Ev(n).addr \in Nat
  BY TypeStep, PendingType, UsbConstants DEF TypeOK, Addresses, VfsInv, Events
<1>1. CASE Plug
  <2> DEFINE e == [event |-> "connected", addr |-> plugs + 1]
  <2>1. UNCHANGED <<base, msc>> /\ plugs' = plugs + 1 /\ e \in Events /\ Notify(e)
    BY <1>1, PlugEvent DEF Plug, hostVars
  <2>2. Added(e) \/ Kept
    BY <2>1, NotifyShape
  <2>3. e.event = "connected" /\ e.addr = plugs + 1
    OBVIOUS
  <2> HIDE DEF e
  <2>4. CASE Added(e)
    BY <1>0, <2>1, <2>3, <2>4, PendingType DEF Added, Fresh, Rising, Plugged, Pending
  <2>5. CASE Kept
    BY <1>0, <2>1, <2>5, PendingType DEF Kept, Fresh, Rising, Plugged, Pending
  <2> QED
    BY <2>2, <2>4, <2>5
<1>2. CASE Unplug
  <2> DEFINE e == [event |-> "disconnected", addr |-> plugs]
  <2>1. UNCHANGED <<base, msc, plugs>> /\ e \in Events /\ Notify(e)
    BY <1>2, PlugEvent DEF Unplug, hostVars
  <2>2. Added(e) \/ Kept
    BY <2>1, NotifyShape
  <2>3. e.event # "connected"
    OBVIOUS
  <2> HIDE DEF e
  <2>4. CASE Added(e)
    BY <1>0, <2>1, <2>3, <2>4, PendingType DEF Added, Fresh, Rising, Plugged, Pending
  <2>5. CASE Kept
    BY <1>0, <2>1, <2>5, PendingType DEF Kept, Fresh, Rising, Plugged, Pending
  <2> QED
    BY <2>2, <2>4, <2>5
<1>3. CASE MscReceive
  <2>1. Taken /\ UNCHANGED <<base, plugs>>
    BY <1>3, ReceiveShape DEF MscReceive
  <2> QED
    BY <1>0, <2>1, PendingType DEF Taken, Fresh, Rising, Plugged, Pending
<1>4. CASE UsbMount \/ UsbUnmount
  <2>1. /\ Done /\ 0 \in Pending /\ Ev(0) = msc
        /\ UNCHANGED plugs /\ base' \in {0, base, msc.addr}
        /\ base' # base /\ base' # 0 => Plugged(0) /\ base' = Ev(0).addr
    BY <1>4, HandledShape DEF UsbMount, UsbUnmount, busVars, Plugged
  <2>2. Rising'
    BY <1>0, <2>1, PendingType DEF Done, Rising, Plugged, Pending
  <2>3. ASSUME NEW n \in Pending', Plugged(n)' PROVE (base < Ev(n).addr /\ Ev(n).addr <= plugs)'
    <3>1. n \in Pending /\ 0 < n /\ Plugged(n) /\ Ev(n)' = Ev(n) /\ Ev(n).addr \in Nat
      BY <1>0, <2>1, <2>3, PendingType DEF Done, Pending, Plugged
    <3>2. base < Ev(n).addr /\ Ev(n).addr <= plugs
      BY <3>1 DEF Fresh
    <3>3. Plugged(0) => Ev(0).addr < Ev(n).addr
      BY <2>1, <3>1 DEF Rising
    <3> QED
      BY <1>0, <2>1, <3>1, <3>2, <3>3
  <2> QED
    BY <2>2, <2>3 DEF Fresh
<1>5. CASE (\E t \in Tasks : Resolve(t) \/ JobStep(t)) \/ UNCHANGED vars
  <2>1. UNCHANGED <<evq, msc, base, plugs>>
    BY <1>5, TaskFrame DEF vars, busVars, hostVars
  <2> QED
    BY <1>0, <2>1 DEF Fresh, Rising, Plugged, Pending, Ev, First, Last
<1> QED
  BY <1>1, <1>2, <1>3, <1>4, <1>5 DEF Next

-----------------------------------------------------------------------------
(* The mount and the open files.                                             *)
LEMMA VfsStep ==
  ASSUME TypeOK, Fresh, VfsInv, [Next]_vars
  PROVE  VfsInv'
<1>0. base \in Nat /\ plugs \in Nat /\ vfs \in Nat
  BY UsbConstants DEF TypeOK, Addresses
<1>1. CASE Plug
  BY <1>0, <1>1 DEF Plug, VfsInv, hostVars
<1>2. CASE Unplug
  BY <1>2 DEF Unplug, VfsInv, hostVars
<1>3. CASE UsbMount
  <2>1. base < msc.addr /\ msc.addr <= plugs
    BY <1>3, HandledShape DEF Fresh, Plugged, UsbMount
  <2>2. UNCHANGED <<stick, plugs>>
    BY <1>3 DEF UsbMount, busVars
  <2> QED
    BY <1>0, <1>3, <2>1, <2>2 DEF UsbMount, VfsInv
<1>4. CASE UsbUnmount
  BY <1>0, <1>4 DEF UsbUnmount, VfsInv, busVars
<1>5. CASE MscReceive \/ UNCHANGED vars \/ \E t \in Tasks : Resolve(t) \/ JobStep(t)
  <2>1. UNCHANGED <<stick, plugs, vfs, base>>
    BY <1>5, TaskFrame DEF MscReceive, vars, busVars, hostVars
  <2> QED
    BY <2>1 DEF VfsInv
<1> QED
  BY <1>1, <1>2, <1>3, <1>4, <1>5 DEF Next

(* Nothing is mounted or unmounted while a file is open, and only the task   *)
(* that opened it can close it.                                              *)
LEMMA JobsStep ==
  ASSUME TypeOK, VfsInv, JobInv, OneStickPerJob, [Next]_vars
  PROVE  JobInv' /\ OneStickPerJob'
<1>1. CASE Plug \/ Unplug \/ MscReceive \/ UNCHANGED vars
  <2>1. UNCHANGED <<vfs, base, owner, pc, seen>>
    BY <1>1 DEF Plug, Unplug, MscReceive, vars, hostVars, jobVars
  <2> QED
    BY <2>1 DEF JobInv, OneStickPerJob
<1>2. CASE UsbMount \/ UsbUnmount
  <2>1. owner = Free /\ UNCHANGED <<owner, pc, seen>>
    BY <1>2 DEF UsbMount, UsbUnmount, jobVars
  <2>2. \A t \in Tasks : pc[t] # "copy"
    BY <2>1, UsbConstants DEF JobInv
  <2> QED
    BY <2>1, <2>2 DEF JobInv, OneStickPerJob
<1>3. ASSUME NEW t \in Tasks, Resolve(t) \/ JobStep(t) PROVE JobInv' /\ OneStickPerJob'
  <2>1. UNCHANGED <<vfs, base>>
    BY <1>3, TaskFrame DEF hostVars
  <2>2. \A u \in Tasks \ {t} : pc'[u] = pc[u] /\ seen'[u] = seen[u]
    BY <1>3 DEF Resolve, JobStep, UseInternal, Open, Copy, Close, Return, TypeOK
  <2>3. ASSUME NEW u \in Tasks \ {t}, pc[u] = "copy" PROVE owner' = owner
    <3>1. owner = u /\ owner # Free
      BY <2>3, UsbConstants DEF JobInv
    <3>2. ~Close(t)
      BY <2>3, <3>1 DEF Close, JobInv
    <3> QED
      BY <1>3, <3>1, <3>2 DEF Resolve, JobStep, UseInternal, Open, Copy, Return
  <2>4. /\ pc'[t] = "copy" => owner' = t /\ base # 0 /\ vfs = base /\ \A d \in seen'[t] : d = base
        /\ pc'[t] \in {"idle", "ready"} => seen'[t] = {}
    <3>1. CASE Open(t)
      <4>1. Reachable => base # 0 /\ vfs = base
        BY DEF Reachable, VfsInv
      <4> QED
        BY <3>1, <4>1 DEF Open, JobInv, TypeOK
    <3>2. CASE Copy(t)
      BY <3>2 DEF Copy, JobInv, TypeOK
    <3>3. CASE Resolve(t) \/ UseInternal(t) \/ Close(t) \/ Return(t)
      BY <3>3 DEF Resolve, UseInternal, Close, Return, JobInv, TypeOK
    <3> QED
      BY <1>3, <3>1, <3>2, <3>3 DEF JobStep
  <2>5. \A d, e \in seen'[t] : d = e
    <3>1. CASE Copy(t)
      BY <2>4, <3>1 DEF Copy, TypeOK
    <3>2. CASE ~Copy(t)
      <4>1. seen'[t] \in {seen[t], {}}
        BY <1>3, <3>2 DEF Resolve, JobStep, UseInternal, Open, Close, Return, TypeOK
      <4> QED
        BY <4>1 DEF OneStickPerJob
    <3> QED
      BY <3>1, <3>2
  <2>6. JobInv'
    BY <2>1, <2>2, <2>3, <2>4 DEF JobInv
  <2>7. OneStickPerJob'
    BY <2>2, <2>5 DEF OneStickPerJob
  <2> QED
    BY <2>6, <2>7
<1> QED
  BY <1>1, <1>2, <1>3 DEF Next

-----------------------------------------------------------------------------
(* The order of events, and what it says of the mount.                       *)
LEMMA OrderStep ==
  ASSUME TypeOK, VfsInv, OrderInv, MarksInv, ~lost, ~lost', [Next]_vars
  PROVE  OrderInv' /\ MarksInv'
<1>0. /\ base \in Nat /\ plugs \in Nat /\ stick \in BOOLEAN
      /\ First \in {0, 1} /\ Last \in Nat
      /\ Pending = {n \in Int : First <= n /\ n <= Last}
  BY PendingType, UsbConstants DEF TypeOK, Addresses
<1>1. CASE Plug
  <2> DEFINE e == [event |-> "connected", addr |-> plugs + 1]
  <2>1. UNCHANGED <<mounted, vfs, base, msc>> /\ ~stick /\ stick' /\ e \in Events /\ Notify(e)
    BY <1>1, PlugEvent DEF Plug, hostVars
  <2>2. Added(e)
    BY <2>1, NotifyShape
  <2>3. e.event = "connected"
    OBVIOUS
  <2> HIDE DEF e
  <2>4. OrderInv'
    BY <1>0, <2>1, <2>2, <2>3 DEF Added, OrderInv, Plugged, Pending
  <2>5. Pending' # {} /\ (Plugged(First)' => Pending = {} \/ Plugged(First))
    BY <1>0, <2>2 DEF Added, Plugged, Pending
  <2>6. MarksInv'
    BY <2>1, <2>5 DEF MarksInv, Plugged
  <2> QED
    BY <2>4, <2>6
<1>2. CASE Unplug
  <2> DEFINE e == [event |-> "disconnected", addr |-> plugs]
  <2>1. UNCHANGED <<mounted, vfs, base, msc>> /\ stick /\ ~stick' /\ e \in Events /\ Notify(e)
    BY <1>2, PlugEvent DEF Unplug, hostVars
  <2>2. Added(e)
    BY <2>1, NotifyShape
  <2>3. e.event # "connected"
    OBVIOUS
  <2> HIDE DEF e
  <2>4. OrderInv'
    BY <1>0, <2>1, <2>2, <2>3 DEF Added, OrderInv, Plugged, Pending
  <2>5. Pending' # {} /\ (Plugged(First)' => Pending # {} /\ Plugged(First))
    BY <1>0, <2>2, <2>3 DEF Added, Plugged, Pending
  <2>6. MarksInv'
    BY <2>1, <2>5 DEF MarksInv, Plugged
  <2> QED
    BY <2>4, <2>6
<1>3. CASE MscReceive
  <2>1. Taken /\ UNCHANGED <<mounted, vfs, base, plugs, stick>>
    BY <1>3, ReceiveShape DEF MscReceive
  <2>2. Last # 0
    BY <1>3, EmptySeq DEF MscReceive, TypeOK, Last
  <2>3. OrderInv'
    <3>1. ASSUME NEW n \in Pending', n < Last' PROVE (Plugged(n) # Plugged(n + 1))'
      <4>1. /\ n + 1 \in Pending /\ n + 1 < Last
            /\ Ev(n)' = Ev(n + 1) /\ Ev(n + 1)' = Ev((n + 1) + 1)
        BY <1>0, <2>1, <3>1 DEF Taken, Pending
      <4> QED
        BY <4>1 DEF OrderInv, Plugged
    <3>2. (Pending # {} => (Plugged(Last) <=> stick))'
      <4>1. PICK m \in Nat : m = Last - 1
        BY <1>0, <2>2
      <4>2. Last' = m /\ m + 1 = Last /\ Ev(m)' = Ev(m + 1)
        BY <1>0, <2>1, <4>1 DEF Taken
      <4>3. Plugged(Last)' <=> Plugged(Last)
        BY <4>2 DEF Plugged
      <4>4. Pending # {}
        BY <1>0, <2>2
      <4> QED
        BY <2>1, <4>3, <4>4 DEF OrderInv
    <3> QED
      BY <3>1, <3>2 DEF OrderInv
  <2>4. MarksInv'
    BY <1>0, <2>1, <2>2 DEF Taken, MarksInv, Plugged, Pending
  <2> QED
    BY <2>3, <2>4
<1>4. CASE UsbMount \/ UsbUnmount
  <2>1. Done /\ 0 \in Pending /\ Ev(0) = msc /\ UNCHANGED <<plugs, stick>>
    BY <1>4, HandledShape DEF UsbMount, UsbUnmount, busVars
  <2>2. OrderInv'
    BY <1>0, <2>1 DEF Done, OrderInv, Plugged, Pending
  <2>3. CASE UsbMount
    <3>1. Plugged(0) /\ base = 0 /\ vfs = 0
      BY <1>0, <2>1, <2>3 DEF UsbMount, Plugged, MarksInv, Done
    <3>2. vfs' = base' /\ (base' # 0 => stick /\ base' = plugs)
      BY <2>3, <3>1 DEF UsbMount
    <3>3. mounted' <=> vfs' # 0
      <4>1. ~mounted /\ (stick => plugs # 0)
        BY <1>0, <2>1, <2>3, <3>1 DEF MarksInv, UsbMount, VfsInv
      <4> QED
        BY <2>3, <3>1, <4>1 DEF UsbMount
    <3>4. Pending' # {} => ~Plugged(First)'
      BY <1>0, <2>1, <3>1 DEF Done, OrderInv, Plugged, Pending
    <3> QED
      BY <2>1, <2>2, <3>2, <3>3, <3>4 DEF MarksInv
  <2>4. CASE UsbUnmount
    BY <2>2, <2>4 DEF UsbUnmount, MarksInv
  <2> QED
    BY <1>4, <2>2, <2>3, <2>4
<1>5. CASE (\E t \in Tasks : Resolve(t) \/ JobStep(t)) \/ UNCHANGED vars
  <2>1. UNCHANGED <<busVars, hostVars>>
    BY <1>5, TaskFrame DEF vars
  <2> QED
    BY <2>1 DEF OrderInv, MarksInv, Plugged, Pending, Ev, First, Last, busVars, hostVars
<1> QED
  BY <1>1, <1>2, <1>3, <1>4, <1>5 DEF Next

-----------------------------------------------------------------------------
LEMMA InitInv == Init => IInv
<1> SUFFICES ASSUME Init PROVE IInv
  OBVIOUS
<1>1. TypeOK
  <2>1. evq \in Seq(Events) /\ Len(evq) = 0
    BY EmptySeq DEF Init
  <2>2. 0 \in Addresses /\ 0 \in 0 .. Chunks /\ 0 <= QueueLen
    BY UsbConstants DEF Addresses
  <2> QED
    BY <2>1, <2>2 DEF Init, TypeOK
<1>2. Pending = {}
  BY DEF Init, Pending, First, Last
<1> QED
  BY <1>1, <1>2 DEF Init, IInv, Fresh, Rising, VfsInv, JobInv, OneStickPerJob, OrderInv, MarksInv

LEMMA StepInv == IInv /\ [Next]_vars => IInv'
<1> SUFFICES ASSUME IInv, [Next]_vars PROVE IInv'
  OBVIOUS
<1>1. lost => lost'
  BY DEF Next, Plug, Unplug, Notify, MscReceive, UsbMount, UsbUnmount, Resolve, JobStep,
         UseInternal, Open, Copy, Close, Return, vars, busVars
<1> QED
  BY <1>1, TypeStep, FreshStep, VfsStep, JobsStep, OrderStep DEF IInv

LEMMA Invariance == Spec => []IInv
<1> QED
  BY InitInv, StepInv, PTL DEF Spec

(* Every variable of the USB store keeps its type.                           *)
THEOREM TypeCorrect == Spec => []TypeOK
<1>1. IInv => TypeOK
  BY DEF IInv
<1> QED
  BY <1>1, Invariance, PTL

(* However often sticks are pulled and exchanged, and even when events are   *)
(* lost: no mount goes away under an open file, and no job works on two      *)
(* sticks (storage_usb.c:97-141, 259-328).                                   *)
THEOREM OpenFileSafe == Spec => []JobKeepsItsStick
<1>1. IInv => JobKeepsItsStick
  BY DEF IInv, JobInv, JobKeepsItsStick, OpenFileKeepsMount
<1> QED
  BY <1>1, Invariance, PTL

(* Until an event is dropped, s_mounted, s_vfs and what is registered at     *)
(* /usb agree, and when all events are worked off they agree with the port   *)
(* (storage_usb.c:97-172).                                                   *)
THEOREM MarksSafe == Spec => []MarksAgree
<1>1. ASSUME IInv PROVE MarksAgree
  <2>1. msc = NoEvent /\ evq = << >> => Pending = {}
    BY DEF Pending, First, Last
  <2> QED
    BY <1>1, <2>1 DEF IInv, MarksInv, MarksAgree
<1> QED
  BY <1>1, Invariance, PTL
=============================================================================
