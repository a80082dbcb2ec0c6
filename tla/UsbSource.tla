------------------------------- MODULE UsbSource -------------------------------
(***************************************************************************)
(* components/storage_usb and storage_src: a USB stick that comes and goes  *)
(* while tasks work on its files.  The driver calls back with an event for  *)
(* each change; a task of its own takes the events from a queue and mounts  *)
(* or unmounts under the mutex that the file functions hold.  Whoever needs *)
(* a path asks first which source is active, without the mutex.             *)
(***************************************************************************)
EXTENDS Integers, Sequences

CONSTANTS
  Tasks,     \* tasks that work on files: menu, server, web_flash
  Http,      \* the server among them
  QueueLen,  \* length of s_evt_q
  MaxPlugs,  \* bound: how often a stick is plugged in
  Chunks,    \* reads or writes of a file job
  Free       \* no owner

ASSUME UsbConstants ==
  /\ Http \in Tasks /\ Free \notin Tasks
  /\ QueueLen \in Nat \ {0} /\ MaxPlugs \in Nat /\ Chunks \in Nat

VARIABLES
  stick, plugs,   \* is a stick in the port; how many were so far: the last one has this address
  evq, lost,      \* s_evt_q; no code: some event found it full
  msc,            \* the event usb_msc_task works on
  mounted, vfs,   \* s_mounted, and the device of s_vfs, 0 for NULL
  base,           \* the device whose file system is registered at /usb, 0 for none
  owner,          \* the owner of s_mutex
  pc, path,       \* each task: where it is, and the store of its path
  upload,         \* is the request of the server an upload
  off, seen       \* chunks done, and the devices they were of

busVars  == <<stick, plugs, evq, lost>>
hostVars == <<msc, mounted, vfs, base>>
jobVars  == <<owner, pc, path, upload, off, seen>>
vars == <<busVars, hostVars, jobVars>>

Addresses == 0 .. MaxPlugs
NoEvent == [event |-> "none", addr |-> 0]
Events  == [event : {"connected", "disconnected"}, addr : Addresses]

Init ==
  /\ stick = FALSE /\ plugs = 0 /\ evq = << >> /\ lost = FALSE
  /\ msc = NoEvent /\ mounted = FALSE /\ vfs = 0 /\ base = 0
  /\ owner = Free
  /\ pc = [t \in Tasks |-> "idle"] /\ path = [t \in Tasks |-> "lfs"]
  /\ upload = FALSE
  /\ off = [t \in Tasks |-> 0] /\ seen = [t \in Tasks |-> {}]

-----------------------------------------------------------------------------
(* msc_event_cb does not wait: an event that finds the queue full is gone.   *)
Notify(e) ==
  IF Len(evq) < QueueLen THEN evq' = Append(evq, e) /\ UNCHANGED lost
  ELSE lost' = TRUE /\ UNCHANGED evq

Plug ==
  /\ ~stick /\ plugs < MaxPlugs
  /\ stick' = TRUE /\ plugs' = plugs + 1
  /\ Notify([event |-> "connected", addr |-> plugs + 1])
  /\ UNCHANGED <<hostVars, jobVars>>

Unplug ==
  /\ stick
  /\ stick' = FALSE
  /\ Notify([event |-> "disconnected", addr |-> plugs])
  /\ UNCHANGED <<plugs, hostVars, jobVars>>

(* usb_msc_task takes the next event.                                        *)
MscReceive ==
  /\ msc = NoEvent /\ evq # << >>
  /\ msc' = Head(evq) /\ evq' = Tail(evq)
  /\ UNCHANGED <<stick, plugs, lost, mounted, vfs, base, jobVars>>

(* Slip: s_mounted is set before the file system is registered.              *)
UsbMountEarly ==
  /\ msc.event = "connected" /\ owner = Free
  /\ mounted' = TRUE
  /\ \/ UNCHANGED <<vfs, base>>
     \/ /\ stick /\ msc.addr = plugs
        /\ \/ vfs' = 0 /\ UNCHANGED base
           \/ base = 0 /\ vfs' = msc.addr /\ base' = msc.addr
  /\ msc' = NoEvent
  /\ UNCHANGED <<busVars, jobVars>>

(* usb_mount.  Installing fails when the device is gone; registering fails   *)
(* on a stick that is not FAT and while a file system is registered at /usb, *)
(* and then s_vfs forgets what was there before.                             *)
UsbMount ==
  /\ msc.event = "connected" /\ owner = Free
  /\ \/ UNCHANGED <<mounted, vfs, base>>
     \/ /\ stick /\ msc.addr = plugs
        /\ \/ vfs' = 0 /\ UNCHANGED <<mounted, base>>
           \/ base = 0 /\ vfs' = msc.addr /\ base' = msc.addr /\ mounted' = TRUE
  /\ msc' = NoEvent
  /\ UNCHANGED <<busVars, jobVars>>

(* Slip: the mutex is not taken.                                             *)
UsbUnmountUnlocked ==
  /\ msc.event = "disconnected"
  /\ mounted' = FALSE /\ vfs' = 0 /\ base' = IF vfs = 0 THEN base ELSE 0
  /\ msc' = NoEvent
  /\ UNCHANGED <<busVars, jobVars>>

(* Slip: s_mounted is left alone.                                            *)
UsbUnmountShown ==
  /\ msc.event = "disconnected" /\ owner = Free
  /\ vfs' = 0 /\ base' = IF vfs = 0 THEN base ELSE 0
  /\ msc' = NoEvent
  /\ UNCHANGED <<mounted, busVars, jobVars>>

(* usb_unmount, whatever device the event is about.                          *)
UsbUnmount ==
  /\ msc.event = "disconnected" /\ owner = Free
  /\ mounted' = FALSE /\ vfs' = 0 /\ base' = IF vfs = 0 THEN base ELSE 0
  /\ msc' = NoEvent
  /\ UNCHANGED <<busVars, jobVars>>

-----------------------------------------------------------------------------
(* storage_src_base: the active source, for the path of the next job, which  *)
(* is an upload or another one when the server asks.                         *)
Resolve(t) ==
  /\ pc[t] = "idle"
  /\ path' = [path EXCEPT ![t] = IF mounted THEN "usb" ELSE "lfs"]
  /\ pc' = [pc EXCEPT ![t] = "ready"]
  /\ upload' \in IF t = Http THEN BOOLEAN ELSE {upload}
  /\ UNCHANGED <<busVars, hostVars, owner, off, seen>>

(* A path under /lfs goes to the internal store, which is always there.      *)
UseInternal(t) ==
  /\ pc[t] = "ready" /\ path[t] = "lfs"
  /\ pc' = [pc EXCEPT ![t] = "ok"]
  /\ UNCHANGED <<busVars, hostVars, owner, path, upload, off, seen>>

(* Can the file system at /usb reach its stick?                              *)
Reachable == stick /\ base = plugs

(* Slip: the mutex is not held while the file is open.                       *)
OpenUnlocked(t) ==
  /\ pc[t] = "ready" /\ path[t] = "usb" /\ owner = Free
  /\ \/ Reachable /\ UNCHANGED owner /\ pc' = [pc EXCEPT ![t] = "copy"]
     \/ UNCHANGED owner /\ pc' = [pc EXCEPT ![t] = "failed"]
  /\ UNCHANGED <<busVars, hostVars, path, upload, off, seen>>

(* storage_usb_lock, and fopen or opendir under the mutex.                   *)
Open(t) ==
  /\ pc[t] = "ready" /\ path[t] = "usb" /\ owner = Free
  /\ \/ Reachable /\ owner' = t /\ pc' = [pc EXCEPT ![t] = "copy"]
     \/ UNCHANGED owner /\ pc' = [pc EXCEPT ![t] = "failed"]
  /\ UNCHANGED <<busVars, hostVars, path, upload, off, seen>>

Copy(t) ==
  /\ pc[t] = "copy" /\ off[t] < Chunks /\ Reachable
  /\ off' = [off EXCEPT ![t] = @ + 1]
  /\ seen' = [seen EXCEPT ![t] = @ \cup {base}]
  /\ UNCHANGED <<busVars, hostVars, owner, pc, path, upload>>

(* All is done, or something failed; close and give the mutex back.          *)
Close(t) ==
  /\ pc[t] = "copy"
  /\ \/ off[t] = Chunks /\ pc' = [pc EXCEPT ![t] = "ok"]
     \/ pc' = [pc EXCEPT ![t] = "failed"]
  /\ owner' = Free
  /\ off' = [off EXCEPT ![t] = 0]
  /\ UNCHANGED <<busVars, hostVars, path, upload, seen>>

Return(t) ==
  /\ pc[t] \in {"ok", "failed"}
  /\ pc' = [pc EXCEPT ![t] = "idle"] /\ path' = [path EXCEPT ![t] = "lfs"]
  /\ seen' = [seen EXCEPT ![t] = {}]
  /\ upload' = (t # Http /\ upload)
  /\ UNCHANGED <<busVars, hostVars, owner, off>>

JobStep(t) == UseInternal(t) \/ Open(t) \/ Copy(t) \/ Close(t) \/ Return(t)

Next ==
  \/ Plug \/ Unplug \/ MscReceive \/ UsbMount \/ UsbUnmount
  \/ \E t \in Tasks : Resolve(t) \/ JobStep(t)

(* A task that works on a file goes on, but for an upload, which waits for   *)
(* its client under the mutex and tries again after each time-out            *)
(* (web_ui.c:429-452).  Who waits for the mutex gets it in the end when it   *)
(* is free again and again.  Sticks and users may stay away.                 *)
HeldByClient == owner = Http /\ upload

Fairness ==
  /\ WF_vars(MscReceive) /\ SF_vars(UsbMount) /\ SF_vars(UsbUnmount)
  /\ \A t \in Tasks :
       /\ WF_vars(UseInternal(t) \/ Return(t)) /\ SF_vars(Open(t))
       /\ WF_vars(~HeldByClient /\ (Copy(t) \/ Close(t)))

Spec == Init /\ [][Next]_vars /\ Fairness

-----------------------------------------------------------------------------
TypeOK ==
  /\ stick \in BOOLEAN /\ plugs \in Addresses
  /\ evq \in Seq(Events) /\ Len(evq) <= QueueLen /\ lost \in BOOLEAN
  /\ msc \in Events \cup {NoEvent}
  /\ mounted \in BOOLEAN /\ vfs \in Addresses /\ base \in Addresses
  /\ owner \in Tasks \cup {Free}
  /\ pc \in [Tasks -> {"idle", "ready", "copy", "ok", "failed"}]
  /\ path \in [Tasks -> {"lfs", "usb"}] /\ upload \in BOOLEAN
  /\ off \in [Tasks -> 0 .. Chunks] /\ seen \in [Tasks -> SUBSET Addresses]

(* The file system of a stick is never taken away under an open file, and    *)
(* the mutex is held for as long as the file is open: pulling the stick      *)
(* makes reads fail, it does not free what they use                          *)
(* (storage_usb.c:133-141, 259-296).                                         *)
OpenFileKeepsMount ==
  \A t \in Tasks : pc[t] = "copy" => owner = t /\ base # 0 /\ vfs = base

(* All that one job read or wrote was on one stick, although sticks may be   *)
(* exchanged while it runs.                                                  *)
OneStickPerJob == \A t \in Tasks : \A d, e \in seen[t] : d = e

(* A job never has its stick exchanged under it: no mount goes away under an *)
(* open file and no two sticks are mixed in one file (storage_usb.c:132-141, *)
(* 259-328).                                                                 *)
JobKeepsItsStick == OpenFileKeepsMount /\ OneStickPerJob

(* As long as no event was dropped, the three marks of a mounted stick agree *)
(* and nothing stays registered at /usb: the next stick can be mounted. Once *)
(* all events are worked off, no stick that is gone is shown as the source   *)
(* (storage_usb.c:97-141).                                                   *)
MarksAgree ==
  /\ TypeOK
  /\ ~lost =>
       /\ vfs = base /\ (mounted <=> vfs # 0)
       /\ msc = NoEvent /\ evq = << >> /\ mounted => stick /\ vfs = plugs

(* README.md:22, as far as the queue and the clients allow: when the stick   *)
(* is pulled, the internal store becomes the source again, unless an event   *)
(* found the queue full, or the client of an upload to the stick keeps the   *)
(* mutex for ever and the unmount waits behind it (storage_usb.c:133).       *)
FallsBack ==
  \/ (~stick) ~> (~mounted \/ stick \/ lost)
  \/ <>[]HeldByClient

=============================================================================
