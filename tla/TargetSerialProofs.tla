--------------------------- MODULE TargetSerialProofs ---------------------------
(***************************************************************************)
(* Proofs about TargetSerial, for any configurations, files, blocks and     *)
(* numbers of frames under way.  Answers carry no number, so everything     *)
(* rests on a quiet wire at the beginning of a transfer: then command()     *)
(* takes the answer to its own request, a pull collects the configuration   *)
(* block by block, and a push builds the file up in the target before it    *)
(* commits.                                                                 *)
(***************************************************************************)
EXTENDS TargetSerial, TLAPS, SequenceTheorems

Quiet == inbox = << >> /\ outbox = << >>

(* The answer of the target to a request.                                    *)
Answer(r) == [to |-> r, data |-> IF r.cmd = "GET_CONFIG" THEN Part(cfg, r.off) ELSE << >>]

(* A push has built up its file to the offset when it asks, and one block    *)
(* further, or made it the configuration, when the answer is there.          *)
NextOffset == offset + Min2(Block, Len(blob) - offset)
Asked == job = "push" => offset = 0 \/ staging = SubSeq(blob, 1, offset)
Served ==
  job = "push" => IF offset < Len(blob) THEN staging = SubSeq(blob, 1, NextOffset) ELSE cfg = blob

(* A transfer begins, and sends its next frame, on a quiet wire.             *)
SendInv == at = "send" => Quiet /\ Asked

(* While command() waits, all there is belongs to its request.               *)
WaitInv ==
  at = "wait" =>
    \/ Quiet /\ queue = << >>
    \/ inbox = <<request>> /\ outbox = << >> /\ queue = << >> /\ Asked
    \/ inbox = << >> /\ outbox = <<Answer(request)>> /\ queue = << >> /\ Served
    \/ Quiet /\ queue = <<Answer(request)>> /\ Served

(* A pull asks for whole blocks, and has the beginning of the configuration. *)
(* One that is longer than the offsets can say only has whole blocks.        *)
WholeBlocks == offset < OffsetMod /\ \E q \in Nat : offset = q * Block
PullInv ==
  job = "pull" /\ at # "idle" =>
    /\ WholeBlocks
    /\ Len(cfg) < OffsetMod => offset <= Len(cfg) /\ blob = SubSeq(cfg, 1, offset)

(* One frame at most is still to be served, and a COMMIT finds a whole file, *)
(* also when command() gave up waiting for it.                               *)
InboxInv ==
  inbox # << >> => Tail(inbox) = << >> /\ (Head(inbox).cmd = "COMMIT" => staging \in Images)

(* What a transfer that succeeded has done stays.                            *)
DoneInv ==
  at = "idle" /\ result = "ok" =>
    Quiet /\ (job = "pull" => file = cfg) /\ (job = "push" => cfg = blob)

(* Independent of the wire: the frame and the offset of the transfer.        *)
JobInv ==
  /\ at # "idle" => job # "none"
  /\ at = "wait" => request = Frame
  /\ job = "push" => \E n \in FileLens : blob = Image(n)
  /\ job = "push" /\ at # "idle" => offset <= Len(blob)

CleanInv == SendInv /\ WaitInv /\ PullInv /\ InboxInv /\ DoneInv
IInv == TypeOK /\ JobInv /\ (clean => CleanInv)

-----------------------------------------------------------------------------
(* Arithmetic of offsets and blocks.                                         *)

LEMMA Multiple ==
  ASSUME NEW x \in Nat, NEW y \in Nat \ {0}, x % y = 0
  PROVE  \E r \in Nat : x = r * y
<1>1. x \div y \in Nat /\ x = (y * (x \div y)) + (x % y)
  OBVIOUS
<1> QED
  BY <1>1

(* A whole block still fits before the next multiple.                        *)
LEMMA BlockFits ==
  ASSUME NEW q \in Nat, NEW r \in Nat, NEW B \in Nat \ {0}, q * B < r * B
  PROVE  q * B + B <= r * B
<1>1. q < r
  <2>1. SUFFICES ASSUME r <= q PROVE FALSE
    OBVIOUS
  <2>2. PICK d \in Nat : q = r + d
    BY <2>1
  <2>3. q * B = r * B + d * B /\ d * B \in Nat
    BY <2>2
  <2> QED
    BY <2>3
<1>2. PICK d \in Nat : r = q + 1 + d
  BY <1>1
<1>3. r * B = q * B + B + d * B /\ d * B \in Nat
  BY <1>2
<1> QED
  BY <1>3

(* A pull that asks for whole blocks goes on to, or wraps to, a whole block. *)
LEMMA NextBlock ==
  ASSUME offset \in Nat, WholeBlocks
  PROVE  /\ offset + Block <= OffsetMod
         /\ (offset + Block) % OffsetMod < OffsetMod
         /\ \E q \in Nat : (offset + Block) % OffsetMod = q * Block
         /\ offset + Block < OffsetMod => (offset + Block) % OffsetMod = offset + Block
<1>0. Block \in Nat \ {0} /\ OffsetMod \in Nat \ {0} /\ OffsetMod % Block = 0
  BY SerialConstants
<1>1. PICK q \in Nat : offset = q * Block
  BY DEF WholeBlocks
<1>2. PICK r \in Nat : OffsetMod = r * Block
  BY <1>0, Multiple
<1>3. offset + Block <= OffsetMod
  BY <1>0, <1>1, <1>2, BlockFits DEF WholeBlocks
<1>4. CASE offset + Block < OffsetMod
  <2>1. (offset + Block) % OffsetMod = offset + Block
    BY <1>0, <1>4
  <2>2. offset + Block = (q + 1) * Block /\ q + 1 \in Nat
    BY <1>0, <1>1
  <2> QED
    BY <1>3, <1>4, <2>1, <2>2
<1>5. CASE offset + Block = OffsetMod
  <2>1. (offset + Block) % OffsetMod = 0
    BY <1>0, <1>5
  <2>2. 0 = 0 * Block
    BY <1>0
  <2> QED
    BY <1>0, <1>3, <1>5, <2>1, <2>2
<1> QED
  BY <1>0, <1>3, <1>4, <1>5

-----------------------------------------------------------------------------
(* Sequences: frames and blocks.                                             *)

LEMMA OneElement == \A x : /\ Append(<< >>, x) = <<x>> /\ Head(<<x>>) = x /\ Tail(<<x>>) = << >>
                           /\ <<x>> # << >> /\ Len(<<x>>) = 1 /\ Len(<< >>) = 0
OBVIOUS

LEMMA ImageFacts ==
  ASSUME NEW n \in Nat
  PROVE  Image(n) \in Seq(Nat) /\ Len(Image(n)) = n
<1>1. \A j \in 1 .. n : 100 * n + j \in Nat
  OBVIOUS
<1>2. Image(n) \in [1 .. n -> Nat]
  BY <1>1 DEF Image
<1> QED
  BY <1>2

(* A block is what is left of the bytes, and at most Block of them.          *)
LEMMA PartFacts ==
  ASSUME NEW s \in Seq(Nat), NEW from \in Nat
  PROVE  /\ Part(s, from) \in Seq(Nat)
         /\ from >= Len(s) => Part(s, from) = << >>
         /\ from < Len(s) => Part(s, from) # << >>
         /\ from + Block <= Len(s) => Len(Part(s, from)) = Block
         /\ from + Block > Len(s) => Len(Part(s, from)) < Block
<1> DEFINE end == Min2(from + Block, Len(s))
<1>0. Block \in Nat \ {0} /\ Len(s) \in Nat
  BY SerialConstants, LenProperties
<1>1. end \in Nat /\ end <= Len(s) /\ from + 1 \in Nat
  BY <1>0 DEF Min2
<1>2. \A i \in from + 1 .. end : s[i] \in Nat
  BY <1>0, <1>1, ElementOfSeq
<1>3. /\ SubSeq(s, from + 1, end) \in Seq(Nat)
      /\ Len(SubSeq(s, from + 1, end)) = IF from + 1 <= end THEN end - (from + 1) + 1 ELSE 0
  BY <1>1, <1>2, SubSeqProperties
<1>4. Part(s, from) = SubSeq(s, from + 1, end)
  BY DEF Part
<1>5. end = IF from + Block < Len(s) THEN from + Block ELSE Len(s)
  BY DEF Min2
<1> HIDE DEF end
<1>6. from >= Len(s) => Part(s, from) = << >>
  BY <1>0, <1>1, <1>4, <1>5, SubSeqEmpty
<1>7. /\ Part(s, from) \in Seq(Nat)
      /\ Len(Part(s, from)) = IF from + 1 <= end THEN end - from ELSE 0
  BY <1>0, <1>1, <1>3, <1>4
<1>8. from < Len(s) => Part(s, from) # << >>
  BY <1>0, <1>1, <1>5, <1>7, EmptySeq
<1> QED
  BY <1>0, <1>1, <1>5, <1>6, <1>7, <1>8

(* The first bytes and the next block are the first bytes, and more.         *)
LEMMA PartJoins ==
  ASSUME NEW s \in Seq(Nat), NEW from \in 0 .. Len(s)
  PROVE  SubSeq(s, 1, from) \o Part(s, from) = SubSeq(s, 1, Min2(from + Block, Len(s)))
<1> DEFINE end == Min2(from + Block, Len(s))
<1>1. Block \in Nat \ {0} /\ Len(s) \in Nat
  BY SerialConstants, LenProperties
<1>2. end \in from .. Len(s) /\ 1 \in 1 .. Len(s) + 1 /\ from \in 1 - 1 .. Len(s)
  BY <1>1 DEF Min2
<1>3. Part(s, from) = SubSeq(s, from + 1, end)
  BY DEF Part
<1> HIDE DEF end
<1>4. SubSeq(s, 1, from) \o SubSeq(s, from + 1, end) = SubSeq(s, 1, end)
  BY <1>2, ConcatAdjacentSubSeq
<1> QED
  BY <1>3, <1>4 DEF end

LEMMA Beginning ==
  ASSUME NEW s \in Seq(Nat), NEW n \in 0 .. Len(s)
  PROVE  SubSeq(s, 1, n) \in Seq(Nat) /\ Len(SubSeq(s, 1, n)) = n
<1>1. Len(s) \in Nat /\ \A i \in 1 .. n : s[i] \in Nat
  BY LenProperties, ElementOfSeq
<1> QED
  BY <1>1, SubSeqProperties

-----------------------------------------------------------------------------
(* Types.  The wire and the job are typed separately: no step needs both.    *)

JobType ==
  /\ job \in {"none", "pull", "push"} /\ at \in {"idle", "send", "wait"}
  /\ result \in {"none", "ok", "timeout", "io", "nomem"}
  /\ offset \in Nat /\ blob \in Seq(Nat) /\ file \in Seq(Nat)
  /\ request \in Requests /\ clean \in BOOLEAN
QueueType == queue \in Seq(Answers) /\ Len(queue) <= 2
WireType == inbox \in Seq(Requests) /\ outbox \in Seq(Answers)
RestType ==
  /\ cfg \in Seq(Nat) /\ staging \in Seq(Nat)
  /\ line \in {"good", "silent"} /\ link \in BOOLEAN /\ serial \in BOOLEAN

LEMMA TypeParts == TypeOK <=> JobType /\ QueueType /\ WireType /\ RestType
BY DEF TypeOK, JobType, QueueType, WireType, RestType

LEMMA FrameType ==
  ASSUME JobType
  PROVE  Frame \in Requests /\ Commit \in Requests
<1>1. OffsetMod \in Nat \ {0} /\ offset \in Nat /\ blob \in Seq(Nat)
  BY SerialConstants DEF JobType
<1>2. offset % OffsetMod \in 0 .. OffsetMod - 1 /\ 0 \in 0 .. OffsetMod - 1
  BY <1>1
<1>3. Part(blob, offset) \in Seq(Nat) /\ << >> \in Seq(Nat)
  BY <1>1, PartFacts
<1> QED
  BY <1>2, <1>3 DEF Frame, Get, Set, Commit, Requests

LEMMA TypeInit == Init => TypeOK
<1> SUFFICES ASSUME Init PROVE TypeOK
  OBVIOUS
<1>1. Commit \in Requests
  BY SerialConstants DEF Commit, Requests
<1>2. cfg \in Seq(Nat) /\ << >> \in Seq(Nat)
  BY SerialConstants, ImageFacts DEF Init
<1>3. JobType
  BY <1>1, <1>2 DEF Init, JobType
<1>4. QueueType /\ WireType
  BY DEF Init, QueueType, WireType
<1>5. RestType
  BY <1>2 DEF Init, RestType
<1> QED
  BY <1>3, <1>4, <1>5, TypeParts

LEMMA TypeStart ==
  ASSUME TypeOK, StartPull \/ StartPush
  PROVE  TypeOK'
<1>1. blob' \in Seq(Nat)
  BY SerialConstants, ImageFacts DEF StartPull, StartPush
<1>2. JobType'
  <2>1. clean' \in BOOLEAN
    BY DEF StartPull, StartPush
  <2>2. /\ JobType /\ offset' = 0 /\ file' = << >> /\ at' = "send" /\ job' \in {"pull", "push"}
        /\ UNCHANGED <<result, request>>
    BY TypeParts DEF StartPull, StartPush
  <2> QED
    BY <1>1, <2>1, <2>2 DEF JobType
<1>3. UNCHANGED <<inbox, outbox, line, target_vars, rx_vars>>
  BY DEF StartPull, StartPush
<1>4. QueueType' /\ WireType' /\ RestType'
  BY <1>3, TypeParts DEF QueueType, WireType, RestType, target_vars, rx_vars
<1> QED
  BY <1>2, <1>4 DEF TypeOK, JobType, QueueType, WireType, RestType

LEMMA TypeSend ==
  ASSUME TypeOK, Send
  PROVE  TypeOK'
<1>1. JobType /\ QueueType /\ WireType /\ RestType
  BY TypeParts
<1>2. Frame \in Requests /\ Commit \in Requests
  BY <1>1, FrameType
<1>3. JobType'
  BY <1>1, <1>2 DEF JobType, Send, End
<1>4. inbox' \in Seq(Requests) /\ outbox' \in Seq(Answers)
  <2>1. inbox \in Seq(Requests) /\ outbox \in Seq(Answers)
    BY <1>1 DEF WireType
  <2>2. (inbox' = inbox \/ inbox' = Append(inbox, Frame)) /\ outbox' = outbox
    BY DEF Send
  <2> QED
    BY <1>2, <2>1, <2>2, AppendProperties
<1>5. QueueType'
  BY DEF Send, QueueType
<1>6. RestType'
  BY <1>1 DEF Send, RestType, target_vars
<1> QED
  BY <1>3, <1>4, <1>5, <1>6 DEF TypeOK, JobType, QueueType, WireType, RestType

LEMMA TypeTake ==
  ASSUME TypeOK, Take
  PROVE  TypeOK'
<1>1. JobType /\ QueueType /\ WireType /\ RestType
  BY TypeParts
<1>2. Commit \in Requests
  BY <1>1, FrameType
<1>3. queue' \in Seq(Answers) /\ Len(queue') <= 2
  BY <1>1 DEF QueueType, Take
<1>4. Head(queue).data \in Seq(Nat)
  <2>1. Head(queue) \in Answers
    BY <1>1, HeadTailProperties DEF QueueType, Take
  <2> QED
    BY <2>1 DEF Answers
<1>5. ASSUME NEW data \in Seq(Nat), Pulled(data)
      PROVE  /\ blob' \in Seq(Nat) /\ file' \in Seq(Nat) /\ offset' \in Nat
             /\ at' \in {"idle", "send"} /\ result' \in {"none", "ok", "timeout", "io", "nomem"}
             /\ request' \in Requests
  <2>1. /\ blob \in Seq(Nat) /\ file \in Seq(Nat) /\ offset \in Nat /\ request \in Requests
        /\ result \in {"none", "ok", "timeout", "io", "nomem"}
    BY <1>1 DEF JobType
  <2>2. blob \o data \in Seq(Nat) /\ (offset + Len(data)) % OffsetMod \in Nat
    BY <2>1, SerialConstants, ConcatProperties, LenProperties
  <2>3. blob' \in Seq(Nat)
    BY <1>5, <2>1, <2>2 DEF Pulled
  <2>4. file' \in Seq(Nat)
    BY <1>5, <2>1, <2>2 DEF Pulled, WriteFile
  <2>5. offset' \in Nat
    BY <1>5, <2>1, <2>2 DEF Pulled, WriteFile, End
  <2>6. /\ at' \in {"idle", "send"} /\ result' \in {"none", "ok", "timeout", "io", "nomem"}
        /\ request' \in Requests
    BY <1>2, <1>5, <2>1 DEF Pulled, WriteFile, End
  <2> QED
    BY <2>3, <2>4, <2>5, <2>6
<1>6. ASSUME Pushed
      PROVE  /\ blob' \in Seq(Nat) /\ file' \in Seq(Nat) /\ offset' \in Nat
             /\ at' \in {"idle", "send"} /\ result' \in {"none", "ok", "timeout", "io", "nomem"}
             /\ request' \in Requests
  <2>1. offset \in Nat /\ Len(blob) \in Nat /\ Block \in Nat
    BY <1>1, SerialConstants, LenProperties DEF JobType
  <2>2. offset < Len(blob) => offset + Min2(Block, Len(blob) - offset) \in Nat
    BY <2>1 DEF Min2
  <2> QED
    BY <1>1, <1>2, <1>6, <2>2 DEF Pushed, End, JobType
<1>7. JobType'
  BY <1>1, <1>4, <1>5, <1>6 DEF JobType, Take
<1>8. UNCHANGED <<inbox, outbox, line, cfg, staging, link, serial>>
  BY DEF Take, wire_vars, target_vars
<1>9. WireType' /\ RestType'
  BY <1>1, <1>8 DEF WireType, RestType
<1> QED
  BY <1>3, <1>7, <1>9 DEF TypeOK, JobType, QueueType, WireType, RestType

LEMMA TypeReceive ==
  ASSUME TypeOK, Receive
  PROVE  TypeOK'
<1>1. JobType /\ QueueType /\ WireType /\ RestType
  BY TypeParts
<1>2. outbox' \in Seq(Answers) /\ Head(outbox) \in Answers
  BY <1>1 DEF WireType, Receive
<1>3. queue' \in Seq(Answers) /\ Len(queue') <= 2
  BY <1>1, <1>2 DEF QueueType, Receive
<1>4. JobType' /\ RestType' /\ inbox' \in Seq(Requests)
  BY <1>1 DEF JobType, RestType, WireType, Receive, job_vars, target_vars
<1> QED
  BY <1>2, <1>3, <1>4 DEF TypeOK, JobType, QueueType, WireType, RestType

LEMMA TypeServe ==
  ASSUME TypeOK, Serve
  PROVE  TypeOK'
<1>1. JobType /\ QueueType /\ WireType /\ RestType
  BY TypeParts
<1>2. Head(inbox) \in Requests /\ inbox' \in Seq(Requests)
  BY <1>1 DEF WireType, Serve
<1> DEFINE r == Head(inbox)
<1>3. r.off \in Nat /\ r.data \in Seq(Nat) /\ cfg \in Seq(Nat) /\ staging \in Seq(Nat)
  BY <1>1, <1>2, SerialConstants DEF Requests, RestType
<1>4. Answer(r) \in Answers
  <2>0. \A from \in Nat : Part(cfg, from) \in Seq(Nat)
    BY <1>3, PartFacts
  <2>1. Part(cfg, r.off) \in Seq(Nat)
    BY <1>3, <2>0
  <2>2. (IF r.cmd = "GET_CONFIG" THEN Part(cfg, r.off) ELSE << >>) \in Seq(Nat)
    <3>1. << >> \in Seq(Nat)
      OBVIOUS
    <3> QED
      BY <2>1, <3>1
  <2> QED
    BY <1>2, <2>2 DEF Answer, Answers
<1>5. outbox' \in Seq(Answers)
  BY <1>1, <1>4, AppendProperties DEF Serve, Answer, WireType
<1>6. SubSeq(staging, 1, Min2(r.off, Len(staging))) \o r.data \in Seq(Nat)
  <2>1. Min2(r.off, Len(staging)) \in 0 .. Len(staging)
    BY <1>3, LenProperties DEF Min2
  <2> QED
    BY <1>3, <2>1, Beginning, ConcatProperties
<1>7. cfg' \in Seq(Nat) /\ staging' \in Seq(Nat)
  BY <1>3, <1>6 DEF Serve
<1>8. JobType' /\ QueueType' /\ UNCHANGED <<line, link, serial>>
  BY <1>1 DEF JobType, QueueType, Serve, job_vars, rx_vars
<1> QED
  BY <1>1, <1>2, <1>5, <1>7, <1>8 DEF TypeOK, JobType, QueueType, WireType, RestType

LEMMA TypeLose ==
  ASSUME TypeOK, Lose
  PROVE  TypeOK'
<1>1. JobType /\ QueueType /\ WireType /\ RestType
  BY TypeParts
<1>2. inbox' \in Seq(Requests) /\ outbox' \in Seq(Answers)
  BY <1>1, HeadTailProperties DEF WireType, Lose
<1>3. JobType' /\ QueueType' /\ RestType'
  BY <1>1 DEF JobType, QueueType, RestType, Lose, job_vars, rx_vars, target_vars
<1> QED
  BY <1>2, <1>3 DEF TypeOK, JobType, QueueType, WireType, RestType

LEMMA TypeOther ==
  ASSUME TypeOK, TimeOut \/ Status \/ Silence \/ LineChanges \/ UNCHANGED vars
  PROVE  TypeOK'
<1>1. JobType /\ QueueType /\ WireType /\ RestType
  BY TypeParts
<1>2. Commit \in Requests
  BY <1>1, FrameType
<1>3. JobType'
  BY <1>1, <1>2 DEF JobType, TimeOut, End, Status, Silence, LineChanges, vars, job_vars
<1>4. QueueType'
  BY <1>1 DEF QueueType, TimeOut, Status, Silence, LineChanges, vars, rx_vars
<1>5. inbox' \in Seq(Requests) /\ outbox' \in Seq(Answers)
  BY <1>1, EmptySeq DEF WireType, TimeOut, Status, Silence, LineChanges, vars, wire_vars
<1>6. RestType'
  BY <1>1 DEF RestType, TimeOut, Status, Silence, LineChanges, vars, wire_vars, rx_vars, target_vars
<1> QED
  BY <1>3, <1>4, <1>5, <1>6 DEF TypeOK, JobType, QueueType, WireType, RestType

LEMMA TypeStep == TypeOK /\ [Next]_vars => TypeOK'
BY TypeStart, TypeSend, TypeTake, TypeReceive, TypeServe, TypeLose, TypeOther DEF Next

(* The types of the transfer, the queue, the wire and the target             *)
(* (target_serial.c:192-244, 313-361, 392-502).                              *)
THEOREM TypeCorrect == Spec => []TypeOK
BY TypeInit, TypeStep, PTL DEF Spec

-----------------------------------------------------------------------------
(* The invariant.                                                            *)

LEMMA Numbers ==
  ASSUME TypeOK
  PROVE  /\ Block \in Nat \ {0} /\ OffsetMod \in Nat \ {0} /\ offset \in Nat
         /\ blob \in Seq(Nat) /\ Len(blob) \in Nat /\ cfg \in Seq(Nat) /\ Len(cfg) \in Nat
         /\ staging \in Seq(Nat) /\ Len(staging) \in Nat
BY SerialConstants, LenProperties DEF TypeOK

(* A file that is pushed has a byte at least, and its offsets can be said.   *)
LEMMA PushedFile ==
  ASSUME JobInv, job = "push"
  PROVE  blob \in Images /\ Len(blob) \in 1 .. OffsetMod
<1>1. PICK n \in FileLens : blob = Image(n)
  BY DEF JobInv
<1>2. n \in 1 .. OffsetMod /\ n \in Nat
  BY SerialConstants
<1> QED
  BY <1>1, <1>2, ImageFacts DEF Images

(* A transfer that began on a quiet wire asks with the very offset it is at. *)
LEMMA OffsetSaid ==
  ASSUME TypeOK, JobInv, PullInv, at # "idle", Frame # Commit
  PROVE  offset % OffsetMod = offset
<1>1. offset < OffsetMod
  <2>1. CASE job = "pull"
    BY <2>1 DEF PullInv, WholeBlocks
  <2>2. CASE job # "pull"
    <3>1. job = "push"
      BY <2>2 DEF JobInv, TypeOK
    <3>2. offset < Len(blob)
      BY <2>2 DEF Frame
    <3> QED
      BY <3>1, <3>2, PushedFile, Numbers
  <2> QED
    BY <2>1, <2>2
<1>2. OffsetMod \in Nat \ {0} /\ offset \in Nat
  BY Numbers
<1> QED
  BY <1>1, <1>2

LEMMA StartStep ==
  ASSUME IInv, StartPull \/ StartPush
  PROVE  JobInv' /\ (clean' => CleanInv')
<1>1. /\ clean' => Quiet
      /\ UNCHANGED <<inbox, outbox, cfg, staging>> /\ at' = "send" /\ offset' = 0
      /\ job' \in {"pull", "push"}
      /\ job' = "pull" => blob' = << >>
      /\ job' = "push" => \E n \in FileLens : blob' = Image(n)
  BY DEF StartPull, StartPush, Quiet, target_vars
<1>2. JobInv'
  <2>1. ASSUME job' = "push" PROVE offset' <= Len(blob')
    <3>1. PICK n \in FileLens : blob' = Image(n)
      BY <1>1, <2>1
    <3>2. n \in Nat
      BY SerialConstants
    <3> QED
      BY <1>1, <3>1, <3>2, ImageFacts
  <2>2. at' = "send" /\ job' # "none"
    BY <1>1
  <2> QED
    BY <1>1, <2>1, <2>2 DEF JobInv
<1>3. PullInv'
  <2>1. 0 < OffsetMod /\ 0 = 0 * Block /\ 0 <= Len(cfg) /\ SubSeq(cfg, 1, 0) = << >>
    BY Numbers, SubSeqEmpty DEF IInv
  <2>2. job' = "pull" => blob' = SubSeq(cfg, 1, 0)
    BY <1>1, <2>1
  <2>3. WholeBlocks'
    BY <1>1, <2>1 DEF WholeBlocks
  <2> QED
    BY <1>1, <2>1, <2>2, <2>3 DEF PullInv
<1> QED
  BY <1>1, <1>2, <1>3 DEF CleanInv, SendInv, WaitInv, InboxInv, DoneInv, Quiet, Asked

LEMMA SendStep ==
  ASSUME IInv, Send
  PROVE  JobInv' /\ (clean' => CleanInv')
<1>1. /\ at = "send" /\ queue' = << >>
      /\ UNCHANGED <<job, blob, file, clean, outbox, cfg, staging>>
  BY DEF Send, target_vars
<1>2. clean => Quiet /\ Asked
  BY <1>1 DEF IInv, CleanInv, SendInv
<1>3. CASE at' = "wait"
  <2>1. /\ request' = Frame /\ UNCHANGED <<result, offset>>
        /\ inbox' = Append(inbox, Frame) \/ inbox' = inbox
    BY <1>3 DEF Send, End
  <2>2. JobInv'
    <3>1. Frame' = Frame
      BY <1>1, <2>1 DEF Frame, Get, Set, Commit
    <3> QED
      BY <1>1, <1>3, <2>1, <3>1 DEF IInv, JobInv
  <2>3. ASSUME clean PROVE CleanInv'
    <3>1. inbox' = << >> \/ inbox' = <<Frame>>
      BY <1>2, <2>1, <2>3, OneElement DEF Quiet
    <3>2. Asked' /\ outbox' = << >>
      BY <1>1, <1>2, <2>1, <2>3 DEF Asked, Quiet
    <3>3. WaitInv'
      BY <1>1, <2>1, <3>1, <3>2 DEF WaitInv, Quiet
    <3>4. InboxInv'
      <4>1. ASSUME Frame.cmd = "COMMIT" PROVE staging \in Images
        <5>1. job = "push" /\ ~(offset < Len(blob))
          BY <1>1, <4>1 DEF Frame, Get, Set, IInv, JobInv, TypeOK
        <5>2. blob \in Images /\ Len(blob) \in 1 .. OffsetMod /\ offset <= Len(blob)
          BY <1>1, <5>1, PushedFile DEF IInv, JobInv
        <5>3. offset = Len(blob) /\ offset # 0
          BY <5>1, <5>2, Numbers DEF IInv
        <5>4. staging = SubSeq(blob, 1, Len(blob))
          BY <1>2, <2>3, <5>1, <5>3 DEF Asked
        <5> QED
          BY <5>2, <5>4, SubSeqFull, Numbers DEF IInv
      <4> QED
        BY <1>1, <3>1, <4>1, OneElement DEF InboxInv
    <3>5. PullInv'
      BY <1>1, <2>1, <2>3 DEF IInv, CleanInv, PullInv, WholeBlocks
    <3> QED
      BY <1>3, <3>3, <3>4, <3>5 DEF CleanInv, SendInv, DoneInv
  <2> QED
    BY <1>1, <2>2, <2>3
<1>4. CASE at' # "wait"
  <2>1. at' = "idle" /\ result' = "io" /\ inbox' = inbox
    BY <1>4 DEF Send, End
  <2>2. JobInv'
    BY <1>1, <2>1 DEF IInv, JobInv
  <2> QED
    BY <1>1, <1>2, <2>1, <2>2 DEF CleanInv, SendInv, WaitInv, PullInv, InboxInv, DoneInv, Quiet
<1> QED
  BY <1>3, <1>4

(* A pull takes a block: it has one more, or all.                            *)
LEMMA PulledStep ==
  ASSUME IInv, clean, job = "pull", at = "wait", NEW data, data = Part(cfg, offset),
         Pulled(data), UNCHANGED <<job, cfg>>
  PROVE  PullInv' /\ (at' = "idle" /\ result' = "ok" => file' = cfg)
<1>1. /\ WholeBlocks
      /\ Len(cfg) < OffsetMod => offset <= Len(cfg) /\ blob = SubSeq(cfg, 1, offset)
  BY DEF IInv, CleanInv, PullInv
<1>2. /\ Block \in Nat \ {0} /\ OffsetMod \in Nat /\ offset \in Nat
      /\ cfg \in Seq(Nat) /\ Len(cfg) \in Nat
  BY Numbers DEF IInv
<1>3. /\ offset + Block <= OffsetMod
      /\ (offset + Block) % OffsetMod < OffsetMod
      /\ \E q \in Nat : (offset + Block) % OffsetMod = q * Block
      /\ offset + Block < OffsetMod => (offset + Block) % OffsetMod = offset + Block
  BY <1>1, <1>2, NextBlock
<1>4. /\ offset >= Len(cfg) => data = << >>
      /\ offset < Len(cfg) => data # << >>
      /\ offset + Block <= Len(cfg) => Len(data) = Block
      /\ offset + Block > Len(cfg) => Len(data) < Block
  BY <1>2, PartFacts
<1>5. /\ Len(cfg) < OffsetMod /\ offset + Block <= Len(cfg) => blob \o data = SubSeq(cfg, 1, offset + Block)
      /\ Len(cfg) < OffsetMod /\ offset + Block > Len(cfg) => blob \o data = cfg
  <2>1. SUFFICES ASSUME Len(cfg) < OffsetMod
                 PROVE  blob \o data = IF offset + Block <= Len(cfg) THEN SubSeq(cfg, 1, offset + Block) ELSE cfg
    BY <1>2
  <2>2. offset \in 0 .. Len(cfg)
    BY <1>1, <1>2, <2>1
  <2>3. blob \o data = SubSeq(cfg, 1, Min2(offset + Block, Len(cfg)))
    BY <1>1, <1>2, <2>1, <2>2, PartJoins
  <2>4. SubSeq(cfg, 1, Len(cfg)) = cfg
    BY <1>2, SubSeqFull
  <2> QED
    BY <1>2, <2>3, <2>4 DEF Min2
<1>6. CASE at' = "send"
  <2>1. /\ data # << >> /\ blob' = blob \o data
        /\ Len(data) >= Block /\ offset' = (offset + Len(data)) % OffsetMod
    BY <1>6 DEF Pulled, WriteFile, End
  <2>2. offset + Block <= Len(cfg) /\ Len(data) = Block
    BY <1>2, <1>4, <2>1
  <2>3. offset' = (offset + Block) % OffsetMod
    BY <2>1, <2>2
  <2>4. WholeBlocks'
    BY <1>3, <2>3 DEF WholeBlocks
  <2>5. Len(cfg) < OffsetMod => offset' = offset + Block
    BY <1>2, <1>3, <2>2, <2>3
  <2> QED
    BY <1>2, <1>5, <1>6, <2>1, <2>2, <2>4, <2>5 DEF PullInv
<1>7. CASE at' # "send"
  <2>1. at' = "idle"
    BY <1>7 DEF Pulled, WriteFile, End
  <2>2. ASSUME result' = "ok" PROVE file' = cfg
    <3>1. \/ data = << >> /\ file' = blob
          \/ data # << >> /\ Len(data) < Block /\ file' = blob \o data
      BY <1>7, <2>2 DEF Pulled, WriteFile, End
    <3>2. offset + Block > Len(cfg) /\ Len(cfg) < OffsetMod
      <4>1. data = << >> \/ Len(data) < Block
        BY <3>1
      <4>2. offset + Block > Len(cfg)
        BY <1>2, <1>4, <4>1
      <4>3. offset + Block <= OffsetMod
        BY <1>3
      <4> QED
        BY <1>2, <4>2, <4>3
    <3>3. CASE data = << >>
      <4>1. offset = Len(cfg) /\ blob = SubSeq(cfg, 1, offset)
        BY <1>1, <1>2, <1>4, <3>2, <3>3
      <4> QED
        BY <1>2, <3>1, <3>3, <4>1, SubSeqFull
    <3>4. CASE data # << >>
      BY <1>2, <1>5, <3>1, <3>2, <3>4
    <3> QED
      BY <3>3, <3>4
  <2> QED
    BY <2>1, <2>2 DEF PullInv
<1> QED
  BY <1>6, <1>7

(* A push goes on with the next block, which the target has, or is over.     *)
LEMMA PushedStep ==
  ASSUME IInv, job = "push", at = "wait", Pushed, UNCHANGED <<job, cfg, staging>>
  PROVE  /\ at' # "idle" => offset' <= Len(blob')
         /\ Served => (at' = "send" => Asked') /\ (at' = "idle" => cfg = blob')
<1>1. Len(blob) \in Nat /\ offset \in Nat /\ Block \in Nat \ {0}
  BY Numbers DEF IInv
<1>2. blob' = blob
  BY DEF Pushed
<1>3. CASE offset < Len(blob)
  <2>1. at' = "send" /\ offset' = NextOffset
    BY <1>3 DEF Pushed, NextOffset
  <2>2. NextOffset <= Len(blob)
    BY <1>1, <1>3 DEF NextOffset, Min2
  <2> QED
    BY <1>2, <1>3, <2>1, <2>2 DEF Served, Asked
<1>4. CASE ~(offset < Len(blob))
  <2>1. at' = "idle"
    BY <1>4 DEF Pushed, End
  <2> QED
    BY <1>2, <1>4, <2>1 DEF Served
<1> QED
  BY <1>3, <1>4

LEMMA TakeStep ==
  ASSUME IInv, Take
  PROVE  JobInv' /\ (clean' => CleanInv')
<1>1. /\ at = "wait" /\ queue # << >> /\ at' \in {"send", "idle"}
      /\ UNCHANGED <<job, clean, inbox, outbox, cfg, staging>>
  BY DEF Take, wire_vars, target_vars, Pulled, Pushed, WriteFile, End
<1>2. \/ job = "pull" /\ Pulled(Head(queue).data)
      \/ job = "push" /\ Pushed
  BY <1>1 DEF Take, IInv, JobInv, TypeOK
<1>3. JobInv'
  BY <1>1, <1>2, PushedStep DEF IInv, JobInv, Pushed
<1>4. ASSUME clean PROVE CleanInv'
  <2>1. Quiet /\ queue = <<Answer(request)>> /\ Served
    BY <1>1, <1>4 DEF IInv, CleanInv, WaitInv
  <2>2. Quiet' /\ InboxInv'
    BY <1>1, <2>1 DEF Quiet, InboxInv
  <2>3. CASE job = "pull"
    <3>1. request = Get(offset) /\ Frame # Commit
      BY <1>1, <2>3 DEF IInv, JobInv, Frame, Get, Commit
    <3>2. request.off = offset /\ request.cmd = "GET_CONFIG"
      <4>1. offset % OffsetMod = offset
        BY <1>1, <1>4, <3>1, OffsetSaid DEF IInv, CleanInv
      <4> QED
        BY <3>1, <4>1 DEF Get
    <3>3. Head(queue).data = Part(cfg, offset)
      BY <2>1, <3>2, OneElement DEF Answer
    <3>4. PullInv' /\ (at' = "idle" /\ result' = "ok" => file' = cfg)
      BY <1>1, <1>2, <1>4, <2>3, <3>3, PulledStep
    <3> QED
      BY <1>1, <2>2, <2>3, <3>4 DEF CleanInv, SendInv, WaitInv, DoneInv, Asked
  <2>4. CASE job = "push"
    <3>1. (at' = "send" => Asked') /\ (at' = "idle" => cfg = blob')
      BY <1>1, <1>2, <2>1, <2>4, PushedStep
    <3> QED
      BY <1>1, <2>2, <2>4, <3>1 DEF CleanInv, SendInv, WaitInv, PullInv, DoneInv
  <2> QED
    BY <1>2, <2>3, <2>4
<1> QED
  BY <1>1, <1>3, <1>4

(* A step of the other side leaves the transfer alone.                       *)
LEMMA JobKept ==
  ASSUME IInv, UNCHANGED job_vars
  PROVE  JobInv'
BY DEF IInv, JobInv, job_vars, Frame, Get, Set, Commit

LEMMA ReceiveStep ==
  ASSUME IInv, Receive
  PROVE  JobInv' /\ (clean' => CleanInv')
<1>1. UNCHANGED job_vars /\ UNCHANGED <<inbox, cfg, staging>> /\ outbox # << >>
  BY DEF Receive, target_vars
<1>2. JobInv'
  BY <1>1, JobKept
<1>3. UNCHANGED <<job, at, result, offset, blob, file, request, clean>>
  BY <1>1 DEF job_vars
<1>4. ASSUME clean PROVE CleanInv'
  <2>1. PullInv' /\ InboxInv'
    BY <1>1, <1>3, <1>4 DEF IInv, CleanInv, PullInv, InboxInv, WholeBlocks
  <2>2. SendInv' /\ DoneInv'
    BY <1>1, <1>3, <1>4 DEF IInv, CleanInv, SendInv, DoneInv, Quiet
  <2>3. WaitInv'
    <3>1. SUFFICES ASSUME at = "wait" PROVE WaitInv'
      BY <1>3 DEF WaitInv
    <3>2. inbox = << >> /\ outbox = <<Answer(request)>> /\ queue = << >> /\ Served
      BY <1>1, <1>4, <3>1 DEF IInv, CleanInv, WaitInv, Quiet
    <3>3. outbox' = << >> /\ queue' = <<Answer(request)>>
      BY <3>2, OneElement DEF Receive
    <3>4. Answer(request)' = Answer(request) /\ Served'
      BY <1>1, <1>3, <3>2 DEF Answer, Part, Served, NextOffset
    <3> QED
      BY <1>1, <3>2, <3>3, <3>4 DEF WaitInv, Quiet
  <2> QED
    BY <2>1, <2>2, <2>3 DEF CleanInv
<1> QED
  BY <1>2, <1>3, <1>4

(* The target has the next block of the file, or the file.                   *)
LEMMA ServedByTarget ==
  ASSUME IInv, clean, at = "wait", inbox = <<request>>, Asked, Serve
  PROVE  Served' /\ (job = "pull" => cfg' = cfg) /\ (request.cmd # "COMMIT" => cfg' = cfg)
<1>1. Head(inbox) = request /\ request = Frame
  BY OneElement DEF IInv, JobInv
<1>2. /\ cfg' = IF request.cmd = "COMMIT" THEN staging ELSE cfg
      /\ request.cmd = "SET_CONFIG" =>
           staging' = SubSeq(staging, 1, Min2(request.off, Len(staging))) \o request.data
      /\ UNCHANGED <<job, offset, blob>>
  BY <1>1 DEF Serve, job_vars
<1>3. job = "pull" => request.cmd = "GET_CONFIG"
  BY <1>1 DEF Frame, Get
<1>4. ASSUME job = "push" PROVE Served'
  <2>0. /\ Block \in Nat \ {0} /\ offset \in Nat /\ blob \in Seq(Nat) /\ Len(blob) \in Nat
        /\ staging \in Seq(Nat) /\ Len(staging) \in Nat
    BY Numbers DEF IInv
  <2>1. blob \in Images /\ Len(blob) \in 1 .. OffsetMod /\ offset \in 0 .. Len(blob)
    BY <1>4, <2>0, PushedFile DEF IInv, JobInv
  <2>2. CASE offset < Len(blob)
    <3>1. request = Set(offset) /\ Frame # Commit
      BY <1>1, <1>4, <2>2 DEF Frame, Set, Commit
    <3>2. request.off = offset /\ request.cmd = "SET_CONFIG" /\ request.data = Part(blob, offset)
      <4>1. offset % OffsetMod = offset
        BY <3>1, OffsetSaid DEF IInv, CleanInv
      <4> QED
        BY <3>1, <4>1 DEF Set
    <3>3. SubSeq(staging, 1, Min2(offset, Len(staging))) = SubSeq(blob, 1, offset)
      <4>1. CASE offset = 0
        <5>1. Min2(offset, Len(staging)) = 0
          BY <2>0, <4>1 DEF Min2
        <5>2. SubSeq(staging, 1, 0) = << >> /\ SubSeq(blob, 1, 0) = << >>
          BY SubSeqEmpty
        <5> QED
          BY <4>1, <5>1, <5>2
      <4>2. CASE offset # 0
        <5>1. staging = SubSeq(blob, 1, offset)
          BY <1>4, <4>2 DEF Asked
        <5>2. Len(staging) = offset
          BY <2>0, <2>1, <5>1, Beginning
        <5>3. Min2(offset, Len(staging)) = Len(staging)
          BY <2>0, <5>2 DEF Min2
        <5> QED
          BY <2>0, <5>1, <5>3, SubSeqFull
      <4> QED
        BY <4>1, <4>2
    <3>4. staging' = SubSeq(blob, 1, Min2(offset + Block, Len(blob)))
      BY <1>2, <2>0, <2>1, <3>2, <3>3, PartJoins
    <3>5. Min2(offset + Block, Len(blob)) = NextOffset
      BY <2>0, <2>2 DEF Min2, NextOffset
    <3> QED
      BY <1>2, <2>2, <3>4, <3>5 DEF Served, NextOffset
  <2>3. CASE ~(offset < Len(blob))
    <3>1. request.cmd = "COMMIT"
      BY <1>1, <1>4, <2>3 DEF Frame, Commit
    <3>2. offset = Len(blob) /\ offset # 0
      BY <2>0, <2>1, <2>3
    <3>3. staging = blob
      BY <1>4, <2>0, <3>2, SubSeqFull DEF Asked
    <3> QED
      BY <1>2, <2>3, <3>1, <3>3 DEF Served
  <2> QED
    BY <2>2, <2>3
<1> QED
  BY <1>2, <1>3, <1>4 DEF Served

LEMMA ServeStep ==
  ASSUME IInv, Serve
  PROVE  JobInv' /\ (clean' => CleanInv')
<1>1. UNCHANGED job_vars /\ UNCHANGED queue /\ inbox # << >> /\ inbox' = Tail(inbox)
  BY DEF Serve, rx_vars
<1>2. JobInv'
  BY <1>1, JobKept
<1>3. UNCHANGED <<job, at, result, offset, blob, file, request, clean, queue>>
  BY <1>1 DEF job_vars
<1>4. ASSUME clean PROVE CleanInv'
  <2>1. InboxInv'
    BY <1>1, <1>4 DEF IInv, CleanInv, InboxInv
  <2>2. SendInv' /\ DoneInv'
    BY <1>1, <1>3, <1>4 DEF IInv, CleanInv, SendInv, DoneInv, Quiet
  <2>3. WaitInv' /\ PullInv'
    <3>1. CASE at = "idle"
      BY <1>3, <3>1 DEF WaitInv, PullInv
    <3>2. CASE at = "send"
      BY <1>1, <1>4, <3>2 DEF IInv, CleanInv, SendInv, Quiet
    <3>3. CASE at = "wait"
      <4>1. inbox = <<request>> /\ outbox = << >> /\ queue = << >> /\ Asked
        BY <1>1, <1>4, <3>3 DEF IInv, CleanInv, WaitInv, Quiet
      <4>2. /\ Served' /\ (job = "pull" => cfg' = cfg)
            /\ request.cmd # "COMMIT" => cfg' = cfg
        BY <1>4, <3>3, <4>1, ServedByTarget
      <4>3. inbox' = << >> /\ outbox' = <<Answer(request)>>
        BY <1>1, <4>1, OneElement DEF Serve, Answer
      <4>4. Answer(request)' = Answer(request)
        BY <1>3, <4>2 DEF Answer, Part
      <4>5. WaitInv'
        BY <1>3, <4>1, <4>2, <4>3, <4>4 DEF WaitInv
      <4>6. PullInv'
        BY <1>3, <1>4, <4>2 DEF IInv, CleanInv, PullInv, WholeBlocks
      <4> QED
        BY <4>5, <4>6
    <3> QED
      BY <3>1, <3>2, <3>3 DEF IInv, TypeOK
  <2> QED
    BY <2>1, <2>2, <2>3 DEF CleanInv
<1> QED
  BY <1>2, <1>3, <1>4

LEMMA LoseStep ==
  ASSUME IInv, Lose
  PROVE  JobInv' /\ (clean' => CleanInv')
<1>1. UNCHANGED job_vars /\ UNCHANGED <<queue, cfg, staging>> /\ ~Quiet
  BY DEF Lose, rx_vars, target_vars, Quiet
<1>2. JobInv'
  BY <1>1, JobKept
<1>3. UNCHANGED <<job, at, result, offset, blob, file, request, clean>>
  BY <1>1 DEF job_vars
<1>4. ASSUME clean PROVE CleanInv'
  <2>1. PullInv' /\ SendInv' /\ DoneInv'
    BY <1>1, <1>3, <1>4 DEF IInv, CleanInv, PullInv, SendInv, DoneInv, WholeBlocks
  <2>2. InboxInv'
    BY <1>1, <1>4 DEF IInv, CleanInv, InboxInv, Lose
  <2>3. at = "wait" => Quiet' /\ queue = << >>
    BY <1>1, <1>4, OneElement DEF IInv, CleanInv, WaitInv, Quiet, Lose
  <2> QED
    BY <1>1, <1>3, <2>1, <2>2, <2>3 DEF CleanInv, WaitInv
<1> QED
  BY <1>2, <1>3, <1>4

LEMMA OtherStep ==
  ASSUME IInv, TimeOut \/ Status \/ Silence \/ LineChanges \/ UNCHANGED vars
  PROVE  JobInv' /\ (clean' => CleanInv')
<1>1. CASE TimeOut
  <2>1. /\ at' = "idle" /\ result' = "timeout"
        /\ UNCHANGED <<job, blob, clean, inbox, staging>>
    BY <1>1 DEF TimeOut, End, wire_vars, target_vars
  <2>2. JobInv'
    BY <1>1, <2>1 DEF IInv, JobInv, TimeOut
  <2> QED
    BY <2>1, <2>2 DEF IInv, CleanInv, SendInv, WaitInv, PullInv, InboxInv, DoneInv
<1>2. CASE ~TimeOut
  <2>1. UNCHANGED job_vars /\ UNCHANGED <<queue, cfg, staging>>
    BY <1>2 DEF Status, Silence, LineChanges, rx_vars, target_vars, vars
  <2>2. UNCHANGED <<inbox, outbox>> \/ Quiet'
    BY <1>2 DEF Status, Silence, LineChanges, wire_vars, vars, Quiet
  <2>3. UNCHANGED <<job, at, result, offset, blob, file, request, clean>>
    BY <2>1 DEF job_vars
  <2>4. ASSUME clean PROVE CleanInv'
    <3>1. PullInv' /\ SendInv' /\ DoneInv' /\ InboxInv'
      BY <2>1, <2>2, <2>3, <2>4
      DEF IInv, CleanInv, PullInv, SendInv, DoneInv, InboxInv, WholeBlocks, Quiet, Asked
    <3>2. Answer(request)' = Answer(request) /\ Served' = Served /\ Asked' = Asked
      BY <2>1, <2>3 DEF Answer, Part, Served, Asked, NextOffset
    <3>3. WaitInv'
      BY <2>1, <2>2, <2>3, <2>4, <3>2 DEF IInv, CleanInv, WaitInv, Quiet
    <3> QED
      BY <3>1, <3>3 DEF CleanInv
  <2> QED
    BY <2>1, <2>3, <2>4, JobKept
<1> QED
  BY <1>1, <1>2

LEMMA InvInit == Init => IInv
<1> SUFFICES ASSUME Init PROVE IInv
  OBVIOUS
<1>1. JobInv
  BY DEF Init, JobInv
<1>2. CleanInv
  BY DEF Init, CleanInv, SendInv, WaitInv, PullInv, InboxInv, DoneInv
<1> QED
  BY <1>1, <1>2, TypeInit DEF IInv

LEMMA InvStep == IInv /\ [Next]_vars => IInv'
<1> SUFFICES ASSUME IInv, [Next]_vars PROVE IInv'
  OBVIOUS
<1>1. TypeOK'
  BY TypeStep DEF IInv
<1>2. JobInv' /\ (clean' => CleanInv')
  BY StartStep, SendStep, TakeStep, ReceiveStep, ServeStep, LoseStep, OtherStep DEF Next
<1> QED
  BY <1>1, <1>2 DEF IInv

-----------------------------------------------------------------------------
LEMMA NotStale == IInv => NoStaleAnswer
BY OneElement DEF IInv, CleanInv, WaitInv, NoStaleAnswer, Answer

LEMMA Exact == IInv => TransfersFaithful
BY DEF IInv, CleanInv, DoneInv, TransfersFaithful, PullFaithful, PushFaithful, Succeeded

LEMMA CommitsWholeFiles == IInv /\ [Next]_vars => (cfg' # cfg /\ clean => cfg' \in Images)
<1> SUFFICES ASSUME IInv, [Next]_vars, cfg' # cfg, clean PROVE cfg' \in Images
  OBVIOUS
<1>1. Serve
  BY DEF Next, StartPull, StartPush, Send, Take, TimeOut, Receive, Status, Silence, Lose,
         LineChanges, vars, target_vars
<1>2. inbox # << >> /\ Head(inbox).cmd = "COMMIT" /\ cfg' = staging
  BY <1>1 DEF Serve
<1> QED
  BY <1>2 DEF IInv, CleanInv, InboxInv

(* An answer that command() takes is the answer to its own request, however  *)
(* many frames get lost or late (target_serial.c:326-361).                   *)
THEOREM NoStaleAnswerSafe == Spec => []NoStaleAnswer
BY InvInit, InvStep, NotStale, PTL DEF Spec

(* A pull that returns ESP_OK wrote the whole configuration, also when its   *)
(* length is a multiple of the block, and never when it is longer than the   *)
(* offsets can say; a push that returns ESP_OK made the whole file the       *)
(* configuration (target_serial.c:392-450, 458-502).                         *)
THEOREM TransfersExact == Spec => []TransfersFaithful
BY InvInit, InvStep, Exact, PTL DEF Spec

(* A push that fails half-way, or is given up, never leaves a part of a file *)
(* as the configuration, whatever is served late (target_serial.c:458-502).  *)
THEOREM ConfigsWhole == Spec => ConfigWhole
<1>1. Init => IInv
  BY InvInit
<1>2. IInv /\ [Next]_vars => IInv'
  BY InvStep
<1>3. IInv /\ [Next]_vars => [cfg' # cfg /\ clean => cfg' \in Images]_vars
  BY CommitsWholeFiles
<1> QED
  BY <1>1, <1>2, <1>3, PTL DEF Spec, ConfigWhole

-----------------------------------------------------------------------------
(* No transfer asks for ever: each answer brings a pull further in the heap, *)
(* and a push in its file.                                                   *)
Done == IF job = "pull" THEN Len(blob) ELSE offset
Goal == IF job = "pull" THEN MaxBlob ELSE Len(blob)
TransfersBounded == at # "idle" => Done \in 0 .. Goal
MovesOn ==
  \/ at = "send" /\ at' = "wait" /\ Done' = Done
  \/ at = "wait" /\ at' = "send" /\ Done' > Done
EveryAnswerCounts ==
  [][at # "idle" /\ at' # "idle" =>
       UNCHANGED <<at, job, offset, blob>> \/ (MovesOn /\ UNCHANGED <<job, Goal>>)]_vars

(* What was pulled fits into the heap.                                       *)
HeapInv == job = "pull" => Len(blob) <= MaxBlob

LEMMA HeapStep == TypeOK /\ HeapInv /\ [Next]_vars => HeapInv'
<1> SUFFICES ASSUME TypeOK, HeapInv, [Next]_vars PROVE HeapInv'
  OBVIOUS
<1>1. CASE StartPull
  <2>1. blob' = << >> /\ MaxBlob \in Nat
    BY <1>1, SerialConstants DEF StartPull
  <2> QED
    BY <2>1 DEF HeapInv
<1>2. CASE StartPush
  BY <1>2 DEF StartPush, HeapInv
<1>3. CASE Take
  <2>1. CASE job = "pull"
    <3>1. Len(blob') <= MaxBlob \/ blob' = blob
      BY <1>3, <2>1 DEF Take, Pulled
    <3> QED
      BY <1>3, <2>1, <3>1 DEF Take, HeapInv
  <2>2. CASE job # "pull"
    BY <1>3, <2>2 DEF Take, HeapInv
  <2> QED
    BY <2>1, <2>2
<1>4. CASE Send \/ TimeOut
  BY <1>4 DEF Send, TimeOut, HeapInv
<1>5. CASE Receive \/ Status \/ Silence \/ Serve \/ Lose \/ LineChanges \/ UNCHANGED vars
  <2>1. UNCHANGED job_vars
    BY <1>5 DEF Receive, Status, Silence, Serve, Lose, LineChanges, vars
  <2> QED
    BY <2>1 DEF job_vars, HeapInv
<1> QED
  BY <1>1, <1>2, <1>3, <1>4, <1>5 DEF Next

LEMMA AnswerCounts ==
  ASSUME TypeOK, JobInv, Take, at' # "idle"
  PROVE  MovesOn /\ UNCHANGED <<job, Goal>>
<1>1. at = "wait" /\ UNCHANGED job /\ offset \in Nat /\ blob \in Seq(Nat) /\ Block \in Nat \ {0}
  BY SerialConstants DEF Take, TypeOK
<1>2. CASE job = "pull"
  <2>1. PICK data : data = Head(queue).data
    OBVIOUS
  <2>2. data \in Seq(Nat)
    <3>1. Head(queue) \in Answers
      BY HeadTailProperties DEF Take, TypeOK
    <3> QED
      BY <2>1, <3>1 DEF Answers
  <2>3. at' = "send" /\ blob' = blob \o data /\ data # << >>
    BY <1>2, <2>1 DEF Take, Pulled, WriteFile, End
  <2>4. Len(blob') = Len(blob) + Len(data) /\ Len(data) \in Nat \ {0} /\ Len(blob) \in Nat
    BY <1>1, <2>2, <2>3
  <2>5. Done' = Len(blob') /\ Done = Len(blob) /\ UNCHANGED Goal
    BY <1>1, <1>2 DEF Done, Goal
  <2>6. Done' > Done
    BY <2>4, <2>5
  <2> QED
    BY <1>1, <2>3, <2>5, <2>6 DEF MovesOn
<1>3. CASE job # "pull"
  <2>1. job = "push" /\ offset <= Len(blob)
    BY <1>1, <1>3 DEF JobInv, TypeOK
  <2>2. offset < Len(blob) /\ offset' = offset + Min2(Block, Len(blob) - offset) /\ at' = "send"
        /\ UNCHANGED blob
    BY <1>3 DEF Take, Pushed, End
  <2>3. offset' > offset
    BY <1>1, <2>2, LenProperties DEF Min2
  <2> QED
    BY <1>1, <1>3, <2>2, <2>3 DEF MovesOn, Done, Goal
<1> QED
  BY <1>2, <1>3

(* Every answer that is taken ends the transfer or brings it further, and it *)
(* has an end: no target, however long its configuration is and whatever its *)
(* offsets wrap to, keeps a transfer asking (target_serial.c:392-502).       *)
THEOREM TransfersRunOut == Spec => []TransfersBounded /\ EveryAnswerCounts
<1>1. Init => HeapInv
  BY DEF Init, HeapInv
<1>2. IInv /\ HeapInv /\ [Next]_vars => HeapInv'
  BY HeapStep DEF IInv
<1>3. IInv /\ HeapInv => TransfersBounded
  <2> SUFFICES ASSUME IInv, HeapInv, at # "idle" PROVE Done \in 0 .. Goal
    BY DEF TransfersBounded
  <2>1. offset \in Nat /\ Len(blob) \in Nat /\ MaxBlob \in Nat /\ job \in {"pull", "push"}
    BY SerialConstants, LenProperties DEF IInv, TypeOK, JobInv
  <2>2. job = "push" => offset <= Len(blob)
    BY DEF IInv, JobInv
  <2> QED
    BY <2>1, <2>2 DEF HeapInv, Done, Goal
<1>4. IInv /\ [Next]_vars =>
        [at # "idle" /\ at' # "idle" =>
           UNCHANGED <<at, job, offset, blob>> \/ (MovesOn /\ UNCHANGED <<job, Goal>>)]_vars
  <2> SUFFICES ASSUME IInv, Next, at # "idle", at' # "idle"
               PROVE  UNCHANGED <<at, job, offset, blob>> \/ (MovesOn /\ UNCHANGED <<job, Goal>>)
    OBVIOUS
  <2>1. CASE Take
    BY <2>1, AnswerCounts DEF IInv
  <2>2. CASE Send
    BY <2>2 DEF Send, End, MovesOn, Done, Goal
  <2>3. CASE Receive \/ Status \/ Silence \/ Serve \/ Lose \/ LineChanges
    BY <2>3 DEF Receive, Status, Silence, Serve, Lose, LineChanges, job_vars
  <2> QED
    BY <2>1, <2>2, <2>3 DEF Next, StartPull, StartPush, TimeOut, End
<1> QED
  BY <1>1, <1>2, <1>3, <1>4, InvInit, InvStep, PTL DEF Spec, EveryAnswerCounts
=============================================================================
