---------------------------- MODULE VideoOutProofs ----------------------------
(***************************************************************************)
(* Whatever the number of buffers and of frames and flips under way, a      *)
(* frame is not drawn to a buffer in use and the GPU thread does not sleep  *)
(* for a label that nobody will release.  The labels are followed through   *)
(* the hands of the three threads: a buffer is held from the lock at the    *)
(* end of its frame to the flip after its own, by one of them at a time.    *)
(***************************************************************************)
EXTENDS VideoOut, FiniteSetTheorems, TLAPS

\* The order of the frames, and of the flips registered for them.
InTurn ==
    /\ Len(subscribers) = Len(frames) \/ Len(subscribers) = Len(frames) + 1
    /\ \A n \in 1 .. Len(frames) : subscribers[n] = frames[n]
    /\ Len(subscribers) = Len(frames) + 1 => subscribers[Len(frames) + 1] = next
    /\ \A n \in 1 .. Len(frames) - 1 : frames[n + 1] = Following(frames[n])
    /\ frames # <<>> => next = Following(frames[Len(frames)])
    /\ gpu # "loop" => frames # <<>>

Upcoming == IF frames = <<>> THEN next ELSE frames[1]

\* The last flip, if it was that of a frame, belongs to the frame before.
NewestBefore == Newest \in Frames => Upcoming = Following(Newest)

\* Who may hold the label of b.
HeldByScreen(b) == prev_index = b /\ present # "signal"
HeldByPresent(b) == req.index = b /\ present # "vblank"
HeldByRequest(b) == \E n \in 1 .. Len(requests) : requests[n].index = b
HeldByGpu(b) == gpu \in {"irq", "flip"} /\ frames[1] = b
Held(b) == HeldByScreen(b) \/ HeldByPresent(b) \/ HeldByRequest(b) \/ HeldByGpu(b)

LabelsMatch == \A b \in Frames : b \in buffer_labels <=> Held(b)

\* Nobody else holds the label that somebody holds.
HeldOnce ==
    \A b \in Frames :
        /\ HeldByScreen(b) => ~HeldByPresent(b) /\ ~HeldByRequest(b) /\ ~HeldByGpu(b)
        /\ HeldByPresent(b) => ~HeldByRequest(b) /\ ~HeldByGpu(b)
        /\ HeldByRequest(b) => ~HeldByGpu(b)
        /\ \A m, n \in 1 .. Len(requests) :
            requests[m].index = b /\ requests[n].index = b => m = n

Shown == current_buffer.index = IF present \in {"vblank", "flip"} THEN prev_index ELSE req.index

DrawnFree == gpu = "draw" => frames[1] \notin buffer_labels

SleeperNotified ==
    gpu = "sleep" /\ frames[1] \notin buffer_labels
        => present = "signal" /\ prev_index = frames[1]

IInv ==
    /\ TypeOK /\ FlipsCounted /\ InTurn /\ NewestBefore
    /\ LabelsMatch /\ HeldOnce /\ Shown /\ DrawnFree /\ SleeperNotified

-------------------------------------------------------------------------------
\* std::queue::push.
LEMMA PushFacts ==
    ASSUME NEW S, NEW s \in Seq(S), NEW e \in S
    PROVE  LET r == Append(s, e) IN
           /\ r \in Seq(S) /\ r # <<>> /\ Len(s) \in Nat /\ Len(r) = Len(s) + 1
           /\ r[Len(s) + 1] = e
           /\ \A n \in 1 .. Len(s) : r[n] = s[n] /\ s[n] \in S
  OBVIOUS

\* std::queue::front and pop.
LEMMA PopFacts ==
    ASSUME NEW S, NEW s \in Seq(S), s # <<>>
    PROVE  LET r == Tail(s) IN
           /\ Head(s) = s[1] /\ Head(s) \in S
           /\ r \in Seq(S) /\ Len(s) \in Nat /\ Len(s) >= 1 /\ Len(r) = Len(s) - 1
           /\ r = <<>> <=> Len(s) = 1
           /\ \A n \in 1 .. Len(s) - 1 : r[n] = s[n + 1]
           /\ \A n \in 1 .. Len(s) : s[n] \in S
<1>1. Len(s) \in Nat /\ Len(s) >= 1
  OBVIOUS
<1>2. Head(s) = s[1] /\ \A n \in 1 .. Len(s) : s[n] \in S
  BY <1>1
<1>3. Tail(s) \in Seq(S) /\ Len(Tail(s)) = Len(s) - 1
  BY <1>1
<1>4. \A n \in 1 .. Len(s) - 1 : Tail(s)[n] = s[n + 1]
  BY <1>1
<1>5. Tail(s) = <<>> <=> Len(s) = 1
  <2>1. \A t \in Seq(S) : t = <<>> <=> Len(t) = 0
    OBVIOUS
  <2>2. Tail(s) = <<>> <=> Len(Tail(s)) = 0
    BY <1>3, <2>1, Zenon
  <2> QED BY <1>1, <1>3, <2>2
<1> QED BY <1>1, <1>2, <1>3, <1>4, <1>5

\* Pushing a flip counts it.
LEMMA EopsPushed ==
    ASSUME NEW s \in Seq(Flips), NEW f \in Flips
    PROVE  /\ IsFiniteSet(Eops(s)) /\ Cardinality(Eops(s)) \in Nat
           /\ Cardinality(Eops(Append(s, f))) = Cardinality(Eops(s)) + One(f.eop)
<1> DEFINE r == Append(s, f)
<1>1. /\ Len(s) \in Nat /\ Len(s) + 1 \notin 1 .. Len(s)
      /\ 1 .. Len(s) + 1 = 1 .. Len(s) \cup {Len(s) + 1}
      /\ DOMAIN s = 1 .. Len(s)
  OBVIOUS
<1>2. /\ DOMAIN r = 1 .. Len(s) + 1
      /\ r[Len(s) + 1] = f
      /\ \A n \in 1 .. Len(s) : r[n] = s[n]
  BY PushFacts
<1> HIDE DEF r
<1>3. IsFiniteSet(Eops(s))
  <2>1. IsFiniteSet(1 .. Len(s))
    BY <1>1, FS_Interval
  <2>2. Eops(s) \subseteq 1 .. Len(s)
    BY <1>1 DEF Eops
  <2> QED BY <2>1, <2>2, FS_Subset
<1>4. Len(s) + 1 \notin Eops(s)
  BY <1>1 DEF Eops
<1>5. Eops(r) = IF f.eop THEN Eops(s) \cup {Len(s) + 1} ELSE Eops(s)
  BY <1>1, <1>2 DEF Eops
<1>6. Cardinality(Eops(s)) \in Nat
  BY <1>3, FS_CardinalityType
<1>7. Cardinality(Eops(s) \cup {Len(s) + 1}) = Cardinality(Eops(s)) + 1
  BY <1>3, <1>4, FS_AddElement, Zenon
<1>8. Cardinality(Eops(r)) = Cardinality(Eops(s)) + One(f.eop)
  BY <1>5, <1>6, <1>7 DEF One
<1> QED BY <1>3, <1>6, <1>8 DEF r

\* Popping a flip takes it from the count: the others move up by one place.
LEMMA EopsPopped ==
    ASSUME NEW s \in Seq(Flips), s # <<>>
    PROVE  Cardinality(Eops(s)) = Cardinality(Eops(Tail(s))) + One(Head(s).eop)
<1> DEFINE r == Tail(s)
<1>1. /\ Head(s) = s[1] /\ s[1] \in Flips /\ r \in Seq(Flips)
      /\ Len(s) \in Nat /\ Len(s) >= 1 /\ Len(r) = Len(s) - 1
      /\ \A n \in 1 .. Len(s) - 1 : r[n] = s[n + 1]
  BY PopFacts
<1>2. DOMAIN s = 1 .. Len(s) /\ DOMAIN r = 1 .. Len(s) - 1
  BY <1>1
<1> HIDE DEF r
<1> DEFINE Later == {n + 1 : n \in Eops(r)}
           next_n == [n \in Eops(r) |-> n + 1]
<1>3. \A n \in Eops(r) : n \in Nat /\ n >= 1
  BY <1>1, <1>2 DEF Eops
<1>4. next_n \in Bijection(Eops(r), Later)
  <2>1. next_n \in Injection(Eops(r), Later)
    BY <1>3 DEF Injection, IsInjective
  <2>2. next_n \in Surjection(Eops(r), Later)
    BY DEF Surjection
  <2> QED BY <2>1, <2>2 DEF Bijection
<1>5. IsFiniteSet(Eops(r)) /\ Cardinality(Eops(r)) \in Nat
  BY <1>1, EopsPushed
<1>6. IsFiniteSet(Later) /\ Cardinality(Later) = Cardinality(Eops(r))
  <2>1. ExistsBijection(Eops(r), Later)
    BY <1>4 DEF ExistsBijection
  <2> HIDE DEF Later
  <2> QED BY <1>5, <2>1, FS_Bijection
<1>7. 1 \notin Later
  BY <1>3
<1>8. Eops(s) = IF s[1].eop THEN Later \cup {1} ELSE Later
  <2>1. ASSUME NEW n \in 1 .. Len(s), n # 1
        PROVE  n - 1 \in 1 .. Len(s) - 1 /\ r[n - 1] = s[n] /\ (n - 1) + 1 = n
    BY <1>1, <2>1
  <2>2. ASSUME NEW n \in Eops(s), n # 1 PROVE n \in Later
    BY <1>2, <2>1, <2>2 DEF Eops
  <2>3. ASSUME NEW n \in Later PROVE n \in Eops(s)
    BY <1>1, <1>2 DEF Eops
  <2>4. 1 \in Eops(s) <=> s[1].eop
    BY <1>1, <1>2 DEF Eops
  <2> HIDE DEF Later
  <2>5. CASE s[1].eop
    BY <2>2, <2>3, <2>4, <2>5
  <2>6. CASE ~s[1].eop
    <3>1. 1 \notin Eops(s)
      BY <2>4, <2>6
    <3>2. Eops(s) = Later
      BY <2>2, <2>3, <3>1
    <3> QED BY <2>6, <3>2
  <2> QED BY <2>5, <2>6
<1> HIDE DEF Later
<1>9. Cardinality(Later \cup {1}) = Cardinality(Later) + 1
  BY <1>6, <1>7, FS_AddElement, Zenon
<1>10. Cardinality(Eops(s)) = Cardinality(Eops(r)) + One(s[1].eop)
  BY <1>5, <1>6, <1>8, <1>9 DEF One
<1> QED BY <1>1, <1>10 DEF r

\* A flip is performed: it comes last.
LEMMA Performed ==
    ASSUME TypeOK, NEW f \in Flips, requests' = Append(requests, f)
    PROVE  /\ requests' \in Seq(Flips) /\ requests' # <<>>
           /\ Len(requests) \in Nat /\ Len(requests') = Len(requests) + 1
           /\ requests'[Len(requests) + 1] = f
           /\ \A n \in 1 .. Len(requests) : requests'[n] = requests[n]
           /\ \A b : HeldByRequest(b)' <=> HeldByRequest(b) \/ f.index = b
<1>0. requests \in Seq(Flips)
  BY DEF TypeOK
<1>1. /\ requests' \in Seq(Flips) /\ requests' # <<>>
      /\ Len(requests) \in Nat /\ Len(requests') = Len(requests) + 1
      /\ requests'[Len(requests) + 1] = f
      /\ \A n \in 1 .. Len(requests) : requests'[n] = requests[n]
  BY <1>0, PushFacts
<1>2. \A b : HeldByRequest(b)' <=> HeldByRequest(b) \/ f.index = b
  BY <1>1 DEF HeldByRequest
<1> QED BY <1>1, <1>2

\* The flip the GPU thread performs for the guest.
LEMMA Direct ==
    ASSUME VideoOutAssumption, TypeOK, RunCommand
    PROVE  \E f \in Flips :
            /\ requests' = Append(requests, f)
            /\ f.index \in CpuBuffers /\ f.index \notin Frames
            /\ command_queue' \in Seq([index : CpuBuffers, eop : {FALSE}])
<1> DEFINE f == Head(command_queue)
<1>1. f \in [index : CpuBuffers, eop : {FALSE}]
      /\ command_queue' \in Seq([index : CpuBuffers, eop : {FALSE}])
  BY PopFacts, Zenon DEF TypeOK, RunCommand
<1>2. f \in Flips /\ f.index \in CpuBuffers
  BY <1>1, Zenon DEF Flips, Indices
<1> QED BY <1>1, <1>2 DEF RunCommand, VideoOutAssumption

\* The flip at the end of a frame.
LEMMA EndOfFrame ==
    ASSUME TypeOK, InTurn, SubmitFlipInternal
    PROVE  /\ frames # <<>> /\ frames[1] \in Frames /\ Head(subscribers) = frames[1]
           /\ Flip(frames[1], TRUE) \in Flips
           /\ requests' = Append(requests, Flip(frames[1], TRUE))
           /\ frames' \in Seq(Frames) /\ subscribers' \in Seq(Frames)
           /\ Len(frames) \in Nat /\ Len(frames) >= 1 /\ Len(frames') = Len(frames) - 1
           /\ frames' = <<>> <=> Len(frames) = 1
           /\ \A n \in 1 .. Len(frames) - 1 : frames'[n] = frames[n + 1]
<1>1. frames # <<>> /\ subscribers # <<>>
  BY DEF TypeOK, InTurn, SubmitFlipInternal
<1>2. /\ frames[1] \in Frames
      /\ frames' \in Seq(Frames)
      /\ Len(frames) \in Nat /\ Len(frames) >= 1 /\ Len(frames') = Len(frames) - 1
      /\ frames' = <<>> <=> Len(frames) = 1
      /\ \A n \in 1 .. Len(frames) - 1 : frames'[n] = frames[n + 1]
  BY <1>1, PopFacts, Zenon DEF TypeOK, SubmitFlipInternal
<1>3. Head(subscribers) = subscribers[1] /\ subscribers' \in Seq(Frames)
  BY <1>1, PopFacts DEF TypeOK, SubmitFlipInternal
<1>4. subscribers[1] = frames[1]
  BY <1>2 DEF InTurn
<1>5. Flip(frames[1], TRUE) \in Flips
  BY <1>2 DEF Flip, Flips, Indices
<1> QED BY <1>1, <1>2, <1>3, <1>4, <1>5, Zenon DEF SubmitFlipInternal

\* The oldest flip is taken.
LEMMA Received ==
    ASSUME TypeOK, ReceiveRequest
    PROVE  /\ req' = requests[1] /\ req' \in Flips
           /\ requests' \in Seq(Flips)
           /\ Len(requests) \in Nat /\ Len(requests) >= 1 /\ Len(requests') = Len(requests) - 1
           /\ requests' = <<>> <=> Len(requests) = 1
           /\ \A n \in 1 .. Len(requests) - 1 : requests'[n] = requests[n + 1]
           /\ \A b : HeldByRequest(b) <=> HeldByRequest(b)' \/ requests[1].index = b
<1>1. /\ req' = requests[1] /\ req' \in Flips
      /\ requests' \in Seq(Flips)
      /\ Len(requests) \in Nat /\ Len(requests) >= 1 /\ Len(requests') = Len(requests) - 1
      /\ requests' = <<>> <=> Len(requests) = 1
      /\ \A n \in 1 .. Len(requests) - 1 : requests'[n] = requests[n + 1]
  BY PopFacts, Zenon DEF TypeOK, ReceiveRequest
<1>2. ASSUME NEW b PROVE HeldByRequest(b) => HeldByRequest(b)' \/ requests[1].index = b
  <2> SUFFICES ASSUME NEW n \in 1 .. Len(requests), requests[n].index = b, n # 1
               PROVE  HeldByRequest(b)'
    BY DEF HeldByRequest
  <2>1. n - 1 \in 1 .. Len(requests') /\ requests'[n - 1] = requests[n]
    BY <1>1
  <2> QED BY <2>1 DEF HeldByRequest
<1>3. ASSUME NEW b PROVE HeldByRequest(b)' \/ requests[1].index = b => HeldByRequest(b)
  <2>1. CASE requests[1].index = b
    BY <1>1, <2>1 DEF HeldByRequest
  <2>2. ASSUME NEW n \in 1 .. Len(requests'), requests'[n].index = b PROVE HeldByRequest(b)
    <3>1. n + 1 \in 1 .. Len(requests) /\ requests'[n] = requests[n + 1]
      BY <1>1
    <3> QED BY <2>2, <3>1 DEF HeldByRequest
  <2> QED BY <2>1, <2>2 DEF HeldByRequest
<1> QED BY <1>1, <1>2, <1>3

-------------------------------------------------------------------------------
\* Nothing is on its way at first.
LEMMA InitIInv == ASSUME VideoOutAssumption, Init PROVE IInv
<1>1. FlipsCounted
  <2>1. Eops(<<>>) = {} /\ Cardinality({}) = 0
    BY FS_EmptySet DEF Eops
  <2>2. Cardinality(Eops(requests)) = 0
    BY <2>1, SMTT(30) DEF Init
  <2> QED BY <2>2 DEF Init, FlipsCounted, One
<1> QED
  BY <1>1 DEF VideoOutAssumption, Init, IInv, TypeOK, Flips, Flip, Frames, Indices, InTurn,
              NewestBefore, Newest, LabelsMatch, HeldOnce, Shown, DrawnFree, SleeperNotified,
              Held, HeldByScreen, HeldByPresent, HeldByRequest, HeldByGpu

\* Every action keeps the types.
LEMMA TypeStep ==
    ASSUME VideoOutAssumption, TypeOK, InTurn, [Next]_vars
    PROVE  TypeOK'
<1> USE DEF TypeOK, programVars, statusVars, presentVars
<1>1. CASE PatchFlipRequest
  BY <1>1 DEF PatchFlipRequest
<1>2. CASE SubmitFrame
  BY <1>2 DEF SubmitFrame, Following, VideoOutAssumption, Frames
<1>3. ASSUME NEW i \in CpuBuffers, SubmitFlip(i) PROVE TypeOK'
  BY <1>3 DEF SubmitFlip, Flip
<1>4. CASE RunCommand
  <2>1. requests' \in Seq(Flips)
    BY <1>4, Direct, Performed
  <2> QED BY <1>4, <2>1, Direct DEF RunCommand
<1>5. CASE StartFrame
  BY <1>5 DEF StartFrame
<1>6. ASSUME NEW others \in BOOLEAN, WaitRegMem(others) PROVE TypeOK'
  BY <1>6 DEF WaitRegMem
<1>7. CASE TestAgain
  BY <1>7 DEF TestAgain
<1>8. CASE WaitVoLabel
  BY <1>8 DEF WaitVoLabel
<1>9. CASE LockLabel
  <2>1. Head(frames) \in Frames
    BY <1>9, PopFacts DEF LockLabel, InTurn
  <2> QED BY <1>9, <2>1 DEF LockLabel
<1>10. CASE GfxFlip
  BY <1>10 DEF GfxFlip
<1>11. CASE SubmitFlipInternal
  <2>1. requests' \in Seq(Flips)
    BY <1>11, EndOfFrame, Performed, Zenon
  <2> QED BY <1>11, <2>1, EndOfFrame, Zenon DEF SubmitFlipInternal
<1>12. CASE ReceiveRequest
  BY <1>12, Received DEF ReceiveRequest
<1>13. CASE Present
  BY <1>13 DEF Present
<1>14. CASE ResetLabel
  BY <1>14 DEF ResetLabel
<1>15. CASE SignalVoLabel
  BY <1>15 DEF SignalVoLabel, Flips
<1>16. CASE UNCHANGED vars
  BY <1>16 DEF vars
<1> QED
  BY <1>1, <1>2, <1>3, <1>4, <1>5, <1>6, <1>7, <1>8,
     <1>9, <1>10, <1>11, <1>12, <1>13, <1>14, <1>15, <1>16, ZenonT(30) DEF Next

\* The counters follow the flips from thread to thread.
LEMMA CountStep ==
    ASSUME VideoOutAssumption, TypeOK, FlipsCounted, InTurn, [Next]_vars
    PROVE  FlipsCounted'
<1>0. /\ requests \in Seq(Flips) /\ Len(requests) \in Nat /\ Len(command_queue) \in Nat
      /\ Cardinality(Eops(requests)) \in Nat
      /\ flip_pending_num \in Int /\ gc_queue_num \in Int
  BY EopsPushed DEF TypeOK
<1> DEFINE queued == Len(command_queue)
           asked == Len(requests)
           ending == Cardinality(Eops(requests))
<1> SUFFICES ASSUME /\ flip_pending_num = queued + asked + One(gpu = "flip")
                          + One(present = "flip")
                    /\ gc_queue_num = ending + One(gpu = "flip")
                          + One(present = "flip" /\ req.eop)
             PROVE  FlipsCounted'
  BY DEF FlipsCounted
<1> USE <1>0 DEF programVars, statusVars, presentVars
<1>1. CASE PatchFlipRequest \/ SubmitFrame
  BY <1>1, Zenon DEF PatchFlipRequest, SubmitFrame, FlipsCounted
<1>2. ASSUME NEW i \in CpuBuffers, SubmitFlip(i) PROVE FlipsCounted'
  <2>1. Len(command_queue') = Len(command_queue) + 1
    BY <1>2 DEF SubmitFlip, TypeOK
  <2> QED BY <1>2, <2>1 DEF SubmitFlip, FlipsCounted, One
<1>3. CASE RunCommand
  <2>1. /\ Head(command_queue) \in Flips /\ Head(command_queue).eop = FALSE
        /\ Len(command_queue') = Len(command_queue) - 1
    <3>1. /\ command_queue \in Seq([index : CpuBuffers, eop : {FALSE}])
          /\ command_queue # <<>> /\ command_queue' = Tail(command_queue)
      BY <1>3 DEF RunCommand, TypeOK
    <3>2. /\ Head(command_queue) \in [index : CpuBuffers, eop : {FALSE}]
          /\ Len(command_queue') = Len(command_queue) - 1
      BY <3>1, PopFacts, Zenon
    <3> QED BY <3>2, Zenon DEF Flips, Indices
  <2>2. requests' = Append(requests, Head(command_queue))
    BY <1>3 DEF RunCommand
  <2>3. Len(requests') = Len(requests) + 1
    BY <2>1, <2>2
  <2>4. Cardinality(Eops(requests')) = Cardinality(Eops(requests))
    BY <2>1, <2>2, EopsPushed DEF One
  <2>5. UNCHANGED <<flip_pending_num, gc_queue_num, gpu, present, req>>
    BY <1>3 DEF RunCommand
  <2> QED BY <2>1, <2>3, <2>4, <2>5 DEF FlipsCounted, One
<1>4. CASE StartFrame \/ (\E others \in BOOLEAN : WaitRegMem(others)) \/ TestAgain \/ WaitVoLabel
           \/ LockLabel
  <2>1. /\ gpu # "flip" /\ gpu' # "flip"
        /\ UNCHANGED <<flip_pending_num, gc_queue_num, present, req, requests, command_queue>>
    BY <1>4 DEF StartFrame, WaitRegMem, TestAgain, WaitVoLabel, LockLabel
  <2> QED BY <2>1 DEF FlipsCounted, One
<1>5. CASE GfxFlip
  BY <1>5, SMTT(30) DEF GfxFlip, FlipsCounted, One
<1>6. CASE SubmitFlipInternal
  <2>1. requests' = Append(requests, Flip(frames[1], TRUE)) /\ Flip(frames[1], TRUE) \in Flips
    BY <1>6, EndOfFrame, Zenon
  <2>2. Len(requests') = Len(requests) + 1
    BY <2>1
  <2>3. Cardinality(Eops(requests')) = Cardinality(Eops(requests)) + 1
    BY <2>1, EopsPushed DEF One, Flip
  <2>4. /\ gpu = "flip" /\ gpu' = "loop"
        /\ UNCHANGED <<flip_pending_num, gc_queue_num, present, req, command_queue>>
    BY <1>6 DEF SubmitFlipInternal
  <2> QED BY <2>2, <2>3, <2>4 DEF FlipsCounted, One
<1>7. CASE ReceiveRequest
  <2>1. /\ requests # <<>> /\ req' = Head(requests) /\ requests' = Tail(requests)
        /\ present = "vblank" /\ present' = "flip"
        /\ UNCHANGED <<flip_pending_num, gc_queue_num, gpu, command_queue>>
    BY <1>7 DEF ReceiveRequest
  <2>2. Len(requests') = Len(requests) - 1
    BY <2>1, PopFacts
  <2>3. /\ Cardinality(Eops(requests)) = Cardinality(Eops(requests')) + One(req'.eop)
        /\ Cardinality(Eops(requests')) \in Nat
    BY <2>1, EopsPopped, EopsPushed, PopFacts, Zenon
  <2> QED BY <2>1, <2>2, <2>3 DEF FlipsCounted, One
<1>8. CASE Present
  BY <1>8, SMTT(30) DEF Present, FlipsCounted, One
<1>9. CASE ResetLabel \/ SignalVoLabel
  <2>1. /\ present \in {"label", "signal"} /\ present' # "flip" /\ (gpu' = "flip" <=> gpu = "flip")
        /\ UNCHANGED <<flip_pending_num, gc_queue_num, requests, command_queue>>
    BY <1>9 DEF ResetLabel, SignalVoLabel
  <2> QED BY <2>1 DEF FlipsCounted, One
<1>10. CASE UNCHANGED vars
  BY <1>10 DEF vars, FlipsCounted
<1> QED BY <1>1, <1>2, <1>3, <1>4, <1>5, <1>6, <1>7, <1>8, <1>9, <1>10 DEF Next

-------------------------------------------------------------------------------
(* What each step changes, once for all the invariants.                      *)

\* The steps of the guest, and those with which the GPU thread comes to draw a frame.
Guest == PatchFlipRequest \/ SubmitFrame \/ \E i \in CpuBuffers : SubmitFlip(i)
Waiting == StartFrame \/ (\E others \in BOOLEAN : WaitRegMem(others)) \/ TestAgain \/ WaitVoLabel

\* Whose step it is.
LEMMA Steps ==
    ASSUME [Next]_vars
    PROVE  \/ Guest \/ RunCommand \/ Waiting \/ LockLabel \/ GfxFlip \/ SubmitFlipInternal
           \/ ReceiveRequest \/ Present \/ ResetLabel \/ SignalVoLabel \/ UNCHANGED vars
BY Zenon DEF Next, Guest, Waiting

\* The guest adds frames after the one that is drawn.
LEMMA GuestEffect ==
    ASSUME TypeOK, InTurn, Guest
    PROVE  /\ buffer_labels' = buffer_labels /\ prev_index' = prev_index
           /\ current_buffer' = current_buffer /\ requests' = requests
           /\ gpu' = gpu /\ present' = present /\ req' = req
           /\ frames # <<>> => frames'[1] = frames[1] /\ frames' # <<>>
           /\ Upcoming' = Upcoming
<1>1. /\ buffer_labels' = buffer_labels /\ prev_index' = prev_index
      /\ current_buffer' = current_buffer /\ requests' = requests
      /\ gpu' = gpu /\ present' = present /\ req' = req
  BY Zenon DEF Guest, PatchFlipRequest, SubmitFrame, SubmitFlip, statusVars, presentVars
<1>2. CASE frames' = frames /\ next' = next
  BY <1>1, <1>2, Zenon DEF Upcoming
<1>3. CASE frames' = Append(frames, next)
  <2>1. frames \in Seq(Frames) /\ next \in Frames
    BY DEF TypeOK
  <2>2. /\ frames' # <<>> /\ Len(frames) \in Nat
        /\ frames'[Len(frames) + 1] = next
        /\ \A n \in 1 .. Len(frames) : frames'[n] = frames[n]
    BY <1>3, <2>1, PushFacts
  <2>3. frames = <<>> => frames'[1] = next
    BY <2>1, <2>2
  <2>4. frames # <<>> => frames'[1] = frames[1]
    BY <2>1, <2>2
  <2> QED BY <1>1, <2>2, <2>3, <2>4 DEF Upcoming
<1>4. (frames' = frames /\ next' = next) \/ frames' = Append(frames, next)
  BY Zenon DEF Guest, PatchFlipRequest, SubmitFrame, SubmitFlip, programVars
<1> QED BY <1>2, <1>3, <1>4

\* The GPU thread goes on with the label clear and sleeps with the label set.
LEMMA WaitingEffect ==
    ASSUME TypeOK, InTurn, Waiting
    PROVE  /\ buffer_labels' = buffer_labels /\ prev_index' = prev_index
           /\ current_buffer' = current_buffer /\ requests' = requests
           /\ subscribers' = subscribers /\ frames' = frames /\ next' = next
           /\ present' = present /\ req' = req
           /\ frames # <<>>
           /\ gpu \in {"loop", "wait", "yield", "woken"}
           /\ gpu' \in {"wait", "draw", "yield", "sleep"}
           /\ gpu' = "draw" => frames[1] \notin buffer_labels
           /\ gpu' = "sleep" => frames[1] \in buffer_labels
<1>1. /\ buffer_labels' = buffer_labels /\ prev_index' = prev_index
      /\ current_buffer' = current_buffer /\ requests' = requests
      /\ subscribers' = subscribers /\ frames' = frames /\ next' = next
      /\ present' = present /\ req' = req
  BY DEF Waiting, StartFrame, WaitRegMem, TestAgain, WaitVoLabel, programVars, statusVars,
         presentVars
<1>2. gpu = "loop" => frames # <<>>
  BY DEF Waiting, StartFrame, WaitRegMem, TestAgain, WaitVoLabel
<1>3. frames # <<>>
  BY <1>2 DEF InTurn
<1>4. Head(frames) = frames[1]
  BY <1>3, PopFacts DEF TypeOK
<1>5. /\ gpu \in {"loop", "wait", "yield", "woken"}
      /\ gpu' \in {"wait", "draw", "yield", "sleep"}
      /\ gpu' = "draw" => Head(frames) \notin buffer_labels
      /\ gpu' = "sleep" => Head(frames) \in buffer_labels
  BY DEF Waiting, StartFrame, WaitRegMem, TestAgain, WaitVoLabel
<1> QED BY <1>1, <1>3, <1>4, <1>5

\* The label is set at the end of the frame.
LEMMA LockEffect ==
    ASSUME TypeOK, InTurn, LockLabel
    PROVE  /\ frames # <<>> /\ frames[1] \in Frames
           /\ gpu = "draw" /\ gpu' = "irq" /\ buffer_labels' = buffer_labels \cup {frames[1]}
           /\ prev_index' = prev_index /\ current_buffer' = current_buffer
           /\ requests' = requests /\ present' = present /\ req' = req
           /\ subscribers' = subscribers /\ frames' = frames /\ next' = next
<1>1. frames # <<>>
  BY DEF LockLabel, InTurn
<1>2. Head(frames) = frames[1] /\ frames[1] \in Frames
  BY <1>1, PopFacts DEF TypeOK
<1> QED BY <1>1, <1>2 DEF LockLabel, programVars, statusVars, presentVars

\* Of what the labels depend on, the other steps of the GPU thread change these.
LEMMA GpuEffect ==
    ASSUME RunCommand \/ GfxFlip \/ SubmitFlipInternal
    PROVE  /\ buffer_labels' = buffer_labels /\ prev_index' = prev_index
           /\ current_buffer' = current_buffer /\ present' = present /\ req' = req
           /\ next' = next
           /\ RunCommand => gpu' = gpu /\ subscribers' = subscribers /\ frames' = frames
           /\ GfxFlip => /\ gpu = "irq" /\ gpu' = "flip" /\ requests' = requests
                         /\ subscribers' = subscribers /\ frames' = frames
           /\ SubmitFlipInternal => gpu = "flip" /\ gpu' = "loop"
BY Zenon DEF RunCommand, GfxFlip, SubmitFlipInternal, programVars, statusVars, presentVars

\* The present thread's steps, from "vblank" to "vblank".
LEMMA PresentEffect ==
    ASSUME ReceiveRequest \/ Present \/ ResetLabel \/ SignalVoLabel
    PROVE  /\ subscribers' = subscribers /\ frames' = frames /\ next' = next
           /\ ReceiveRequest =>
                /\ present = "vblank" /\ present' = "flip" /\ requests # <<>>
                /\ prev_index' = prev_index /\ current_buffer' = current_buffer /\ gpu' = gpu
                /\ buffer_labels' = buffer_labels
           /\ Present =>
                /\ present = "flip" /\ present' = "label" /\ current_buffer' = req
                /\ prev_index' = prev_index /\ req' = req /\ requests' = requests /\ gpu' = gpu
                /\ buffer_labels' = buffer_labels
           /\ ResetLabel =>
                /\ present = "label" /\ present' = "signal"
                /\ buffer_labels' = buffer_labels \ {prev_index}
                /\ prev_index' = prev_index /\ current_buffer' = current_buffer
                /\ req' = req /\ requests' = requests /\ gpu' = gpu
           /\ SignalVoLabel =>
                /\ present = "signal" /\ present' = "vblank" /\ prev_index' = req.index
                /\ gpu' = IF gpu = "sleep" /\ prev_index # NoBuffer THEN "woken" ELSE gpu
                /\ current_buffer' = current_buffer /\ req' = req /\ requests' = requests
                /\ buffer_labels' = buffer_labels
BY DEF ReceiveRequest, Present, ResetLabel, SignalVoLabel, programVars, statusVars

\* Frames are submitted and flipped in turn.
LEMMA TurnStep ==
    ASSUME VideoOutAssumption, TypeOK, InTurn, [Next]_vars
    PROVE  InTurn'
<1>1. CASE PatchFlipRequest
  <2>1. /\ subscribers' = Append(subscribers, next) /\ Len(subscribers) = Len(frames)
        /\ frames' = frames /\ next' = next /\ gpu' = gpu
    BY <1>1 DEF PatchFlipRequest
  <2>2. /\ Len(subscribers) \in Nat /\ Len(subscribers') = Len(subscribers) + 1
        /\ subscribers'[Len(subscribers) + 1] = next
        /\ \A n \in 1 .. Len(subscribers) : subscribers'[n] = subscribers[n]
    BY <2>1, PushFacts DEF TypeOK
  <2> QED BY <2>1, <2>2 DEF InTurn, Following
<1>2. CASE SubmitFrame
  <2> USE DEF TypeOK, InTurn
  <2>1. /\ frames' # <<>> /\ Len(frames) \in Nat /\ Len(frames') = Len(frames) + 1
        /\ frames'[Len(frames) + 1] = next
        /\ \A n \in 1 .. Len(frames) : frames'[n] = frames[n]
    BY <1>2, PushFacts DEF SubmitFrame
  <2>2. /\ Len(subscribers) = Len(frames) + 1 /\ subscribers' = subscribers
        /\ next' = Following(next)
    BY <1>2 DEF SubmitFrame
  <2>3. \A n \in 1 .. Len(frames') : subscribers'[n] = frames'[n]
    BY <2>1, <2>2
  <2>4. \A n \in 1 .. Len(frames') - 1 : frames'[n + 1] = Following(frames'[n])
    <3> SUFFICES ASSUME NEW n \in 1 .. Len(frames)
                 PROVE  frames'[n + 1] = Following(frames'[n])
      BY <2>1
    <3>1. CASE n = Len(frames)
      BY <2>1, <3>1
    <3>2. CASE n < Len(frames)
      <4>1. n \in 1 .. Len(frames) - 1 /\ n + 1 \in 1 .. Len(frames)
        BY <2>1, <3>2
      <4>2. frames[n + 1] = Following(frames[n])
        BY <4>1
      <4> QED BY <2>1, <4>1, <4>2
    <3> QED BY <2>1, <3>1, <3>2
  <2>5. Len(subscribers') = Len(frames') /\ Len(frames') \in Nat
    BY <2>1, <2>2
  <2>6. next' = Following(frames'[Len(frames')])
    BY <2>1, <2>2
  <2> HIDE DEF TypeOK, InTurn
  <2>7. /\ Len(subscribers') = Len(frames') \/ Len(subscribers') = Len(frames') + 1
        /\ Len(subscribers') # Len(frames') + 1
    BY <2>5
  <2> QED BY <2>1, <2>3, <2>4, <2>6, <2>7 DEF InTurn, Following
<1>3. CASE \/ (\E i \in CpuBuffers : SubmitFlip(i)) \/ RunCommand \/ Waiting \/ LockLabel
           \/ GfxFlip \/ ReceiveRequest \/ Present \/ ResetLabel \/ SignalVoLabel
           \/ UNCHANGED vars
  <2>1. /\ subscribers' = subscribers /\ frames' = frames /\ next' = next
        /\ gpu' # "loop" => gpu # "loop" \/ frames # <<>>
    <3>1. CASE \E i \in CpuBuffers : SubmitFlip(i)
      BY <3>1 DEF SubmitFlip, programVars
    <3>2. CASE RunCommand \/ GfxFlip
      BY <3>2, GpuEffect
    <3>3. CASE Waiting
      BY <3>3, WaitingEffect
    <3>4. CASE LockLabel
      BY <3>4, LockEffect
    <3>5. CASE ReceiveRequest \/ Present \/ ResetLabel \/ SignalVoLabel
      BY <3>5, PresentEffect
    <3>6. CASE UNCHANGED vars
      BY <3>6 DEF vars
    <3> QED BY <1>3, <3>1, <3>2, <3>3, <3>4, <3>5, <3>6, Zenon
  <2> QED BY <2>1 DEF InTurn, Following
<1>4. CASE SubmitFlipInternal
  <2> USE DEF TypeOK, InTurn
  <2>1. /\ Len(frames) \in Nat /\ Len(frames) >= 1 /\ Len(frames') = Len(frames) - 1
        /\ frames' = <<>> <=> Len(frames) = 1
        /\ \A n \in 1 .. Len(frames) - 1 : frames'[n] = frames[n + 1]
    BY <1>4, EndOfFrame, PopFacts, Zenon DEF SubmitFlipInternal
  <2>2. /\ Len(subscribers) \in Nat /\ Len(subscribers') = Len(subscribers) - 1
        /\ \A n \in 1 .. Len(subscribers) - 1 : subscribers'[n] = subscribers[n + 1]
    <3>1. subscribers # <<>>
      BY <2>1
    <3> QED BY <1>4, <3>1, PopFacts DEF SubmitFlipInternal
  <2>3. next' = next /\ gpu' = "loop"
    BY <1>4 DEF SubmitFlipInternal
  <2>4. ASSUME NEW n \in 1 .. Len(frames') PROVE subscribers'[n] = frames'[n]
    <3>1. /\ n \in 1 .. Len(frames) - 1 /\ n + 1 \in 1 .. Len(frames)
          /\ n \in 1 .. Len(subscribers) - 1
      BY <2>1, <2>2
    <3>2. frames'[n] = frames[n + 1] /\ subscribers'[n] = subscribers[n + 1]
      BY <2>1, <2>2, <3>1, Zenon
    <3> QED BY <3>1, <3>2, Zenon
  <2>5. ASSUME NEW n \in 1 .. Len(frames') - 1
        PROVE  frames'[n + 1] = Following(frames'[n])
    <3>1. n \in 1 .. Len(frames) - 1 /\ n + 1 \in 1 .. Len(frames) - 1
      BY <2>1
    <3> QED BY <2>1, <3>1, Zenon
  <2>6. ASSUME Len(subscribers') = Len(frames') + 1
        PROVE  subscribers'[Len(frames') + 1] = next
    <3>1. Len(subscribers) = Len(frames) + 1 /\ Len(frames) \in 1 .. Len(subscribers) - 1
      BY <2>1, <2>2, <2>6
    <3> QED BY <2>1, <2>2, <3>1
  <2>7. ASSUME frames' # <<>> PROVE next = Following(frames'[Len(frames')])
    <3>1. Len(frames) - 1 \in 1 .. Len(frames) - 1 /\ (Len(frames) - 1) + 1 = Len(frames)
      BY <2>1, <2>7
    <3>2. next = Following(frames[Len(frames)])
      BY <2>1
    <3> HIDE DEF TypeOK, InTurn
    <3> QED BY <2>1, <3>1, <3>2
  <2>8. Len(subscribers') = Len(frames') \/ Len(subscribers') = Len(frames') + 1
    BY <2>1, <2>2
  <2> HIDE DEF TypeOK, InTurn
  <2> QED BY <2>3, <2>4, <2>5, <2>6, <2>7, <2>8 DEF InTurn, Following
<1> QED BY <1>1, <1>2, <1>3, <1>4, Steps, Zenon DEF Guest

\* Flips of frames come in turn, whatever flips come between them.
LEMMA NewestStep ==
    ASSUME VideoOutAssumption, TypeOK, InTurn, NewestBefore, [Next]_vars
    PROVE  NewestBefore'
<1>1. ASSUME Newest' = Newest, Upcoming' = Upcoming PROVE NewestBefore'
  BY <1>1 DEF NewestBefore, Following
<1>2. ASSUME requests' = requests, present' = present, req' = req,
             current_buffer' = current_buffer
      PROVE  Newest' = Newest
  BY <1>2 DEF Newest
<1>3. ASSUME frames' = frames, next' = next PROVE Upcoming' = Upcoming
  BY <1>3 DEF Upcoming
<1>4. CASE Guest
  BY <1>1, <1>2, <1>4, GuestEffect, Zenon
<1>5. CASE RunCommand
  <2>1. PICK f \in Flips : requests' = Append(requests, f) /\ f.index \notin Frames
    BY <1>5, Direct, Zenon
  <2>2. /\ requests' # <<>> /\ Len(requests') = Len(requests) + 1
        /\ requests'[Len(requests) + 1] = f
    BY <2>1, Performed, Zenon
  <2>3. Newest' = f.index
    BY <2>2 DEF Newest
  <2> QED BY <2>1, <2>3 DEF NewestBefore
<1>6. CASE Waiting
  BY <1>1, <1>2, <1>3, <1>6, WaitingEffect, Zenon
<1>7. CASE LockLabel
  BY <1>1, <1>2, <1>3, <1>7, LockEffect, Zenon
<1>8. CASE GfxFlip
  BY <1>1, <1>2, <1>3, <1>8, GpuEffect, Zenon
<1>9. CASE SubmitFlipInternal
  <2>0. /\ requests' = Append(requests, Flip(frames[1], TRUE)) /\ Flip(frames[1], TRUE) \in Flips
        /\ Len(frames) \in Nat /\ Len(frames) >= 1 /\ Len(frames') = Len(frames) - 1
        /\ frames' = <<>> <=> Len(frames) = 1
        /\ \A n \in 1 .. Len(frames) - 1 : frames'[n] = frames[n + 1]
        /\ frames # <<>> /\ next' = next
    BY <1>9, EndOfFrame, GpuEffect, Zenon
  <2>1. Newest' = frames[1]
    <3>1. /\ requests' # <<>> /\ Len(requests') = Len(requests) + 1
          /\ requests'[Len(requests) + 1] = Flip(frames[1], TRUE)
      BY <2>0, Performed, Zenon
    <3> QED BY <3>1 DEF Newest, Flip
  <2>2. Upcoming' = Following(frames[1])
    <3>1. CASE Len(frames) = 1
      <4>1. frames' = <<>>
        BY <2>0, <3>1
      <4>2. next = Following(frames[Len(frames)])
        BY <2>0 DEF InTurn
      <4> QED BY <2>0, <3>1, <4>1, <4>2, Zenon DEF Upcoming
    <3>2. CASE Len(frames) # 1
      <4>1. frames' # <<>>
        BY <2>0, <3>2
      <4>2. 1 \in 1 .. Len(frames) - 1
        BY <2>0, <3>2
      <4>3. frames'[1] = frames[1 + 1]
        BY <2>0, <4>2
      <4>4. frames[1 + 1] = Following(frames[1])
        BY <4>2, Zenon DEF InTurn
      <4> QED BY <4>1, <4>3, <4>4, Zenon DEF Upcoming
    <3> QED BY <3>1, <3>2
  <2> QED BY <2>1, <2>2 DEF NewestBefore, Following
<1>10. CASE ReceiveRequest
  <2>1. /\ req' = requests[1]
        /\ Len(requests) \in Nat /\ Len(requests) >= 1 /\ Len(requests') = Len(requests) - 1
        /\ requests' = <<>> <=> Len(requests) = 1
        /\ \A n \in 1 .. Len(requests) - 1 : requests'[n] = requests[n + 1]
    BY <1>10, Received, Zenon
  <2>2. present' = "flip" /\ frames' = frames /\ next' = next /\ requests # <<>>
    BY <1>10, PresentEffect, Zenon
  <2>3. Newest' = Newest
    <3>1. CASE Len(requests) = 1
      BY <2>1, <2>2, <3>1 DEF Newest
    <3>2. CASE Len(requests) # 1
      <4>1. Len(requests) - 1 \in 1 .. Len(requests) - 1 /\ (Len(requests) - 1) + 1 = Len(requests)
        BY <2>1, <3>2
      <4>2. requests'[Len(requests')] = requests[Len(requests)]
        BY <2>1, <4>1
      <4> QED BY <2>1, <2>2, <3>2, <4>2, Zenon DEF Newest
    <3> QED BY <3>1, <3>2
  <2> QED BY <1>1, <1>3, <2>2, <2>3, Zenon
<1>11. CASE Present
  <2>1. Newest' = Newest
    BY <1>11, PresentEffect DEF Newest
  <2> QED BY <1>1, <1>3, <1>11, <2>1, PresentEffect, Zenon
<1>12. CASE ResetLabel \/ SignalVoLabel
  <2>1. Newest' = Newest
    BY <1>12, PresentEffect DEF Newest
  <2> QED BY <1>1, <1>3, <1>12, <2>1, PresentEffect, Zenon
<1>13. CASE UNCHANGED vars
  BY <1>13 DEF vars, NewestBefore, Newest, Upcoming, Following
<1> QED
  BY <1>4, <1>5, <1>6, <1>7, <1>8, <1>9, <1>10, <1>11, <1>12, <1>13, Steps, Zenon

\* The buffer on screen is the last one Flip has presented.
LEMMA ShownStep ==
    ASSUME VideoOutAssumption, TypeOK, InTurn, Shown, [Next]_vars
    PROVE  Shown'
<1>1. ASSUME current_buffer' = current_buffer, prev_index' = prev_index, req' = req,
             present' = present
      PROVE  Shown'
  BY <1>1 DEF Shown
<1>2. CASE Guest
  BY <1>1, <1>2, GuestEffect, Zenon
<1>3. CASE RunCommand \/ GfxFlip \/ SubmitFlipInternal
  BY <1>1, <1>3, GpuEffect, Zenon
<1>4. CASE Waiting
  BY <1>1, <1>4, WaitingEffect, Zenon
<1>5. CASE LockLabel
  BY <1>1, <1>5, LockEffect, Zenon
<1>6. CASE ReceiveRequest \/ Present \/ ResetLabel \/ SignalVoLabel
  BY <1>6, PresentEffect DEF Shown
<1>7. CASE UNCHANGED vars
  BY <1>1, <1>7 DEF vars
<1> QED BY <1>2, <1>3, <1>4, <1>5, <1>6, <1>7, Steps, Zenon

\* Only the GPU thread locks a label.
LEMMA DrawnStep ==
    ASSUME VideoOutAssumption, TypeOK, InTurn, DrawnFree, [Next]_vars
    PROVE  DrawnFree'
<1>1. CASE Guest
  <2>1. gpu = "draw" => frames # <<>>
    BY DEF InTurn
  <2> QED BY <1>1, <2>1, GuestEffect DEF DrawnFree
<1>2. CASE RunCommand \/ GfxFlip \/ SubmitFlipInternal
  BY <1>2, GpuEffect DEF DrawnFree
<1>3. CASE Waiting
  BY <1>3, WaitingEffect DEF DrawnFree
<1>4. CASE LockLabel
  BY <1>4, LockEffect DEF DrawnFree
<1>5. CASE ReceiveRequest \/ Present \/ ResetLabel \/ SignalVoLabel
  BY <1>5, PresentEffect DEF DrawnFree
<1>6. CASE UNCHANGED vars
  BY <1>6 DEF vars, DrawnFree
<1> QED BY <1>1, <1>2, <1>3, <1>4, <1>5, <1>6, Steps, Zenon

\* The label is reset before the notification.
LEMMA SleeperStep ==
    ASSUME VideoOutAssumption, TypeOK, InTurn, SleeperNotified, [Next]_vars
    PROVE  SleeperNotified'
<1>0. gpu = "sleep" => frames # <<>> /\ frames[1] \in Frames
  BY PopFacts DEF InTurn, TypeOK
<1>1. CASE Guest
  BY <1>0, <1>1, GuestEffect DEF SleeperNotified
<1>2. CASE RunCommand \/ GfxFlip \/ SubmitFlipInternal
  BY <1>2, GpuEffect DEF SleeperNotified
<1>3. CASE Waiting
  BY <1>3, WaitingEffect DEF SleeperNotified
<1>4. CASE LockLabel
  BY <1>4, LockEffect DEF SleeperNotified
<1>5. CASE ReceiveRequest \/ Present \/ ResetLabel
  BY <1>5, PresentEffect DEF SleeperNotified
<1>6. CASE SignalVoLabel
  <2>1. NoBuffer \notin Frames
    BY DEF VideoOutAssumption, Indices
  <2> QED BY <1>0, <1>6, <2>1, PresentEffect DEF SleeperNotified
<1>7. CASE UNCHANGED vars
  BY <1>7 DEF vars, SleeperNotified
<1> QED BY <1>1, <1>2, <1>3, <1>4, <1>5, <1>6, <1>7, Steps, Zenon

-------------------------------------------------------------------------------
(* The labels in the hands of the threads.                                   *)

\* Somebody holds b on the same grounds as before.
SameHolders(b) ==
    /\ HeldByScreen(b)' = HeldByScreen(b)
    /\ HeldByPresent(b)' = HeldByPresent(b)
    /\ HeldByRequest(b)' = HeldByRequest(b)
    /\ HeldByGpu(b)' = HeldByGpu(b)

\* Most steps give no label to another thread.
LEMMA HoldersQuiet ==
    ASSUME TypeOK, InTurn, Guest \/ Waiting \/ GfxFlip \/ Present \/ UNCHANGED vars
    PROVE  /\ requests' = requests /\ buffer_labels' = buffer_labels
           /\ \A b : SameHolders(b)
<1>1. CASE Guest
  <2>1. gpu # "loop" => frames # <<>>
    BY DEF InTurn
  <2> QED BY <1>1, <2>1, GuestEffect
          DEF SameHolders, HeldByScreen, HeldByPresent, HeldByRequest, HeldByGpu
<1>2. CASE Waiting
  BY <1>2, WaitingEffect DEF SameHolders, HeldByScreen, HeldByPresent, HeldByRequest, HeldByGpu
<1>3. CASE GfxFlip
  BY <1>3, GpuEffect DEF SameHolders, HeldByScreen, HeldByPresent, HeldByRequest, HeldByGpu
<1>4. CASE Present
  BY <1>4, PresentEffect DEF SameHolders, HeldByScreen, HeldByPresent, HeldByRequest, HeldByGpu
<1>5. CASE UNCHANGED vars
  BY <1>5 DEF vars, SameHolders, HeldByScreen, HeldByPresent, HeldByRequest, HeldByGpu
<1> QED BY <1>1, <1>2, <1>3, <1>4, <1>5, Zenon

\* Flips of the guest hold no label.
LEMMA HoldersRun ==
    ASSUME VideoOutAssumption, TypeOK, RunCommand
    PROVE  /\ buffer_labels' = buffer_labels
           /\ \A b \in Frames : SameHolders(b)
           /\ \A b \in Frames : \A m \in 1 .. Len(requests') :
                requests'[m].index = b => m \in 1 .. Len(requests) /\ requests[m].index = b
<1>1. PICK f \in Flips : requests' = Append(requests, f) /\ f.index \notin Frames
  BY Direct, Zenon
<1>2. /\ Len(requests) \in Nat /\ Len(requests') = Len(requests) + 1
      /\ requests'[Len(requests) + 1] = f
      /\ \A n \in 1 .. Len(requests) : requests'[n] = requests[n]
      /\ \A b : HeldByRequest(b)' <=> HeldByRequest(b) \/ f.index = b
  BY <1>1, Performed, Zenon
<1>3. ASSUME NEW b \in Frames PROVE SameHolders(b)
  <2>1. HeldByRequest(b)' <=> HeldByRequest(b)
    BY <1>1, <1>2, Zenon
  <2>2. HeldByRequest(b)' \in BOOLEAN /\ HeldByRequest(b) \in BOOLEAN
    BY DEF HeldByRequest
  <2>3. HeldByRequest(b)' = HeldByRequest(b)
    BY <2>1, <2>2
  <2> QED BY <2>3, GpuEffect DEF SameHolders, HeldByScreen, HeldByPresent, HeldByGpu
<1>4. ASSUME NEW b \in Frames, NEW m \in 1 .. Len(requests'), requests'[m].index = b
      PROVE  m \in 1 .. Len(requests) /\ requests[m].index = b
  <2>1. m # Len(requests) + 1
    BY <1>1, <1>2, <1>4, Zenon
  <2>2. m \in 1 .. Len(requests)
    BY <1>2, <2>1
  <2> QED BY <1>2, <1>4, <2>2, Zenon
<1> QED BY <1>3, <1>4, GpuEffect, Zenon

\* The GPU thread takes the label of the frame it has drawn.
LEMMA HoldersLock ==
    ASSUME TypeOK, InTurn, LockLabel
    PROVE  /\ requests' = requests
           /\ \A b : /\ HeldByScreen(b)' = HeldByScreen(b)
                     /\ HeldByPresent(b)' = HeldByPresent(b)
                     /\ HeldByRequest(b)' = HeldByRequest(b)
                     /\ ~HeldByGpu(b)
                     /\ HeldByGpu(b)' <=> b = frames[1]
BY LockEffect DEF HeldByScreen, HeldByPresent, HeldByRequest, HeldByGpu

\* It gives the label to the flip.
LEMMA HoldersEnd ==
    ASSUME TypeOK, InTurn, SubmitFlipInternal
    PROVE  /\ buffer_labels' = buffer_labels
           /\ \A b : /\ HeldByScreen(b)' = HeldByScreen(b)
                     /\ HeldByPresent(b)' = HeldByPresent(b)
                     /\ HeldByRequest(b)' <=> HeldByRequest(b) \/ b = frames[1]
                     /\ HeldByGpu(b) <=> b = frames[1]
                     /\ ~HeldByGpu(b)'
           /\ Len(requests) \in Nat /\ Len(requests') = Len(requests) + 1
           /\ requests'[Len(requests) + 1].index = frames[1]
           /\ \A n \in 1 .. Len(requests) : requests'[n] = requests[n]
<1>1. requests' = Append(requests, Flip(frames[1], TRUE)) /\ Flip(frames[1], TRUE) \in Flips
  BY EndOfFrame, Zenon
<1>2. Flip(frames[1], TRUE).index = frames[1]
  BY DEF Flip
<1>3. /\ \A b : HeldByRequest(b)' <=> HeldByRequest(b) \/ b = frames[1]
      /\ Len(requests) \in Nat /\ Len(requests') = Len(requests) + 1
      /\ requests'[Len(requests) + 1].index = frames[1]
      /\ \A n \in 1 .. Len(requests) : requests'[n] = requests[n]
  BY <1>1, <1>2, Performed, Zenon
<1>4. \A b : /\ HeldByScreen(b)' = HeldByScreen(b)
             /\ HeldByPresent(b)' = HeldByPresent(b)
             /\ HeldByGpu(b) <=> b = frames[1]
             /\ ~HeldByGpu(b)'
  BY GpuEffect DEF HeldByScreen, HeldByPresent, HeldByGpu
<1> QED BY <1>3, <1>4, GpuEffect, Zenon

\* The present thread takes the label with the flip.
LEMMA HoldersReceive ==
    ASSUME TypeOK, ReceiveRequest
    PROVE  /\ buffer_labels' = buffer_labels
           /\ \A b : /\ HeldByScreen(b)' = HeldByScreen(b)
                     /\ ~HeldByPresent(b)
                     /\ HeldByPresent(b)' <=> requests[1].index = b
                     /\ HeldByGpu(b)' = HeldByGpu(b)
                     /\ HeldByRequest(b) <=> HeldByRequest(b)' \/ requests[1].index = b
<1>1. req' = requests[1] /\ \A b : HeldByRequest(b) <=> HeldByRequest(b)' \/ requests[1].index = b
  BY Received, Zenon
<1>2. \A b : /\ HeldByScreen(b)' = HeldByScreen(b)
             /\ ~HeldByPresent(b)
             /\ HeldByPresent(b)' <=> requests[1].index = b
             /\ HeldByGpu(b)' = HeldByGpu(b)
  BY <1>1, PresentEffect DEF HeldByScreen, HeldByPresent, HeldByGpu
<1> QED BY <1>1, <1>2, PresentEffect, Zenon

\* The label of the buffer shown before is given up, and that of the buffer now shown
\* goes with the flip to the screen.
LEMMA HoldersShow ==
    ASSUME ResetLabel \/ SignalVoLabel
    PROVE  /\ requests' = requests
           /\ \A b : HeldByRequest(b)' = HeldByRequest(b) /\ HeldByGpu(b)' = HeldByGpu(b)
           /\ ResetLabel => \A b : /\ HeldByScreen(b) <=> prev_index = b
                                   /\ ~HeldByScreen(b)'
                                   /\ HeldByPresent(b)' = HeldByPresent(b)
           /\ SignalVoLabel => \A b : /\ ~HeldByScreen(b)
                                      /\ HeldByScreen(b)' <=> HeldByPresent(b)
                                      /\ ~HeldByPresent(b)'
<1>1. requests' = requests /\ frames' = frames /\ (gpu' \in {"irq", "flip"} <=> gpu \in {"irq", "flip"})
  BY PresentEffect
<1>2. \A b : HeldByRequest(b)' = HeldByRequest(b) /\ HeldByGpu(b)' = HeldByGpu(b)
  BY <1>1 DEF HeldByRequest, HeldByGpu
<1>3. ResetLabel => \A b : /\ HeldByScreen(b) <=> prev_index = b
                           /\ ~HeldByScreen(b)'
                           /\ HeldByPresent(b)' = HeldByPresent(b)
  BY PresentEffect DEF HeldByScreen, HeldByPresent
<1>4. SignalVoLabel => \A b : /\ ~HeldByScreen(b)
                              /\ HeldByScreen(b)' <=> HeldByPresent(b)
                              /\ ~HeldByPresent(b)'
  BY PresentEffect DEF HeldByScreen, HeldByPresent
<1> QED BY <1>1, <1>2, <1>3, <1>4, Zenon

\* A label is set while somebody holds it.
LEMMA LabelsStep ==
    ASSUME VideoOutAssumption, TypeOK, InTurn, LabelsMatch, HeldOnce, [Next]_vars
    PROVE  LabelsMatch'
<1> SUFFICES ASSUME NEW b \in Frames PROVE (b \in buffer_labels)' <=> Held(b)'
  BY DEF LabelsMatch
<1>0. /\ b \in buffer_labels <=> Held(b)
      /\ HeldByScreen(b) => ~HeldByPresent(b) /\ ~HeldByRequest(b) /\ ~HeldByGpu(b)
  BY Zenon DEF LabelsMatch, HeldOnce
<1>1. CASE Guest \/ Waiting \/ GfxFlip \/ Present \/ UNCHANGED vars
  <2>1. SameHolders(b) /\ buffer_labels' = buffer_labels
    BY <1>1, HoldersQuiet, Zenon
  <2> QED BY <1>0, <2>1 DEF SameHolders, Held
<1>2. CASE RunCommand
  <2>1. SameHolders(b) /\ buffer_labels' = buffer_labels
    BY <1>2, HoldersRun, Zenon
  <2> QED BY <1>0, <2>1 DEF SameHolders, Held
<1>3. CASE LockLabel
  <2>1. b \in buffer_labels' <=> b \in buffer_labels \/ b = frames[1]
    BY <1>3, LockEffect
  <2> QED BY <1>0, <1>3, <2>1, HoldersLock, Zenon DEF Held
<1>4. CASE SubmitFlipInternal
  BY <1>0, <1>4, HoldersEnd, Zenon DEF Held
<1>5. CASE ReceiveRequest
  BY <1>0, <1>5, HoldersReceive, Zenon DEF Held
<1>6. CASE ResetLabel
  <2>1. b \in buffer_labels' <=> b \in buffer_labels /\ b # prev_index
    BY <1>6, PresentEffect
  <2> QED BY <1>0, <1>6, <2>1, HoldersShow, Zenon DEF Held
<1>7. CASE SignalVoLabel
  BY <1>0, <1>7, HoldersShow, PresentEffect, Zenon DEF Held
<1> QED BY <1>1, <1>2, <1>3, <1>4, <1>5, <1>6, <1>7, Steps, Zenon

\* Nobody takes a label that is held.
LEMMA HolderStep ==
    ASSUME VideoOutAssumption, TypeOK, InTurn, LabelsMatch, HeldOnce, DrawnFree, [Next]_vars,
           NEW b \in Frames
    PROVE  /\ HeldByScreen(b)' => ~HeldByPresent(b)' /\ ~HeldByRequest(b)' /\ ~HeldByGpu(b)'
           /\ HeldByPresent(b)' => ~HeldByRequest(b)' /\ ~HeldByGpu(b)'
           /\ HeldByRequest(b)' => ~HeldByGpu(b)'
<1>0. /\ HeldByScreen(b) => ~HeldByPresent(b) /\ ~HeldByRequest(b) /\ ~HeldByGpu(b)
      /\ HeldByPresent(b) => ~HeldByRequest(b) /\ ~HeldByGpu(b)
      /\ HeldByRequest(b) => ~HeldByGpu(b)
  BY Zenon DEF HeldOnce
<1>1. CASE Guest \/ Waiting \/ GfxFlip \/ Present \/ UNCHANGED vars
  <2>1. SameHolders(b)
    BY <1>1, HoldersQuiet, Zenon
  <2> QED BY <1>0, <2>1 DEF SameHolders
<1>2. CASE RunCommand
  <2>1. SameHolders(b)
    BY <1>2, HoldersRun, Zenon
  <2> QED BY <1>0, <2>1 DEF SameHolders
<1>3. CASE LockLabel
  <2>1. b = frames[1] => ~Held(b)
    BY <1>3, LockEffect, Zenon DEF DrawnFree, LabelsMatch
  <2> QED BY <1>0, <1>3, <2>1, HoldersLock, Zenon DEF Held
<1>4. CASE SubmitFlipInternal
  BY <1>0, <1>4, HoldersEnd, Zenon
<1>5. CASE ReceiveRequest
  <2>1. requests[1].index = b => ~HeldByRequest(b)'
    <3> SUFFICES ASSUME requests[1].index = b,
                        NEW n \in 1 .. Len(requests'), requests'[n].index = b
                 PROVE  FALSE
      BY DEF HeldByRequest
    <3>1. /\ Len(requests) \in Nat /\ Len(requests) >= 1 /\ Len(requests') = Len(requests) - 1
          /\ \A k \in 1 .. Len(requests) - 1 : requests'[k] = requests[k + 1]
      BY <1>5, Received, Zenon
    <3>2. /\ n \in 1 .. Len(requests) - 1 /\ n + 1 \in 1 .. Len(requests)
          /\ 1 \in 1 .. Len(requests) /\ n + 1 # 1
      BY <3>1
    <3>3. requests[n + 1].index = b
      BY <3>1, <3>2, Zenon
    <3> QED BY <3>2, <3>3, Zenon DEF HeldOnce
  <2> QED BY <1>0, <1>5, <2>1, HoldersReceive, Zenon
<1>6. CASE ResetLabel \/ SignalVoLabel
  BY <1>0, <1>6, HoldersShow, Zenon
<1> QED BY <1>1, <1>2, <1>3, <1>4, <1>5, <1>6, Steps, Zenon

\* No two flips on the list are of one frame buffer.
LEMMA QueuedStep ==
    ASSUME VideoOutAssumption, TypeOK, InTurn, HeldOnce, [Next]_vars,
           NEW b \in Frames, NEW m \in 1 .. Len(requests'), NEW n \in 1 .. Len(requests'),
           requests'[m].index = b, requests'[n].index = b
    PROVE  m = n
<1>0. \A i, j \in 1 .. Len(requests) : requests[i].index = b /\ requests[j].index = b => i = j
  BY Zenon DEF HeldOnce
<1>1. CASE Guest \/ Waiting \/ GfxFlip \/ Present \/ UNCHANGED vars
  BY <1>0, <1>1, HoldersQuiet, Zenon
<1>2. CASE RunCommand
  BY <1>0, <1>2, HoldersRun, Zenon
<1>3. CASE LockLabel
  BY <1>0, <1>3, HoldersLock, Zenon
<1>4. CASE SubmitFlipInternal
  <2>1. /\ Len(requests) \in Nat /\ Len(requests') = Len(requests) + 1
        /\ requests'[Len(requests) + 1].index = frames[1]
        /\ \A k \in 1 .. Len(requests) : requests'[k] = requests[k]
        /\ HeldByGpu(b) <=> b = frames[1]
    BY <1>4, HoldersEnd, Zenon
  <2>2. \A k \in 1 .. Len(requests') : k \in 1 .. Len(requests) \/ k = Len(requests) + 1
    BY <2>1
  <2>3. b = frames[1] => \A k \in 1 .. Len(requests) : requests[k].index # b
    BY <2>1, Zenon DEF HeldOnce, HeldByRequest
  <2>4. CASE b = frames[1]
    <3>1. m = Len(requests) + 1
      BY <2>1, <2>2, <2>3, <2>4, Zenon
    <3>2. n = Len(requests) + 1
      BY <2>1, <2>2, <2>3, <2>4, Zenon
    <3> QED BY <3>1, <3>2, Zenon
  <2>5. CASE b # frames[1]
    <3>1. m \in 1 .. Len(requests) /\ requests[m].index = b
      BY <2>1, <2>2, <2>5, Zenon
    <3>2. n \in 1 .. Len(requests) /\ requests[n].index = b
      BY <2>1, <2>2, <2>5, Zenon
    <3> QED BY <1>0, <3>1, <3>2, Zenon
  <2> QED BY <2>4, <2>5, Zenon
<1>5. CASE ReceiveRequest
  <2>0. /\ Len(requests) \in Nat /\ Len(requests') = Len(requests) - 1
        /\ \A k \in 1 .. Len(requests) - 1 : requests'[k] = requests[k + 1]
    BY <1>5, Received, Zenon
  <2>1. \A k \in 1 .. Len(requests') : k \in 1 .. Len(requests) - 1 /\ k + 1 \in 1 .. Len(requests)
    BY <2>0
  <2>2. requests[m + 1].index = b /\ requests[n + 1].index = b
    BY <2>0, <2>1, Zenon
  <2>3. m + 1 = n + 1
    BY <1>0, <2>1, <2>2, Zenon
  <2>4. m \in Int /\ n \in Int
    OBVIOUS
  <2> QED BY <2>3, <2>4
<1>6. CASE ResetLabel \/ SignalVoLabel
  BY <1>0, <1>6, HoldersShow, Zenon
<1> QED BY <1>1, <1>2, <1>3, <1>4, <1>5, <1>6, Steps, Zenon

\* The two together.
LEMMA HeldStep ==
    ASSUME VideoOutAssumption, TypeOK, InTurn, LabelsMatch, HeldOnce, DrawnFree, [Next]_vars
    PROVE  HeldOnce'
<1>1. ASSUME NEW b \in Frames
      PROVE  \A m, n \in 1 .. Len(requests') :
                requests'[m].index = b /\ requests'[n].index = b => m = n
  BY QueuedStep, Zenon
<1> QED BY <1>1, HolderStep, Zenon DEF HeldOnce

-------------------------------------------------------------------------------
\* Every step of the three threads keeps the invariant.
LEMMA Inductive == ASSUME VideoOutAssumption, IInv, [Next]_vars PROVE IInv'
<1>1. TypeOK' /\ FlipsCounted' /\ InTurn' /\ NewestBefore'
  BY TypeStep, CountStep, TurnStep, NewestStep DEF IInv
<1>2. LabelsMatch' /\ HeldOnce' /\ DrawnFree'
  BY LabelsStep, HeldStep, DrawnStep DEF IInv
<1>3. Shown' /\ SleeperNotified'
  BY ShownStep, SleeperStep DEF IInv
<1> QED BY <1>1, <1>2, <1>3 DEF IInv

\* The invariant says where the buffer of the frame is not, and who will release it.
LEMMA Consequence == ASSUME VideoOutAssumption, IInv PROVE DrawnUnseen /\ VoWaitEnds
<1> USE DEF IInv
<1>1. ASSUME gpu # "loop"
      PROVE  /\ Head(frames) = frames[1] /\ frames[1] \in Frames
             /\ Head(subscribers) = frames[1]
  <2>1. frames # <<>> /\ subscribers # <<>> /\ subscribers[1] = frames[1]
    BY <1>1 DEF TypeOK, InTurn
  <2> QED BY <2>1, PopFacts DEF TypeOK
<1>2. DrawnUnseen
  <2> SUFFICES ASSUME gpu \in {"draw", "irq", "flip"}
               PROVE  /\ current_buffer.index # frames[1]
                      /\ present = "flip" => req.index # frames[1]
                      /\ \A n \in 1 .. Len(requests) : requests[n].index # frames[1]
    BY <1>1 DEF DrawnUnseen
  <2>1. ~HeldByScreen(frames[1]) /\ ~HeldByPresent(frames[1]) /\ ~HeldByRequest(frames[1])
    BY <1>1 DEF LabelsMatch, HeldOnce, DrawnFree, Held, HeldByGpu
  <2> QED BY <2>1 DEF HeldByScreen, HeldByPresent, HeldByRequest, Shown
<1>3. VoWaitEnds
  <2> SUFFICES ASSUME gpu = "sleep", frames[1] \in buffer_labels PROVE Newest # frames[1]
    BY <1>1 DEF VoWaitEnds, SleeperNotified
  <2>1. Following(frames[1]) # frames[1]
    BY <1>1, SMTT(20) DEF Following, VideoOutAssumption, Frames
  <2> QED BY <1>1, <2>1 DEF NewestBefore, Upcoming, InTurn
<1> QED BY <1>2, <1>3, Zenon

\* For any number of buffers, frames and flips: the counters of flip_status are the
\* flips on their way, a frame is drawn to a buffer that is not on screen and not about
\* to be, its own flip follows it, and the GPU thread sleeps in WaitVoLabel only for a
\* label that a flip on its way will release.
THEOREM FlipsNeverTear ==
    ASSUME VideoOutAssumption PROVE Spec => []FlipsSafe
<1>1. Init => IInv
  BY InitIInv
<1>2. IInv /\ [Next]_vars => IInv'
  BY Inductive
<1>3. IInv => FlipsSafe
  BY Consequence DEF IInv, FlipsSafe
<1> QED BY <1>1, <1>2, <1>3, PTL DEF Spec
===============================================================================
