-------------------------- MODULE FrameThreadsProofs ---------------------------
(***************************************************************************)
(* Proofs about FrameThreads, for any number of threads and any codec.     *)
(* IInv says where a worker is for each value of its state, that those at  *)
(* work are the ones from next_finished to next_decoding, that only the last *)
(* of them sets up, who has the locks, and where the one hwaccel is.       *)
(* DInv adds what they work on: counted since the last flush, submission o is *)
(* before or behind the thread whose turn it is, in the context that a single *)
(* thread would have then (ContextAt) or with the result that it would have *)
(* given (ResultAt), and what the user was given and is yet to be given of the *)
(* results taken is what it would have returned (OutAt).  DInv holds until a *)
(* worker runs out of memory, IInv also after that.                        *)
(***************************************************************************)
EXTENDS FrameThreads, SubsequenceProofs, TLAPS

\* Where a worker is tells its state; one that ran out of memory may be past its work
\* with the set-up unfinished.
Stages ==
    \A p \in Threads :
        /\ pc[p] = "input" => state[p] # "SETUP_FINISHED"
        /\ pc[p] = "setup" => state[p] = IF codec.update THEN "SETTING_UP" ELSE "SETUP_FINISHED"
        /\ pc[p] = "finish" => state[p] = "SETTING_UP"
        /\ pc[p] = "decode" => state[p] = "SETUP_FINISHED"
        /\ pc[p] \in {"release", "ready"} =>
              \/ state[p] = "SETUP_FINISHED"
              \/ state[p] = "SETTING_UP" /\ codec.update /\ nomem > 0

\* From next_finished up to next_decoding, round the ring.
AtWork(p) ==
    IF next_finished <= next_decoding
      THEN next_finished <= p /\ p < next_decoding
      ELSE next_finished <= p \/ p < next_decoding

Receiving == at \in {"loop", "submit", "copy", "wait"}
AllParked == (at = "relock" /\ call \in {"flush", "close"}) \/ at \in {"die", "join", "closed"}

\* Threads get packets and are waited for in turn; the last alone may be setting up.
Turns ==
    /\ \A p \in Threads :
          /\ state[p] # "INPUT_READY" => AtWork(p) \/ (at = "wait" /\ p = u)
          /\ state[p] = "SETTING_UP" => p = prev_thread
          /\ at = "park" /\ p < u => state[p] = "INPUT_READY"
          /\ AllParked => state[p] = "INPUT_READY"
    /\ Receiving => call \in {"send", "receive", "sync"}
    /\ at \in {"submit", "copy"} => u = next_decoding
    /\ at = "wait" => u \in Threads
    /\ at = "copy" => pc[u] = "input"

\* Who may use a hwaccel has the lock that it needs.
Locks ==
    /\ Outside => async_lock = User
    /\ \A p \in Threads : pc[p] \in {"decode", "release"} =>
          /\ NeedsAsync(p) /\ state[p] = "SETUP_FINISHED" => async_lock = p
          /\ hwaccel_serial(p) => hwaccel_mutex = p

\* The hwaccel that all threads share is with the one that sets up, or stashed; a
\* thread that has no packet has none.  Each time that it was lost, or is about to be, a
\* worker had run out of memory.
Handover ==
    OneThread =>
        /\ stash_hwaccel \in {0, made}
        /\ \A p \in Threads :
              /\ hw[p] \in {0, made}
              /\ state[p] = "INPUT_READY" \/ pc[p] = "ready" => hw[p] = 0
              /\ state[p] = "SETTING_UP" => stash_hwaccel = 0
              /\ state[p] = "SETUP_FINISHED" => hw[p] = 0 \/ hwaccel_mutex = p
              /\ state[p] = "SETTING_UP" /\ pc[p] \in {"release", "ready"} => made <= nomem
        /\ made <= nomem + 1
        /\ \/ made = stash_hwaccel
           \/ \E p \in Threads : state[p] = "SETTING_UP" /\ hw[p] = made
           \/ made <= nomem /\ \A p \in Threads : hw[p] = 0

IInv == TypeOK /\ Stages /\ Turns /\ Locks /\ Handover

\* What the steps of a worker, the start of a call and the steps of a call leave alone.
WorkerFrame ==
    UNCHANGED <<codec, stream, caller, user, internal, turns, fctx, die, history, nomem>>
ShortFrame ==
    /\ UNCHANGED <<codec, stream, caller, user, internal, turns, fctx, die, history>>
    /\ nomem' = nomem + 1
WorkerStep(p) ==
    \/ WorkerInput(p) \/ WorkerSetup(p)
    \/ FinishSerialize(p) \/ FinishAwaitsAsync(p) \/ FinishSetup(p)
    \/ AwaitProgress(p) \/ ReportProgress(p)
    \/ WorkerWipe(p) \/ WorkerRelease(p) \/ WorkerReady(p)
CallFrame == UNCHANGED <<codec, stream, turns, fctx, pc, state, die, thread, hwaccel_mutex,
                         hwaccels, nomem, owner, reported>>
InCallFrame == UNCHANGED <<codec, stream, pc, hwaccel_mutex, made, nomem, owner, reported>>

LEMMA SomeThreads == thread_count \in Nat /\ thread_count > 1
BY FrameThreadsAssumption

--------------------------------------------------------------------------------
(* What does not change what a part of the invariant is about keeps it. *)

LEMMA CodecFixed ==
    ASSUME UNCHANGED codec
    PROVE  OneThread' = OneThread /\ InCallOnly' = InCallOnly
BY DEF OneThread, InCallOnly

LEMMA StagesStay ==
    ASSUME IInv, UNCHANGED <<codec, pc, state, nomem>>
    PROVE  Stages'
BY DEF IInv, Stages

LEMMA LocksStay ==
    ASSUME IInv, UNCHANGED <<codec, pc, state, hw, async_lock, hwaccel_mutex>>, Outside' => Outside
    PROVE  Locks'
<1>1. OneThread' = OneThread /\ InCallOnly' = InCallOnly
  BY CodecFixed
<1>2. QED
  BY <1>1 DEF IInv, Locks, NeedsAsync, hwaccel_serial

LEMMA HandoverStays ==
    ASSUME IInv, UNCHANGED <<codec, pc, state, hwaccels, hwaccel_mutex, nomem>>
    PROVE  Handover'
<1>1. OneThread' = OneThread
  BY CodecFixed
<1>2. QED
  BY <1>1 DEF IInv, Handover, hwaccels

LEMMA WaitingKeeps ==
    ASSUME IInv, UNCHANGED <<codec, caller, turns, pc, state, locks, hwaccels, nomem>>
    PROVE  IInv'
<1>1. TypeOK' /\ Turns'
  BY DEF IInv, TypeOK, Turns, AtWork, Receiving, AllParked, caller, turns, locks, hwaccels
<1>2. QED
  BY <1>1, StagesStay, LocksStay, HandoverStays DEF IInv, Outside, caller, locks, hwaccels

--------------------------------------------------------------------------------
(* frame_worker_thread() *)

LEMMA WorkerInputKeeps ==
    ASSUME IInv, NEW p \in Threads, WorkerFrame, WorkerInput(p)
    PROVE  IInv'
<1> USE SomeThreads DEF caller, turns, locks, hwaccels, Threads, User, Nobody
<1>0. OneThread' = OneThread /\ InCallOnly' = InCallOnly
  BY CodecFixed DEF WorkerFrame
<1>1. TypeOK'
  <2> HIDE DEF Threads, User, Nobody
  <2>1. pc' \in [Threads -> {"input", "setup", "finish", "decode", "release", "ready", "dead"}]
    BY DEF IInv, TypeOK, WorkerInput, Goto
  <2>2. UNCHANGED <<codec, at, call, u, next_decoding, next_finished, prev_thread, state,
                    async_lock, hwaccel_mutex, hw, stash_hwaccel, made, nomem>>
    BY DEF WorkerInput, WorkerFrame
  <2> QED BY <2>1, <2>2 DEF IInv, TypeOK
<1>2. Stages'
  BY DEF IInv, TypeOK, States, Stages, WorkerFrame, WorkerInput, UserHolds, Goto
<1>3. Turns'
  BY DEF IInv, TypeOK, States, Stages, Turns, AtWork, Receiving, AllParked, WorkerFrame,
      WorkerInput, UserHolds, Goto
<1>4. Locks'
  <2>1. UNCHANGED <<at, state, hw, async_lock, hwaccel_mutex>>
    BY DEF WorkerInput, WorkerFrame
  <2>2. \A q \in Threads : pc'[q] \in {"decode", "release"} => pc[q] \in {"decode", "release"}
    BY DEF IInv, TypeOK, WorkerInput, Goto
  <2> QED BY <1>0, <2>1, <2>2 DEF IInv, Locks, Outside, NeedsAsync, hwaccel_serial
<1>5. Handover'
  <2> HIDE DEF Threads, User, Nobody
  <2>1. UNCHANGED <<state, hw, stash_hwaccel, hwaccel_mutex, made, nomem>>
    BY DEF WorkerInput, WorkerFrame
  <2>2. \A q \in Threads : pc'[q] \in {"release", "ready"} => pc[q] = pc'[q]
    BY DEF IInv, TypeOK, WorkerInput, Goto
  <2> HIDE DEF hwaccels, locks, caller, turns
  <2> QED BY <1>0, <2>1, <2>2 DEF IInv, Handover
<1>6. QED
  BY <1>1, <1>2, <1>3, <1>4, <1>5 DEF IInv

LEMMA WorkerSetupKeeps ==
    ASSUME IInv, NEW p \in Threads, WorkerFrame, WorkerSetup(p)
    PROVE  IInv'
<1> USE SomeThreads DEF locks, hwaccels, caller, turns, Threads, User, Nobody
<1>0. OneThread' = OneThread /\ InCallOnly' = InCallOnly
  BY CodecFixed DEF WorkerFrame
<1>a. /\ pc[p] = "setup" /\ pc' = [pc EXCEPT ![p] = IF codec.update THEN "finish" ELSE "ready"]
      /\ UNCHANGED <<codec, state, async_lock, stash_hwaccel, caller, turns, nomem>>
  BY DEF WorkerSetup, Goto, WorkerFrame
<1>b. /\ hwaccel_mutex' \in {p, hwaccel_mutex}
      /\ \A q \in Threads : q # p /\ hwaccel_mutex = q => hwaccel_mutex' = q
  <2> HIDE DEF Threads, hwaccels, locks, caller, turns
  <2>1. hwaccel_mutex' = hwaccel_mutex \/ (hwaccel_mutex = Nobody /\ hwaccel_mutex' = p)
    BY DEF WorkerSetup, Serialize
  <2>2. \A q \in Threads : q # Nobody
    BY DEF Threads
  <2> QED BY <2>1, <2>2
<1>c. \/ hw' = hw /\ made' = made
      \/ /\ codec.hwaccels # {} /\ hw[p] = 0
         /\ made' = (IF OneThread THEN made + 1 ELSE 1)
         /\ hw' = [hw EXCEPT ![p] = made']
  <2> HIDE DEF Threads, hwaccels
  <2>1. CASE HasPicture(p)
    BY <2>1 DEF WorkerSetup, GetFormat
  <2>2. CASE ~HasPicture(p)
    BY <2>2 DEF WorkerSetup
  <2>3. QED
    BY <2>1, <2>2
<1>1. TypeOK'
  <2>1. hw \in [Threads -> Nat] /\ made \in Nat
    BY DEF IInv, TypeOK
  <2>2. made' \in Nat
    BY <2>1, <1>c
  <2>3. hw' \in [Threads -> Nat]
    BY <2>1, <2>2, <1>c
  <2>4. UNCHANGED <<codec, at, call, u, next_decoding, next_finished, prev_thread, state,
                    async_lock, stash_hwaccel, nomem>>
    BY <1>a
  <2>5. /\ pc' \in [Threads -> {"input", "setup", "finish", "decode", "release", "ready", "dead"}]
        /\ hwaccel_mutex' \in Threads \cup {Nobody}
    BY <1>a, <1>b DEF IInv, TypeOK
  <2> HIDE DEF Threads, User, Nobody
  <2> QED BY <2>2, <2>3, <2>4, <2>5 DEF IInv, TypeOK
<1>2. Stages'
  BY <1>a DEF IInv, TypeOK, Stages, Threads
<1>3. Turns'
  BY <1>a DEF IInv, TypeOK, Turns, AtWork, Receiving, AllParked
<1>4. Locks'
  <2>1. \A q \in Threads : pc'[q] \in {"decode", "release"} =>
                              q # p /\ pc[q] \in {"decode", "release"}
    BY <1>a DEF IInv, TypeOK
  <2>2. \A q \in Threads : q # p => hw'[q] = hw[q]
    BY <1>c DEF IInv, TypeOK
  <2>3. QED
    BY <1>0, <1>a, <1>b, <2>1, <2>2 DEF IInv, TypeOK, Locks, Outside, NeedsAsync, hwaccel_serial
<1>5. Handover'
  <2>1. SUFFICES ASSUME OneThread
                 PROVE  Handover'
    BY <1>0 DEF Handover
  <2>2. codec.update \/ codec.hwaccels = {}
    BY DEF IInv, TypeOK
  <2>3. CASE hw' = hw /\ made' = made
    <3>1. ~codec.update => hw[p] = 0
      BY <2>1, <2>2 DEF OneThread
    <3>2. /\ state[p] \in {"SETTING_UP", "SETUP_FINISHED"}
          /\ ~codec.update => state[p] = "SETUP_FINISHED"
      BY <1>a DEF IInv, Stages
    <3>3. \A q \in Threads : pc'[q] = "ready" => hw[q] = 0
      BY <2>1, <3>1, <1>a DEF IInv, TypeOK, Handover
    <3>4. QED
      <4>1. \A q \in Threads : hwaccel_mutex = q => hwaccel_mutex' = q
        BY <1>b
      <4>2. \A q \in Threads : pc'[q] \in {"release", "ready"} /\ state[q] = "SETTING_UP" =>
                                 pc[q] \in {"release", "ready"}
        BY <3>2, <1>a DEF IInv, TypeOK
      <4> QED BY <2>1, <2>3, <3>3, <4>1, <4>2, <1>a DEF IInv, Handover
  <2>4. CASE ~(hw' = hw /\ made' = made)
    <3>1. codec.update /\ state[p] = "SETTING_UP"
      BY <2>4, <1>c, <1>a, <2>2 DEF IInv, Stages, TypeOK
    <3>2. hw[p] = 0 /\ made' = made + 1 /\ hw' = [hw EXCEPT ![p] = made']
      BY <2>1, <2>4, <1>c
    <3>3. stash_hwaccel = 0
      BY <2>1, <3>1 DEF IInv, Handover
    <3>4. \A q \in Threads : state[q] = "SETTING_UP" => q = p
      BY <3>1 DEF IInv, Turns
    <3>5. made <= nomem /\ \A q \in Threads : hw[q] = 0
      <4>1. CASE made = 0
        BY <2>1, <4>1 DEF IInv, Handover, TypeOK
      <4>2. CASE made # 0
        BY <2>1, <3>2, <3>3, <3>4, <4>2 DEF IInv, Handover
      <4> QED BY <4>1, <4>2
    <3>6. /\ made' <= nomem' + 1 /\ hw'[p] = made' /\ stash_hwaccel' = 0 /\ pc'[p] = "finish"
          /\ state'[p] = "SETTING_UP"
      BY <3>1, <3>2, <3>3, <3>5, <1>a DEF IInv, TypeOK
    <3>7. \A q \in Threads : hw'[q] \in {0, made'} /\ (q # p => hw'[q] = 0)
      BY <3>2, <3>5, <3>6 DEF IInv, TypeOK
    <3>8. \A q \in Threads : q # p => state'[q] # "SETTING_UP"
      BY <3>4, <1>a
    <3>9. QED
      BY <3>6, <3>7, <3>8 DEF Handover
  <2>5. QED
    BY <2>3, <2>4
<1>6. QED
  BY <1>1, <1>2, <1>3, <1>4, <1>5 DEF IInv

LEMMA FinishSerializeKeeps ==
    ASSUME IInv, NEW p \in Threads, WorkerFrame, FinishSerialize(p)
    PROVE  IInv'
<1> USE SomeThreads DEF caller, turns, locks, hwaccels, Threads, User, Nobody
<1>0. OneThread' = OneThread /\ InCallOnly' = InCallOnly
  BY CodecFixed DEF WorkerFrame
<1>1. TypeOK'
  BY DEF IInv, TypeOK, States, WorkerFrame, FinishSerialize
<1>2. Turns'
  BY DEF IInv, TypeOK, States, Stages, Turns, AtWork, Receiving, AllParked, WorkerFrame,
      FinishSerialize
<1>3. Locks'
  <2>1. /\ UNCHANGED <<at, pc, state, hw, async_lock>>
        /\ \A q \in Threads : hwaccel_mutex # q
    BY DEF FinishSerialize, WorkerFrame
  <2> QED BY <1>0, <2>1 DEF IInv, Locks, Outside, NeedsAsync, hwaccel_serial
<1>4. Handover'
  <2>1. /\ UNCHANGED <<pc, state, hw, stash_hwaccel, made, nomem>>
        /\ \A q \in Threads : hwaccel_mutex # q
    BY DEF FinishSerialize, WorkerFrame
  <2> QED BY <1>0, <2>1 DEF IInv, Handover
<1>5. QED
  BY <1>1, <1>2, <1>3, <1>4, StagesStay DEF IInv, WorkerFrame, FinishSerialize, Outside

LEMMA FinishAwaitsAsyncKeeps ==
    ASSUME IInv, NEW p \in Threads, WorkerFrame, FinishAwaitsAsync(p)
    PROVE  IInv'
BY WaitingKeeps DEF FinishAwaitsAsync, WorkerFrame, caller, turns, locks, hwaccels, shared

LEMMA FinishSetupKeeps ==
    ASSUME IInv, NEW p \in Threads, WorkerFrame, FinishSetup(p)
    PROVE  IInv'
<1> USE SomeThreads DEF caller, turns, locks, hwaccels, Threads, User, Nobody
<1>0. OneThread' = OneThread /\ InCallOnly' = InCallOnly
  BY CodecFixed DEF WorkerFrame
<1>1. TypeOK'
  BY DEF IInv, TypeOK, States, WorkerFrame, FinishSetup, InFinish, Goto, After
<1>2. Stages'
  BY DEF IInv, TypeOK, States, Stages, WorkerFrame, FinishSetup, InFinish, Goto, After
<1>3. Turns'
  BY DEF IInv, TypeOK, States, Stages, Turns, AtWork, Receiving, AllParked, WorkerFrame,
      FinishSetup, InFinish, Goto, After
<1>4. Locks'
  <2>1. \A q \in Threads : q # p => pc'[q] = pc[q]
    BY DEF IInv, TypeOK, FinishSetup, Goto
  <2>2. NeedsAsync(p) => async_lock = Nobody /\ async_lock' = p
    BY DEF FinishSetup
  <2>3. ~NeedsAsync(p) => async_lock' = async_lock
    BY DEF FinishSetup
  <2>4. (hwaccel_serial(p) => hwaccel_mutex = p) /\ UNCHANGED <<hwaccel_mutex, hw, at>>
    BY DEF FinishSetup, InFinish, WorkerFrame
  <2>5. Outside => ~NeedsAsync(p)
    BY <2>2 DEF IInv, Locks
  <2>6. \A q \in Threads : /\ NeedsAsync(q)' = NeedsAsync(q)
                           /\ hwaccel_serial(q)' = hwaccel_serial(q)
    BY <1>0, <2>4 DEF NeedsAsync, hwaccel_serial
  <2>7. \A q \in Threads : q # p => state'[q] = state[q]
    BY DEF IInv, TypeOK, FinishSetup
  <2>8. QED
    BY <2>1, <2>2, <2>3, <2>4, <2>5, <2>6, <2>7 DEF IInv, Locks, Outside
<1>5. Handover'
  <2> HIDE DEF Threads, User, Nobody
  <2>1. /\ UNCHANGED <<hw, made, nomem, hwaccel_mutex>>
        /\ state[p] = "SETTING_UP" /\ state'[p] = "SETUP_FINISHED"
        /\ \A q \in Threads : q # p => pc'[q] = pc[q] /\ state'[q] = state[q]
    BY DEF IInv, TypeOK, Stages, FinishSetup, InFinish, Goto, WorkerFrame
  <2>2. \A q \in Threads : state[q] = "SETTING_UP" => q = p
    BY <2>1 DEF IInv, Turns
  <2>3. ASSUME OneThread
        PROVE  /\ stash_hwaccel' = hw[p]
               /\ hw[p] = 0 \/ hwaccel_mutex = p
               /\ pc'[p] = "ready" => hw[p] = 0
    <3>1. stash_hwaccel = 0
      BY <2>1, <2>3 DEF IInv, Handover
    <3>2. /\ stash_hwaccel' = IF hwaccel_serial(p) THEN hw[p] ELSE stash_hwaccel
          /\ hwaccel_serial(p) => hwaccel_mutex = p
      BY DEF FinishSetup, InFinish
    <3>3. hwaccel_serial(p) <=> hw[p] # 0
      BY <2>3 DEF hwaccel_serial
    <3>4. pc'[p] \in {"setup", "decode", After(p)}
      BY DEF FinishSetup, Goto, IInv, TypeOK
    <3> QED BY <3>1, <3>2, <3>3, <3>4 DEF After
  <2> HIDE DEF hwaccels, locks, caller, turns
  <2> QED BY <1>0, <2>1, <2>2, <2>3 DEF IInv, Handover
<1>6. QED
  BY <1>1, <1>2, <1>3, <1>4, <1>5 DEF IInv

LEMMA AwaitProgressKeeps ==
    ASSUME IInv, NEW p \in Threads, WorkerFrame, AwaitProgress(p)
    PROVE  IInv'
BY WaitingKeeps DEF AwaitProgress, WorkerFrame, caller, turns, locks, hwaccels, shared

LEMMA PictureDoneKeeps ==
    ASSUME IInv, NEW p \in Threads, WorkerFrame \/ ShortFrame, PictureDone(p)
    PROVE  IInv'
<1> USE SomeThreads DEF caller, turns, locks, hwaccels, Threads, User, Nobody
<1>a. /\ UNCHANGED <<codec, at, call, u, next_decoding, next_finished, prev_thread, state>>
      /\ UNCHANGED <<async_lock, hwaccel_mutex, hw, stash_hwaccel, made>>
      /\ nomem' \in {nomem, nomem + 1}
  BY DEF WorkerFrame, ShortFrame, PictureDone
<1>b. \E where \in {"release", "ready"} :
          /\ pc' = [pc EXCEPT ![p] = where]
          /\ where = "ready" => ~hwaccel_serial(p)
  BY DEF PictureDone, Goto, After
<1>c. pc[p] = "decode" /\ state[p] = "SETUP_FINISHED"
  BY DEF PictureDone, IInv, Stages
<1>0. OneThread' = OneThread /\ InCallOnly' = InCallOnly
  BY <1>a, CodecFixed
<1>1. TypeOK'
  <2>1. pc' \in [Threads -> {"input", "setup", "finish", "decode", "release", "ready", "dead"}]
    BY <1>b DEF IInv, TypeOK
  <2>2. nomem' \in Nat
    BY <1>a DEF IInv, TypeOK
  <2> HIDE DEF Threads, User, Nobody
  <2> QED BY <1>a, <2>1, <2>2 DEF IInv, TypeOK
<1>2. Stages'
  BY <1>a, <1>b, <1>c DEF IInv, TypeOK, Stages
<1>3. Turns'
  BY <1>a, <1>b, <1>c DEF IInv, TypeOK, Turns, AtWork, Receiving, AllParked
<1>4. Locks'
  <2>1. \A q \in Threads : pc'[q] \in {"decode", "release"} => pc[q] \in {"decode", "release"}
    BY <1>b, <1>c DEF IInv, TypeOK
  <2> QED BY <1>0, <1>a, <2>1 DEF IInv, Locks, Outside, NeedsAsync, hwaccel_serial
<1>5. Handover'
  <2>1. SUFFICES ASSUME OneThread
                 PROVE  Handover'
    BY <1>0 DEF Handover
  <2>2. \A q \in Threads :
            /\ (pc'[q] = "ready" => hw[q] = 0)
            /\ (state[q] = "SETTING_UP" => pc'[q] = pc[q])
    BY <2>1, <1>b, <1>c DEF IInv, TypeOK, Handover, hwaccel_serial
  <2>3. nomem <= nomem' /\ nomem \in Nat /\ nomem' \in Nat /\ made \in Nat /\ made' = made
    BY <1>a DEF IInv, TypeOK
  <2>4. made <= nomem + 1
    BY <2>1 DEF IInv, Handover
  <2>5. made' <= nomem' + 1 /\ (made <= nomem => made' <= nomem')
    <3>1. \A a, b, c \in Nat : b <= c /\ a <= b + 1 => a <= c + 1 /\ (a <= b => a <= c)
      OBVIOUS
    <3> QED BY <2>3, <2>4, <3>1
  <2>6. \A q \in Threads : pc'[q] \in {"release", "ready"} /\ state[q] = "SETTING_UP" =>
                             pc[q] \in {"release", "ready"}
    BY <2>2
  <2> QED BY <1>a, <2>1, <2>2, <2>5, <2>6 DEF IInv, Handover
<1>6. QED
  BY <1>1, <1>2, <1>3, <1>4, <1>5 DEF IInv

LEMMA SetupFailsKeeps ==
    ASSUME IInv, NEW p \in Threads, ShortFrame, SetupFails(p)
    PROVE  IInv'
<1> USE SomeThreads DEF locks, hwaccels, caller, turns, Threads, User, Nobody
<1>0. OneThread' = OneThread /\ InCallOnly' = InCallOnly
  BY CodecFixed DEF ShortFrame
<1>a. /\ pc[p] = "setup"
      /\ UNCHANGED <<codec, at, call, u, next_decoding, next_finished, prev_thread, state>>
      /\ UNCHANGED <<async_lock, hw, stash_hwaccel, made>>
      /\ nomem' = nomem + 1
  BY DEF SetupFails, ShortFrame
<1>b. \E where \in {"release", "ready"} :
          /\ pc' = [pc EXCEPT ![p] = where]
          /\ where = "ready" => ~hwaccel_serial(p)
  BY DEF SetupFails, Goto, After
<1>c. /\ hwaccel_mutex' \in {p, hwaccel_mutex}
      /\ hwaccel_serial(p) => hwaccel_mutex' = p
      /\ \A q \in Threads : q # p /\ hwaccel_mutex = q => hwaccel_mutex' = q
  <2> HIDE DEF Threads, hwaccels, locks, caller, turns
  <2>1. \/ hwaccel_mutex' = hwaccel_mutex /\ ~hwaccel_serial(p)
        \/ hwaccel_mutex = Nobody /\ hwaccel_mutex' = p
    BY DEF SetupFails, Serialize
  <2>2. \A q \in Threads : q # Nobody
    BY DEF Threads
  <2> QED BY <2>1, <2>2
<1>d. state[p] = IF codec.update THEN "SETTING_UP" ELSE "SETUP_FINISHED"
  BY <1>a DEF IInv, Stages
<1>e. nomem \in Nat /\ made \in Nat
  BY DEF IInv, TypeOK
<1>1. TypeOK'
  <2>1. pc' \in [Threads -> {"input", "setup", "finish", "decode", "release", "ready", "dead"}]
    BY <1>b DEF IInv, TypeOK
  <2>2. nomem' \in Nat /\ hwaccel_mutex' \in Threads \cup {Nobody}
    BY <1>a, <1>c, <1>e DEF IInv, TypeOK
  <2> HIDE DEF Threads, User, Nobody
  <2> QED BY <1>a, <2>1, <2>2 DEF IInv, TypeOK
<1>2. Stages'
  <2>1. nomem' > 0
    BY <1>a, <1>e
  <2> QED BY <1>a, <1>b, <1>d, <2>1 DEF IInv, TypeOK, Stages
<1>3. Turns'
  BY <1>a, <1>b DEF IInv, TypeOK, Turns, AtWork, Receiving, AllParked
<1>4. Locks'
  <2>1. \A q \in Threads : q # p => pc'[q] = pc[q]
    BY <1>b DEF IInv, TypeOK
  <2>2. NeedsAsync(p) => codec.update
    BY DEF NeedsAsync, InCallOnly, IInv, TypeOK
  <2>3. NeedsAsync(p) => state[p] # "SETUP_FINISHED"
    BY <2>2, <1>d
  <2> QED BY <1>0, <1>a, <1>c, <2>1, <2>3 DEF IInv, Locks, Outside, NeedsAsync, hwaccel_serial
<1>5. Handover'
  <2>1. SUFFICES ASSUME OneThread
                 PROVE  Handover'
    BY <1>0 DEF Handover
  <2>2. \A q \in Threads : pc'[q] = "ready" => hw[q] = 0
    BY <2>1, <1>b DEF IInv, TypeOK, Handover, hwaccel_serial
  <2>3. made' <= nomem' /\ made' <= nomem' + 1
    BY <2>1, <1>a, <1>e DEF IInv, Handover
  <2>4. \A q \in Threads : hwaccel_mutex = q => hwaccel_mutex' = q
    BY <1>c
  <2>5. hw[p] = 0 \/ hwaccel_mutex' = p
    BY <2>1, <1>c DEF hwaccel_serial
  <2> QED BY <1>a, <2>1, <2>2, <2>3, <2>4, <2>5 DEF IInv, Handover
<1>6. QED
  BY <1>1, <1>2, <1>3, <1>4, <1>5 DEF IInv

LEMMA WorkerWipeKeeps ==
    ASSUME IInv, NEW p \in Threads, WorkerFrame, WorkerWipe(p)
    PROVE  IInv'
<1> USE SomeThreads DEF caller, turns, locks, hwaccels, Threads, User, Nobody
<1>0. OneThread' = OneThread /\ InCallOnly' = InCallOnly
  BY CodecFixed DEF WorkerFrame
<1>a. /\ pc[p] = "release" /\ hwaccel_mutex = p /\ hwaccel_mutex' = Nobody
      /\ hw' = [hw EXCEPT ![p] = 0]
      /\ UNCHANGED <<codec, at, call, u, next_decoding, next_finished, prev_thread, state, pc>>
      /\ UNCHANGED <<async_lock, stash_hwaccel, made, nomem>>
  BY DEF WorkerWipe, WorkerFrame
<1>b. hw'[p] = 0 /\ \A q \in Threads : q # p => hw'[q] = hw[q]
  BY <1>a DEF IInv, TypeOK
<1>1. TypeOK'
  BY <1>a DEF IInv, TypeOK
<1>2. Turns'
  BY <1>a DEF IInv, TypeOK, Turns, AtWork, Receiving, AllParked
<1>3. Locks'
  BY <1>0, <1>a, <1>b DEF IInv, Locks, Outside, NeedsAsync, hwaccel_serial
<1>4. Handover'
  <2>1. SUFFICES ASSUME OneThread
                 PROVE  Handover'
    BY <1>0 DEF Handover
  <2>2. CASE state[p] # "SETTING_UP"
    BY <1>a, <1>b, <2>1, <2>2 DEF IInv, Handover
  \* The worker loses what it has not stashed; nobody else has it.
  <2>3. CASE state[p] = "SETTING_UP"
    <3>1. made <= nomem
      BY <1>a, <2>1, <2>3 DEF IInv, Handover
    <3>2. \A q \in Threads : state[q] = "SETTING_UP" => q = p
      BY <2>3 DEF IInv, Turns
    <3>3. ASSUME NEW q \in Threads, q # p
          PROVE  hw[q] = 0
      <4>1. state[q] \in {"INPUT_READY", "SETUP_FINISHED"}
        BY <3>2, <3>3 DEF IInv, TypeOK, States
      <4> QED BY <1>a, <2>1, <3>3, <4>1 DEF IInv, Handover
    <3> QED BY <1>a, <1>b, <2>1, <3>1, <3>3 DEF IInv, Handover
  <2> QED BY <2>2, <2>3
<1>5. QED
  BY <1>a, <1>1, <1>2, <1>3, <1>4, StagesStay DEF IInv

LEMMA WorkerReleaseKeeps ==
    ASSUME IInv, NEW p \in Threads, WorkerFrame, WorkerRelease(p)
    PROVE  IInv'
<1> USE SomeThreads DEF caller, turns, locks, hwaccels, Threads, User, Nobody
<1>0. OneThread' = OneThread /\ InCallOnly' = InCallOnly
  BY CodecFixed DEF WorkerFrame
<1>a. /\ pc[p] = "release" /\ hwaccel_mutex # p /\ pc' = [pc EXCEPT ![p] = "ready"]
      /\ UNCHANGED <<codec, at, call, u, next_decoding, next_finished, prev_thread, state>>
      /\ UNCHANGED <<hwaccel_mutex, hw, stash_hwaccel, made, nomem>>
  BY DEF WorkerRelease, WorkerFrame, Goto
<1>b. async_lock' = async_lock \/ (async_lock = p /\ async_lock' = Nobody)
  BY DEF WorkerRelease
<1>1. TypeOK'
  BY <1>a, <1>b DEF IInv, TypeOK
<1>2. Stages'
  BY <1>a DEF IInv, TypeOK, Stages
<1>3. Turns'
  BY <1>a DEF IInv, TypeOK, Turns, AtWork, Receiving, AllParked
<1>4. Locks'
  <2>1. \A q \in Threads : pc'[q] \in {"decode", "release"} =>
                              q # p /\ pc[q] \in {"decode", "release"}
    BY <1>a DEF IInv, TypeOK
  <2> QED BY <1>0, <1>a, <1>b, <2>1 DEF IInv, Locks, Outside, NeedsAsync, hwaccel_serial
<1>5. Handover'
  <2>1. SUFFICES ASSUME OneThread
                 PROVE  Handover'
    BY <1>0 DEF Handover
  <2>2. hw[p] = 0
    BY <1>a, <2>1 DEF IInv, Locks, hwaccel_serial
  <2>3. \A q \in Threads : q # p => pc'[q] = pc[q]
    BY <1>a DEF IInv, TypeOK
  <2> QED BY <1>a, <2>1, <2>2, <2>3 DEF IInv, Handover
<1>6. QED
  BY <1>1, <1>2, <1>3, <1>4, <1>5 DEF IInv

LEMMA WorkerReadyKeeps ==
    ASSUME IInv, NEW p \in Threads, WorkerFrame, WorkerReady(p)
    PROVE  IInv'
<1> USE SomeThreads DEF caller, turns, locks, hwaccels, Threads, User, Nobody
<1>0. OneThread' = OneThread /\ InCallOnly' = InCallOnly
  BY CodecFixed DEF WorkerFrame
<1>1. TypeOK'
  BY DEF IInv, TypeOK, States, WorkerFrame, WorkerReady, Goto
<1>2. Stages'
  BY DEF IInv, TypeOK, States, Stages, WorkerFrame, WorkerReady, Goto
<1>3. Turns'
  BY DEF IInv, TypeOK, States, Stages, Turns, AtWork, Receiving, AllParked, WorkerFrame,
      WorkerReady, Goto
<1>4. Locks'
  BY <1>0 DEF IInv, TypeOK, States, Locks, Stages, Turns, AllParked, Outside, NeedsAsync,
      hwaccel_serial, WorkerFrame, WorkerReady, Goto
<1>5. Handover'
  BY <1>0 DEF IInv, TypeOK, States, Stages, Turns, Locks, Handover, hwaccel_serial, WorkerFrame,
      WorkerReady, Goto
<1>6. QED
  BY <1>1, <1>2, <1>3, <1>4, <1>5 DEF IInv

--------------------------------------------------------------------------------
(* The user's calls. *)

LEMMA CallTypes ==
    ASSUME TypeOK, UNCHANGED <<codec, turns, pc, state, hwaccel_mutex, hwaccels, nomem>>,
           at' \in {"out", "loop", "submit", "park", "relock"},
           call' \in {"other", "send", "receive", "sync", "flush", "close"} \cup {call},
           u' \in Threads \cup {u}, async_lock' \in {Nobody, async_lock}
    PROVE  TypeOK'
<1>1. u' \in 1 .. thread_count + 1
  BY SomeThreads DEF TypeOK, Threads
<1>2. /\ UNCHANGED <<codec, next_decoding, next_finished, prev_thread, pc, state>>
      /\ UNCHANGED <<hwaccel_mutex, hw, stash_hwaccel, made>>
  BY DEF turns, hwaccels
<1>3. call' \in {"none", "other", "send", "receive", "sync", "flush", "close"}
  BY DEF TypeOK
<1> QED BY <1>1, <1>2, <1>3 DEF TypeOK

LEMMA avcodec_send_packetKeeps ==
    ASSUME IInv, CallFrame, avcodec_send_packet
    PROVE  IInv'
<1> USE SomeThreads DEF caller, turns, hwaccels, Threads, User, Nobody
<1>0. OneThread' = OneThread /\ InCallOnly' = InCallOnly
  BY CodecFixed DEF CallFrame
<1>a. \/ UNCHANGED <<at, u, async_lock>> /\ call' = "other"
      \/ at' = "loop" /\ u' = 1 /\ async_lock' = Nobody /\ call' = "send"
  BY DEF avcodec_send_packet, Return, Enter
<1>1. TypeOK'
  <2>1. at = "out" /\ 1 \in Threads
    BY DEF avcodec_send_packet, Outside
  <2> QED BY <1>a, <2>1, CallTypes DEF CallFrame, IInv
<1>2. Turns'
  BY DEF IInv, TypeOK, States, Stages, Turns, AtWork, Receiving, AllParked, CallFrame,
      avcodec_send_packet, Enter, Return, Outside
<1>3. Locks'
  BY <1>0 DEF IInv, TypeOK, States, Locks, Stages, Turns, AllParked, Outside, NeedsAsync,
      hwaccel_serial, CallFrame, avcodec_send_packet, Enter, Return
<1>4. QED
  BY <1>1, <1>2, <1>3, StagesStay, HandoverStays DEF IInv, CallFrame, avcodec_send_packet,
      Outside, Enter, Return, hwaccels

LEMMA avcodec_send_endKeeps ==
    ASSUME IInv, CallFrame, avcodec_send_end
    PROVE  IInv'
<1> USE SomeThreads DEF caller, turns, hwaccels, Threads, User, Nobody
<1>0. OneThread' = OneThread /\ InCallOnly' = InCallOnly
  BY CodecFixed DEF CallFrame
<1>1. TypeOK'
  BY DEF IInv, TypeOK, States, CallFrame, avcodec_send_end, Return, Outside
<1>2. Turns'
  BY DEF IInv, TypeOK, States, Stages, Turns, AtWork, Receiving, AllParked, CallFrame,
      avcodec_send_end, Return, Outside
<1>3. Locks'
  BY <1>0 DEF IInv, TypeOK, States, Locks, Stages, Turns, AllParked, Outside, NeedsAsync,
      hwaccel_serial, CallFrame, avcodec_send_end, Return
<1>4. QED
  BY <1>1, <1>2, <1>3, StagesStay, HandoverStays DEF IInv, CallFrame, avcodec_send_end, Outside,
      Return, hwaccels

LEMMA avcodec_receive_frameKeeps ==
    ASSUME IInv, CallFrame, avcodec_receive_frame
    PROVE  IInv'
<1> USE SomeThreads DEF hwaccels, turns, Threads, User, Nobody
<1>0. OneThread' = OneThread /\ InCallOnly' = InCallOnly
  BY CodecFixed DEF CallFrame
<1>a. \/ UNCHANGED <<at, u, async_lock>> /\ call' = "other"
      \/ at' = "loop" /\ u' = 1 /\ async_lock' = Nobody /\ call' \in {"receive", "sync"}
  BY DEF avcodec_receive_frame, Return, Enter
<1>b. at = "out"
  BY DEF avcodec_receive_frame, Outside
<1>1. TypeOK'
  <2>1. 1 \in Threads
    OBVIOUS
  <2> QED BY <1>a, <1>b, <2>1, CallTypes DEF CallFrame, IInv
<1>2. Stages'
  BY DEF CallFrame, IInv, Stages
<1>3. Turns'
  BY <1>a, <1>b DEF CallFrame, IInv, Turns, AtWork, Receiving, AllParked, TypeOK
<1>4. Locks'
  BY <1>a, <1>b, <1>0 DEF CallFrame, IInv, Locks, Outside, TypeOK, NeedsAsync, hwaccel_serial
<1>5. Handover'
  BY <1>0 DEF CallFrame, IInv, Handover
<1>6. QED
  BY <1>1, <1>2, <1>3, <1>4, <1>5 DEF IInv

LEMMA ParkAllKeeps ==
    ASSUME IInv, CallFrame, ParkAll
    PROVE  IInv'
<1> USE SomeThreads DEF caller, turns, hwaccels, Threads, User, Nobody
<1>0. OneThread' = OneThread /\ InCallOnly' = InCallOnly
  BY CodecFixed DEF CallFrame
<1>1. TypeOK'
  <2>1. /\ at' = "park" /\ call' \in {"flush", "close"} /\ u' = 1 /\ async_lock' = Nobody
        /\ 1 \in Threads
    BY DEF ParkAll, Enter
  <2> QED BY <2>1, CallTypes DEF CallFrame, IInv
<1>2. Turns'
  BY DEF IInv, TypeOK, States, Stages, Turns, AtWork, Receiving, AllParked, CallFrame, ParkAll,
      Enter, Outside
<1>3. Locks'
  <2>1. at' = "park" /\ async_lock' = Nobody /\ UNCHANGED <<pc, state, hw, hwaccel_mutex>>
    BY DEF ParkAll, Enter, CallFrame
  <2>2. \A p \in Threads : ~(NeedsAsync(p) /\ async_lock = p)
    BY DEF IInv, Locks, ParkAll, Outside
  <2> QED BY <1>0, <2>1, <2>2 DEF IInv, Locks, Outside, NeedsAsync, hwaccel_serial
<1>4. QED
  BY <1>1, <1>2, <1>3, StagesStay, HandoverStays DEF IInv, CallFrame, ParkAll, Outside, Enter,
      hwaccels

--------------------------------------------------------------------------------
(* What a call does. *)

LEMMA FinishKeeps ==
    ASSUME IInv, InCallFrame, Finish
    PROVE  IInv'
<1> USE SomeThreads DEF caller, turns, shared, Threads, User, Nobody
<1>1. TypeOK'
  BY DEF IInv, TypeOK, States, InCallFrame, Finish, Go
<1>2. Turns'
  BY DEF IInv, TypeOK, States, Stages, Turns, AtWork, Receiving, AllParked, InCallFrame, Finish,
      Go
<1>3. QED
  BY <1>1, <1>2, StagesStay, LocksStay, HandoverStays DEF IInv, InCallFrame, Finish, Outside,
      Go, hwaccels

LEMMA WaitAtOnceKeeps ==
    ASSUME IInv, InCallFrame, WaitAtOnce
    PROVE  IInv'
<1> USE SomeThreads DEF caller, turns, shared, Threads, User, Nobody
<1>1. TypeOK'
  BY DEF IInv, TypeOK, States, InCallFrame, WaitAtOnce, With, Successor, InFlight
<1>2. Turns'
  BY DEF IInv, TypeOK, States, Stages, Turns, AtWork, Receiving, AllParked, InCallFrame,
      WaitAtOnce, With, Successor, InFlight
<1>3. QED
  BY <1>1, <1>2, StagesStay, LocksStay, HandoverStays DEF IInv, InCallFrame, WaitAtOnce,
      Outside, With, hwaccels

LEMMA GetPacketKeeps ==
    ASSUME IInv, InCallFrame, GetPacket
    PROVE  IInv'
<1> USE SomeThreads DEF caller, turns, shared, Threads, User, Nobody
<1>1. TypeOK'
  <2>1. /\ at' \in {"relock", "submit"} /\ call' = call /\ u' \in {u, next_decoding}
        /\ UNCHANGED <<turns, state, async_lock, hw, stash_hwaccel>>
    BY DEF GetPacket, Go, With
  <2>2. next_decoding \in Threads
    BY DEF IInv, TypeOK
  <2> QED BY <2>1, <2>2, CallTypes DEF InCallFrame, IInv, hwaccels
<1>2. Turns'
  BY DEF IInv, TypeOK, States, Stages, Turns, AtWork, Receiving, AllParked, InCallFrame,
      GetPacket, Go, With
<1>3. QED
  BY <1>1, <1>2, StagesStay, LocksStay, HandoverStays DEF IInv, InCallFrame, GetPacket, Outside,
      Go, With, hwaccels

LEMMA SubmitPacketKeeps ==
    ASSUME IInv, InCallFrame, SubmitPacket
    PROVE  IInv'
<1> USE SomeThreads DEF caller, turns, shared, Threads, User, Nobody
<1>1. TypeOK'
  BY DEF IInv, TypeOK, States, InCallFrame, SubmitPacket, Go
<1>2. Turns'
  BY DEF IInv, TypeOK, States, Stages, Turns, AtWork, Receiving, AllParked, InCallFrame,
      SubmitPacket, Go
<1>3. QED
  BY <1>1, <1>2, StagesStay, LocksStay, HandoverStays DEF IInv, InCallFrame, SubmitPacket,
      Outside, Go, hwaccels

LEMMA SubmitAwaitsSetupKeeps ==
    ASSUME IInv, InCallFrame, SubmitAwaitsSetup
    PROVE  IInv'
BY WaitingKeeps DEF SubmitAwaitsSetup, InCallFrame, caller, turns, locks, hwaccels, shared

LEMMA CopyFailsKeeps ==
    ASSUME IInv, InCallFrame, CopyFails
    PROVE  IInv'
<1> USE SomeThreads DEF caller, turns, shared, Threads, User, Nobody
<1>1. TypeOK'
  BY DEF IInv, TypeOK, States, InCallFrame, CopyFails, Go, CanCopy
<1>2. Turns'
  BY DEF IInv, TypeOK, States, Stages, Turns, AtWork, Receiving, AllParked, InCallFrame,
      CopyFails, Go, CanCopy
<1>3. QED
  BY <1>1, <1>2, StagesStay, LocksStay, HandoverStays DEF IInv, InCallFrame, CopyFails, Outside,
      Go, CanCopy, hwaccels

LEMMA SubmitKeeps ==
    ASSUME IInv, InCallFrame, Submit
    PROVE  IInv'
<1> USE SomeThreads
<1>0. OneThread' = OneThread /\ InCallOnly' = InCallOnly
  BY CodecFixed DEF InCallFrame
<1>a. /\ at = "copy" /\ u = next_decoding /\ u \in Threads
      /\ call \in {"send", "receive", "sync"} /\ pc[u] = "input"
  BY DEF Submit, CanCopy, IInv, TypeOK, Turns, Receiving
<1>b. /\ state' = [state EXCEPT ![u] = "SETTING_UP"]
      /\ prev_thread' = u /\ next_decoding' = Successor(next_decoding)
      /\ prev_thread # 0 => state[prev_thread] # "SETTING_UP"
      /\ UNCHANGED <<async_lock, pc, hwaccel_mutex, made, nomem, call, codec>>
  BY DEF Submit, CanCopy, SetUp, InCallFrame, Go, With
<1>c. \/ at' = "loop" /\ u' = u /\ next_finished' = next_finished /\ next_decoding' # next_finished
      \/ at' = "wait" /\ u' = next_finished /\ next_finished' = Successor(next_finished)
  BY DEF Submit, Go, With
<1>d. IF OneThread
        THEN hw' = [hw EXCEPT ![u] = stash_hwaccel] /\ stash_hwaccel' = hw[u]
        ELSE hw' \in {hw, [hw EXCEPT ![u] = hw[prev_thread]]} /\ stash_hwaccel' = stash_hwaccel
             /\ (hw' = hw \/ prev_thread # 0)
  BY DEF Submit, UpdatedHw, Updates
<1>1. TypeOK'
  <2>1. hw' \in [Threads -> Nat] /\ stash_hwaccel' \in Nat
    <3>1. CASE OneThread
      BY <3>1, <1>a, <1>d DEF IInv, TypeOK
    <3>2. CASE ~OneThread
      BY <3>2, <1>a, <1>d DEF IInv, TypeOK
    <3>3. QED
      BY <3>1, <3>2
  <2>2. next_decoding' \in Threads /\ next_finished' \in Threads /\ u' \in Threads
    <3>1. \A p \in Threads : Successor(p) \in Threads
      BY DEF Successor, Threads
    <3>2. u \in Threads /\ next_decoding \in Threads /\ next_finished \in Threads
      BY <1>a DEF IInv, TypeOK
    <3>3. QED
      BY <3>1, <3>2, <1>b, <1>c
  <2>3. u' \in 1 .. thread_count + 1
    BY <2>2 DEF Threads
  <2>4. at' \in {"loop", "wait"}
    BY <1>c
  <2>5. state' \in [Threads -> States]
    BY <1>b DEF IInv, TypeOK, States
  <2>6. codec.hwaccels # {} => codec.update
    BY DEF IInv, TypeOK
  <2>7. QED
    BY <1>a, <1>b, <2>1, <2>2, <2>3, <2>4, <2>5, <2>6 DEF IInv, TypeOK
<1>2. Stages'
  <2>1. \A p \in Threads : pc'[p] = pc[p] /\ (p # u => state'[p] = state[p])
    BY <1>b DEF IInv, TypeOK
  <2>2. state'[u] = "SETTING_UP" /\ pc'[u] = "input"
    BY <1>a, <1>b DEF IInv, TypeOK
  <2>3. QED
    BY <1>a, <1>b, <2>1, <2>2 DEF IInv, Stages
<1>3. Turns'
  <2>1. \A p \in Threads : state'[p] = "SETTING_UP" => p = prev_thread'
    BY <1>a, <1>b DEF IInv, TypeOK, Turns, Threads
  <2>2. \A p \in Threads : state'[p] # "INPUT_READY" => AtWork(p) \/ p = next_decoding
    BY <1>a, <1>b DEF IInv, TypeOK, Turns
  <2>3. \A p \in Threads : AtWork(p) \/ p = next_decoding => AtWork(p)' \/ (at' = "wait" /\ p = u')
    <3>1. next_finished \in Threads /\ next_decoding \in Threads
      BY DEF IInv, TypeOK
    <3>2. CASE at' = "loop" /\ next_finished' = next_finished /\ next_decoding' # next_finished
      BY <1>b, <3>1, <3>2 DEF AtWork, Successor, Threads
    <3>3. CASE at' = "wait" /\ u' = next_finished /\ next_finished' = Successor(next_finished)
      BY <1>b, <3>1, <3>3 DEF AtWork, Successor, Threads
    <3> QED BY <1>c, <3>2, <3>3
  <2>4. u' \in Threads /\ at' \in {"loop", "wait"}
    BY <1>a, <1>c DEF IInv, TypeOK
  <2>5. QED
    BY <1>a, <1>b, <2>1, <2>2, <2>3, <2>4 DEF IInv, TypeOK, Turns, Receiving, AllParked
<1>4. Locks'
  <2>1. \A q \in Threads : pc'[q] \in {"decode", "release"} => hw'[q] = hw[q]
    BY <1>a, <1>b, <1>d DEF IInv, TypeOK
  <2>2. at' # "out"
    BY <1>c
  <2>3. QED
    BY <1>0, <1>b, <2>1, <2>2 DEF IInv, Locks, NeedsAsync, hwaccel_serial, Outside
<1>5. Handover'
  <2>1. SUFFICES ASSUME OneThread
                 PROVE  Handover'
    BY <1>0 DEF Handover
  <2>2. hw[u] = 0
    <3>1. ~AtWork(u)
      BY <1>a DEF IInv, TypeOK, AtWork, Threads
    <3>2. state[u] = "INPUT_READY"
      BY <3>1, <1>a DEF IInv, Turns
    <3>3. QED
      BY <3>2, <2>1, <1>a DEF IInv, Handover
  <2>3. /\ hw' = [hw EXCEPT ![u] = stash_hwaccel] /\ stash_hwaccel' = 0
        /\ \A q \in Threads : state[q] # "SETTING_UP"
    BY <2>1, <2>2, <1>b, <1>d DEF IInv, Turns, Threads
  <2>4. /\ state'[u] = "SETTING_UP" /\ hw'[u] = stash_hwaccel /\ pc'[u] = "input"
        /\ \A q \in Threads : q # u => state'[q] = state[q] /\ hw'[q] = hw[q] /\ pc'[q] = pc[q]
    BY <2>3, <1>a, <1>b DEF IInv, TypeOK
  <2>5. \/ hw'[u] = made'
        \/ made' <= nomem' /\ \A q \in Threads : hw'[q] = 0
    <3>1. CASE stash_hwaccel = made
      <4>1. made' = made
        BY <1>b
      <4> QED BY <2>4, <3>1, <4>1
    <3>2. CASE stash_hwaccel # made
      BY <2>1, <2>3, <2>4, <3>2, <1>a, <1>b DEF IInv, Handover
    <3> QED BY <3>1, <3>2
  <2>6. QED
    BY <2>1, <2>2, <2>3, <2>4, <2>5, <1>a, <1>b DEF IInv, Handover
<1>6. QED
  BY <1>1, <1>2, <1>3, <1>4, <1>5 DEF IInv

LEMMA AwaitOutputKeeps ==
    ASSUME IInv, InCallFrame, AwaitOutput
    PROVE  IInv'
BY WaitingKeeps DEF AwaitOutput, InCallFrame, caller, turns, locks, hwaccels, shared

LEMMA TakeResultKeeps ==
    ASSUME IInv, InCallFrame, TakeResult
    PROVE  IInv'
<1> USE SomeThreads DEF caller, turns, shared, Threads, User, Nobody
<1>1. TypeOK'
  BY DEF IInv, TypeOK, States, InCallFrame, TakeResult, Go
<1>2. Turns'
  BY DEF IInv, TypeOK, States, Stages, Turns, AtWork, Receiving, AllParked, InCallFrame,
      TakeResult, Go
<1>3. QED
  BY <1>1, <1>2, StagesStay, LocksStay, HandoverStays DEF IInv, InCallFrame, TakeResult,
      Outside, Go, hwaccels

LEMMA ParkKeeps ==
    ASSUME IInv, InCallFrame, Park
    PROVE  IInv'
<1> USE SomeThreads DEF caller, turns, shared, Threads, User, Nobody
<1>1. TypeOK'
  BY DEF IInv, TypeOK, States, InCallFrame, Park, Go, With
<1>2. Turns'
  BY DEF IInv, TypeOK, States, Stages, Turns, AtWork, Receiving, AllParked, InCallFrame, Park,
      Go, With
<1>3. QED
  BY <1>1, <1>2, StagesStay, LocksStay, HandoverStays DEF IInv, InCallFrame, Park, Outside, Go,
      With, hwaccels

LEMMA AwaitAsyncKeeps ==
    ASSUME IInv, InCallFrame, AwaitAsync
    PROVE  IInv'
BY WaitingKeeps DEF AwaitAsync, InCallFrame, caller, turns, locks, hwaccels, shared

LEMMA SendReturnsKeeps ==
    ASSUME IInv, InCallFrame, SendReturns
    PROVE  IInv'
<1> USE SomeThreads DEF caller, turns, shared, Threads, User, Nobody
<1>0. OneThread' = OneThread /\ InCallOnly' = InCallOnly
  BY CodecFixed DEF InCallFrame
<1>1. TypeOK'
  BY DEF IInv, TypeOK, States, InCallFrame, SendReturns, Relock, Go
<1>2. Turns'
  BY DEF IInv, TypeOK, States, Stages, Turns, AtWork, Receiving, AllParked, InCallFrame,
      SendReturns, Relock, Go
<1>3. Locks'
  BY <1>0 DEF IInv, TypeOK, States, Locks, Stages, Turns, AllParked, Outside, NeedsAsync,
      hwaccel_serial, InCallFrame, SendReturns, Relock, Go
<1>4. QED
  BY <1>1, <1>2, <1>3, StagesStay, HandoverStays DEF IInv, InCallFrame, SendReturns, Outside,
      Relock, Go, hwaccels

LEMMA ReceiveReturnsKeeps ==
    ASSUME IInv, InCallFrame, ReceiveReturns
    PROVE  IInv'
<1> USE SomeThreads DEF caller, turns, shared, Threads, User, Nobody
<1>0. OneThread' = OneThread /\ InCallOnly' = InCallOnly
  BY CodecFixed DEF InCallFrame
<1>1. TypeOK'
  BY DEF IInv, TypeOK, States, InCallFrame, ReceiveReturns, Relock, Go
<1>2. Turns'
  BY DEF IInv, TypeOK, States, Stages, Turns, AtWork, Receiving, AllParked, InCallFrame,
      ReceiveReturns, Relock, Go
<1>3. Locks'
  BY <1>0 DEF IInv, TypeOK, States, Locks, Stages, Turns, AllParked, Outside, NeedsAsync,
      hwaccel_serial, InCallFrame, ReceiveReturns, Relock, Go
<1>4. QED
  BY <1>1, <1>2, <1>3, StagesStay, HandoverStays DEF IInv, InCallFrame, ReceiveReturns, Outside,
      Relock, Go, hwaccels

LEMMA FlushTypes ==
    ASSUME IInv, InCallFrame, Flush
    PROVE  TypeOK'
<1>1. hw' \in [Threads -> Nat]
  <2>1. 1 \in Threads /\ prev_thread \in Threads \cup {0}
    BY SomeThreads DEF IInv, TypeOK, Threads
  <2>2. hw' = hw \/ (prev_thread # 0 /\ hw' = [hw EXCEPT ![1] = hw[prev_thread]])
    BY DEF Flush, UpdatedHw
  <2>3. QED
    BY <2>1, <2>2 DEF IInv, TypeOK
<1>2. /\ next_decoding' = 1 /\ next_finished' = 1 /\ prev_thread' = 0
      /\ at' = "out" /\ async_lock' = User
      /\ UNCHANGED <<call, u, state, stash_hwaccel>>
  BY DEF Flush, Relock, Go
<1>3. 1 \in Threads
  BY SomeThreads DEF Threads
<1>4. QED
  BY <1>1, <1>2, <1>3 DEF InCallFrame, IInv, TypeOK

LEMMA FlushKeeps ==
    ASSUME IInv, InCallFrame, Flush
    PROVE  IInv'
<1> USE SomeThreads DEF caller, turns, shared, Threads, User, Nobody
<1>0. OneThread' = OneThread /\ InCallOnly' = InCallOnly
  BY CodecFixed DEF InCallFrame
<1>1. TypeOK'
  BY FlushTypes
<1>2. Stages'
  BY DEF IInv, TypeOK, States, Stages, InCallFrame, Flush, Relock, Go, UpdatedHw
<1>3. Turns'
  BY DEF IInv, TypeOK, States, Stages, Turns, AtWork, Receiving, AllParked, InCallFrame, Flush,
      Relock, Go, UpdatedHw
<1>4. Locks'
  BY <1>0 DEF IInv, TypeOK, States, Locks, Stages, Turns, AllParked, Outside, NeedsAsync,
      hwaccel_serial, InCallFrame, Flush, Relock, Go, UpdatedHw
<1>5. Handover'
  BY <1>0 DEF IInv, TypeOK, States, Stages, Turns, Locks, Handover, hwaccel_serial, InCallFrame,
      Flush, Relock, Go, UpdatedHw
<1>6. QED
  BY <1>1, <1>2, <1>3, <1>4, <1>5 DEF IInv

LEMMA FreeKeeps ==
    ASSUME IInv, InCallFrame, Free
    PROVE  IInv'
<1> USE SomeThreads DEF caller, turns, shared, Threads, User, Nobody
<1>0. OneThread' = OneThread /\ InCallOnly' = InCallOnly
  BY CodecFixed DEF InCallFrame
<1>1. TypeOK'
  BY DEF IInv, TypeOK, States, InCallFrame, Free, Relock, With
<1>2. Turns'
  BY DEF IInv, TypeOK, States, Stages, Turns, AtWork, Receiving, AllParked, InCallFrame, Free,
      Relock, With
<1>3. Locks'
  BY <1>0 DEF IInv, TypeOK, States, Locks, Stages, Turns, AllParked, Outside, NeedsAsync,
      hwaccel_serial, InCallFrame, Free, Relock, With
<1>4. QED
  BY <1>1, <1>2, <1>3, StagesStay, HandoverStays DEF IInv, InCallFrame, Free, Outside, Relock,
      With, hwaccels

LEMMA DieKeeps ==
    ASSUME IInv, InCallFrame, Die
    PROVE  IInv'
<1> USE SomeThreads DEF caller, turns, shared, Threads, User, Nobody
<1>1. TypeOK'
  BY DEF IInv, TypeOK, States, InCallFrame, Die, Go
<1>2. Turns'
  BY DEF IInv, TypeOK, States, Stages, Turns, AtWork, Receiving, AllParked, InCallFrame, Die, Go
<1>3. QED
  BY <1>1, <1>2, StagesStay, LocksStay, HandoverStays DEF IInv, InCallFrame, Die, Outside, Go,
      hwaccels

LEMMA JoinKeeps ==
    ASSUME IInv, InCallFrame, Join
    PROVE  IInv'
<1> USE SomeThreads DEF caller, turns, shared, Threads, User, Nobody
<1>1. TypeOK'
  BY DEF IInv, TypeOK, States, InCallFrame, Join, Go, With
<1>2. Turns'
  BY DEF IInv, TypeOK, States, Stages, Turns, AtWork, Receiving, AllParked, InCallFrame, Join,
      Go, With
<1>3. QED
  BY <1>1, <1>2, StagesStay, LocksStay, HandoverStays DEF IInv, InCallFrame, Join, Outside, Go,
      With, hwaccels

--------------------------------------------------------------------------------
LEMMA InitHolds ==
    ASSUME Init
    PROVE  IInv
<1> USE FrameThreadsAssumption DEF Init, Threads, User, Nobody
<1>1. PICK input \in Inputs : codec = input.codec
  OBVIOUS
<1>2. TypeOK
  BY <1>1 DEF TypeOK, States
<1>3. Stages /\ Turns
  BY DEF Stages, Turns, Receiving, AllParked
<1>4. Locks /\ Handover
  BY DEF Locks, Handover, Outside
<1>5. QED
  BY <1>2, <1>3, <1>4 DEF IInv

LEMMA NextKeeps ==
    ASSUME IInv, Next
    PROVE  IInv'
<1>1. CASE \E p \in Threads : frame_worker_thread(p)
  <2>1. PICK p \in Threads : frame_worker_thread(p)
    BY <1>1
  <2>2. CASE ShortFrame /\ (SetupFails(p) \/ NextFrameFails(p))
    BY <2>2, SetupFailsKeeps, PictureDoneKeeps DEF NextFrameFails
  <2>3. CASE WorkerFrame /\ WorkerStep(p)
    BY <2>3, WorkerInputKeeps, WorkerSetupKeeps, FinishSerializeKeeps,
       FinishAwaitsAsyncKeeps, FinishSetupKeeps, AwaitProgressKeeps, PictureDoneKeeps,
       WorkerWipeKeeps, WorkerReleaseKeeps, WorkerReadyKeeps
       DEF WorkerStep, ReportProgress
  <2>4. QED
    BY <2>1, <2>2, <2>3 DEF frame_worker_thread, WorkerStep, WorkerFrame, ShortFrame
<1>2. CASE Calls
  <2>1. CallFrame
    BY <1>2 DEF Calls, CallFrame
  <2>2. QED
    BY <1>2, <2>1, avcodec_send_packetKeeps, avcodec_send_endKeeps,
       avcodec_receive_frameKeeps, ParkAllKeeps
       DEF Calls
<1>3. CASE InCall
  <2>1. InCallFrame
    BY <1>3 DEF InCall, InCallFrame
  <2>2. QED
    BY <1>3, <2>1, FinishKeeps, WaitAtOnceKeeps, GetPacketKeeps, SubmitPacketKeeps,
       SubmitAwaitsSetupKeeps, CopyFailsKeeps, SubmitKeeps, AwaitOutputKeeps, TakeResultKeeps,
       ParkKeeps, AwaitAsyncKeeps, SendReturnsKeeps, ReceiveReturnsKeeps, FlushKeeps,
       FreeKeeps, DieKeeps, JoinKeeps
       DEF InCall
<1>4. QED
  BY <1>1, <1>2, <1>3 DEF Next

LEMMA IInvHolds == Spec => []IInv
<1>1. Init => IInv
  BY InitHolds
<1>2. IInv /\ [Next]_vars => IInv'
  <2>1. ASSUME IInv, UNCHANGED vars
        PROVE  IInv'
    BY <2>1, WaitingKeeps DEF vars
  <2>2. QED
    BY <2>1, NextKeeps
<1>3. QED
  BY <1>1, <1>2, PTL DEF Spec

\* Types hold: no worker and no call is ever in a place or a state that the code
\* (frame_worker_thread(), ff_thread_receive_frame()) does not know.
THEOREM TypeCorrect == Spec => []TypeOK
<1>1. IInv => TypeOK
  BY DEF IInv
<1>2. QED
  BY <1>1, IInvHolds, PTL

LEMMA HwaccelFromIInv ==
    ASSUME IInv
    PROVE  HwaccelIsExclusive
<1> USE SomeThreads
<1>1. ASSUME InCallOnly, Outside, NEW p \in Threads, InHwaccel(p)
      PROVE  FALSE
  BY <1>1 DEF IInv, Locks, NeedsAsync, InHwaccel, Threads, User
<1>2. ASSUME OneThread, NEW p \in Threads, NEW q \in Threads, InHwaccel(p), InHwaccel(q)
      PROVE  p = q
  BY <1>2 DEF IInv, Locks, hwaccel_serial, InHwaccel
<1>3. ASSUME OneThread
      PROVE  /\ {hw[p] : p \in Threads} \cup {stash_hwaccel} \subseteq {0, made}
             /\ made <= nomem + 1
             /\ \A p \in Threads : pc[p] = "ready" => hw[p] = 0
  BY <1>3 DEF IInv, Handover
<1>3a. ASSUME OneThread, made > nomem
       PROVE  stash_hwaccel = made \/ \E p \in Threads : hw[p] = made
  <2>1. made \in Nat /\ nomem \in Nat
    BY DEF IInv, TypeOK
  <2>2. ~(made <= nomem)
    BY <1>3a, <2>1
  <2> QED BY <1>3a, <2>2 DEF IInv, Handover
<1>4. ASSUME OneThread, CanCopy
      PROVE  hw[u] = 0
  <2>1. at = "copy" /\ u = next_decoding /\ u \in Threads /\ pc[u] = "input"
    BY <1>4 DEF CanCopy, IInv, Turns, TypeOK
  <2>2. ~AtWork(u)
    BY <2>1 DEF IInv, TypeOK, AtWork, Threads
  <2>3. state[u] = "INPUT_READY"
    BY <2>1, <2>2 DEF IInv, Turns
  <2>4. QED
    BY <1>4, <2>1, <2>3 DEF IInv, Handover
<1>5. ASSUME OneThread, NEW p \in Threads, InFinish(p)
      PROVE  stash_hwaccel = 0
  BY <1>5 DEF InFinish, IInv, Stages, Handover
<1>6. QED
  BY <1>1, <1>2, <1>3, <1>3a, <1>4, <1>5 DEF HwaccelIsExclusive

\* For any number of threads and any codec: a hwaccel that is not async-safe is never
\* used while the user is outside the decoder; one that is not thread-safe is used by
\* one thread at a time and goes to a thread that has none; there are never two, and no
\* more were lost and made again than workers have run out of memory (submit_packet(),
\* update_context_from_thread(), ff_thread_finish_setup(), frame_worker_thread()).
THEOREM HwaccelStaysExclusive == Spec => []HwaccelIsExclusive
<1>1. IInv => HwaccelIsExclusive
  BY HwaccelFromIInv
<1>2. QED
  BY <1>1, IInvHolds, PTL

--------------------------------------------------------------------------------
(* What one thread returns. *)

FrameRecords == Nat \X Nat \X Nat
Contexts == [seen : Nat, delayed : Seq(FrameRecords)]

\* What the threads have to do: the packets since the last flush, by which codec.
Job == [codec |-> codec, stream |-> stream, start |-> history.start, fed |-> history.fed]

IsJob(j) ==
    /\ j.codec.update \in BOOLEAN /\ j.codec.delay \in Nat
    /\ j.codec.delay > 0 => j.codec.update
    /\ j.stream \in Seq({"ok", "two", "bad", "torn"})
    /\ j.start \in Contexts /\ j.start.delayed = <<>>
    /\ j.fed \in Seq(DOMAIN j.stream)

\* After the first o of these submissions, those after the last packet being empty:
\* the context, all that is returned, and the result of the last of them.
DoneBy(j, o) == OneByOne(j.codec, j.stream, j.start, SubSeq(j.fed, 1, o))

ContextAt(j, o) ==
    IF o <= Len(j.fed) THEN DoneBy(j, o).ctx
    ELSE [DoneBy(j, Len(j.fed)).ctx EXCEPT !.delayed = <<>>]

OutAt(j, o) ==
    IF o <= Len(j.fed) THEN DoneBy(j, o).out
    ELSE DoneBy(j, Len(j.fed)).out \o DoneBy(j, Len(j.fed)).ctx.delayed

ResultAt(j, o) ==
    IF o <= Len(j.fed) THEN Decode(j.codec, j.stream, ContextAt(j, o - 1), j.fed[o])
    ELSE Drain(ContextAt(j, o - 1))

\* A context is as good as another for submission o.
Like(j, c, d, o) ==
    /\ c.delayed = d.delayed
    /\ j.codec.update /\ (o <= Len(j.fed) \/ j.codec.delay > 0) => c.seen = d.seen

\* A thread that has submission o before it, and behind it.
ToDecode(j, t, o) ==
    /\ IF o <= Len(j.fed) THEN ~t.draining /\ t.avpkt = j.fed[o] ELSE t.draining
    /\ t.df = <<>> /\ t.result = 0
    /\ Like(j, t.ctx, ContextAt(j, o - 1), o)

HasDecoded(j, t, o) == t.df = ResultAt(j, o).df /\ t.result = ResultAt(j, o).result

--------------------------------------------------------------------------------
(* OneByOne() step by step. *)

Chain(f, c, s, start, packets, m) ==
    f = [i \in 0 .. m |-> IF i = 0 THEN [ctx |-> start, out |-> <<>>]
                          ELSE DecodeNext(c, s, f[i - 1], packets[i])]

LEMMA ChainExists ==
    ASSUME NEW c, NEW s, NEW start, NEW packets, NEW m \in Nat
    PROVE  \E f : Chain(f, c, s, start, packets, m)
<1> DEFINE S == {n \in Nat : \E f : Chain(f, c, s, start, packets, n)}
<1>1. 0 \in S
  <2> DEFINE f == [i \in 0 .. 0 |-> [ctx |-> start, out |-> <<>>]]
  <2>1. Chain(f, c, s, start, packets, 0)
    BY DEF Chain
  <2> QED BY <2>1
<1>2. ASSUME NEW n \in S
      PROVE  n + 1 \in S
  <2>1. PICK f : Chain(f, c, s, start, packets, n)
    OBVIOUS
  <2> DEFINE g == [i \in 0 .. n + 1 |-> IF i <= n THEN f[i] ELSE DecodeNext(c, s, f[n], packets[n + 1])]
  <2>2. \A i \in 0 .. n : f[i] = IF i = 0 THEN [ctx |-> start, out |-> <<>>]
                                 ELSE DecodeNext(c, s, f[i - 1], packets[i])
    BY <2>1 DEF Chain
  <2>3. \A i \in 0 .. n : g[i] = f[i]
    OBVIOUS
  <2>4. \A i \in 0 .. n + 1 : g[i] = IF i = 0 THEN [ctx |-> start, out |-> <<>>]
                                     ELSE DecodeNext(c, s, g[i - 1], packets[i])
    <3> TAKE i \in 0 .. n + 1
    <3>1. CASE i <= n
      <4>1. i \in 0 .. n /\ (i # 0 => i - 1 \in 0 .. n)
        BY <3>1
      <4> QED BY <4>1, <2>2, <2>3
    <3>2. CASE i = n + 1
      <4>1. g[i] = DecodeNext(c, s, f[n], packets[i]) /\ i # 0 /\ i - 1 = n /\ n \in 0 .. n
        BY <3>2
      <4> QED BY <4>1, <2>3
    <3> QED BY <3>1, <3>2
  <2>5. g = [i \in 0 .. n + 1 |-> g[i]]
    OBVIOUS
  <2> HIDE DEF g
  <2>6. Chain(g, c, s, start, packets, n + 1)
    BY <2>4, <2>5 DEF Chain
  <2> QED BY <2>6
<1> HIDE DEF S
<1>3. S = Nat
  BY <1>1, <1>2, NatInduct DEF S
<1> QED BY <1>3 DEF S

LEMMA OneByOneIs ==
    ASSUME NEW c, NEW s, NEW start, NEW packets, Len(packets) \in Nat
    PROVE  \E f : Chain(f, c, s, start, packets, Len(packets)) /\ OneByOne(c, s, start, packets) = f[Len(packets)]
<1>1. \E f : Chain(f, c, s, start, packets, Len(packets))
  BY ChainExists
<1> QED BY <1>1 DEF Chain, OneByOne

\* Two chains over packets that agree agree.
LEMMA ChainsAgree ==
    ASSUME NEW c, NEW s, NEW start, NEW packets, NEW others, NEW m \in Nat, NEW l \in Nat, m <= l,
           \A i \in 1 .. m : packets[i] = others[i],
           NEW f, NEW g, Chain(f, c, s, start, packets, m), Chain(g, c, s, start, others, l)
    PROVE  f[m] = g[m]
<1> DEFINE S == {n \in Nat : n <= m => f[n] = g[n]}
<1>1. /\ \A i \in 0 .. m : f[i] = IF i = 0 THEN [ctx |-> start, out |-> <<>>]
                                  ELSE DecodeNext(c, s, f[i - 1], packets[i])
      /\ \A i \in 0 .. l : g[i] = IF i = 0 THEN [ctx |-> start, out |-> <<>>]
                                  ELSE DecodeNext(c, s, g[i - 1], others[i])
  BY DEF Chain
<1>2. 0 \in S
  BY <1>1
<1>3. ASSUME NEW n \in S
      PROVE  n + 1 \in S
  <2>1. SUFFICES ASSUME n + 1 <= m
                 PROVE  f[n + 1] = g[n + 1]
    OBVIOUS
  <2>2. f[n] = g[n]
    BY <2>1
  <2>3. n + 1 \in 0 .. m /\ n + 1 \in 0 .. l /\ n + 1 \in 1 .. m /\ (n + 1) - 1 = n /\ n + 1 # 0
    BY <2>1
  <2>4. packets[n + 1] = others[n + 1]
    BY <2>3
  <2>5. f[n + 1] = DecodeNext(c, s, f[n], packets[n + 1])
    BY <2>3, <1>1
  <2>6. g[n + 1] = DecodeNext(c, s, g[n], others[n + 1])
    BY <2>3, <1>1
  <2> QED BY <2>2, <2>4, <2>5, <2>6
<1> HIDE DEF S
<1>4. S = Nat
  BY <1>2, <1>3, NatInduct DEF S
<1> QED BY <1>4 DEF S

LEMMA OneByOneNothing ==
    ASSUME NEW c, NEW s, NEW start, NEW packets, Len(packets) = 0
    PROVE  OneByOne(c, s, start, packets) = [ctx |-> start, out |-> <<>>]
<1>1. PICK f : Chain(f, c, s, start, packets, Len(packets))
               /\ OneByOne(c, s, start, packets) = f[Len(packets)]
  BY OneByOneIs
<1> QED BY <1>1 DEF Chain

LEMMA OneByOneNext ==
    ASSUME NEW c, NEW s, NEW start, NEW packets, NEW others, NEW m \in Nat,
           Len(packets) = m, Len(others) = m + 1, \A i \in 1 .. m : packets[i] = others[i]
    PROVE  OneByOne(c, s, start, others)
               = DecodeNext(c, s, OneByOne(c, s, start, packets), others[m + 1])
<1>1. PICK f : Chain(f, c, s, start, packets, m) /\ OneByOne(c, s, start, packets) = f[m]
  BY OneByOneIs
<1>2. PICK g : Chain(g, c, s, start, others, m + 1) /\ OneByOne(c, s, start, others) = g[m + 1]
  BY OneByOneIs
<1>3. f[m] = g[m]
  BY <1>1, <1>2, ChainsAgree
<1>4. g[m + 1] = DecodeNext(c, s, g[m], others[m + 1])
  <2>1. m + 1 \in 0 .. m + 1 /\ m + 1 # 0 /\ (m + 1) - 1 = m
    OBVIOUS
  <2> QED BY <1>2, <2>1 DEF Chain
<1> QED BY <1>1, <1>2, <1>3, <1>4

--------------------------------------------------------------------------------
(* What a codec does. *)

Results == [ctx : Contexts, df : Seq(FrameRecords), result : Int]

LEMMA DoneTyped ==
    ASSUME NEW S, NEW T, NEW a \in S, NEW b \in T
    PROVE  [ctx |-> a, out |-> b] \in [ctx : S, out : T]
OBVIOUS

LEMMA JoinTyped ==
    ASSUME NEW S, NEW a \in Seq(S), NEW b \in Seq(S)
    PROVE  a \o b \in Seq(S) /\ Len(a \o b) = Len(a) + Len(b)
OBVIOUS

LEMMA CutTyped ==
    ASSUME NEW S, NEW a \in Seq(S), NEW k \in 0 .. Len(a)
    PROVE  SubSeq(a, 1, k) \in Seq(S) /\ SubSeq(a, k + 1, Len(a)) \in Seq(S)
OBVIOUS

LEMMA FramesTyped ==
    ASSUME NEW c, NEW s, NEW n \in Nat, NEW seen \in Nat
    PROVE  FramesOf(c, s, n, seen) \in Seq(FrameRecords)
<1> DEFINE l == IF s[n] = "two" THEN 2 ELSE 1
<1>1. \A i \in 1 .. l : Frame(c, n, i, seen) \in FrameRecords
  BY DEF Frame, FrameRecords
<1>2. FramesOf(c, s, n, seen) = [i \in 1 .. l |-> Frame(c, n, i, seen)]
  BY DEF FramesOf
<1>3. l \in Nat
  OBVIOUS
<1> HIDE DEF l
<1> QED BY <1>1, <1>2, <1>3

LEMMA ErrorTyped ==
    ASSUME NEW r \in Int
    PROVE  Error(r) \in Seq(FrameRecords)
<1>1. CASE r > 0
  <2>1. <<r, 0, 0>> \in FrameRecords
    BY <1>1 DEF FrameRecords
  <2>2. Error(r) = <<<<r, 0, 0>>>>
    BY <1>1 DEF Error
  <2> HIDE DEF FrameRecords
  <2>3. \A f \in FrameRecords : <<f>> \in Seq(FrameRecords)
    OBVIOUS
  <2> QED BY <2>1, <2>2, <2>3
<1>2. CASE ~(r > 0)
  BY <1>2 DEF Error
<1> QED BY <1>1, <1>2

LEMMA DecodeTyped ==
    ASSUME NEW j, IsJob(j), NEW ctx \in Contexts, NEW n \in DOMAIN j.stream
    PROVE  /\ Decode(j.codec, j.stream, ctx, n) \in Results
           /\ Decode(j.codec, j.stream, ctx, n).result \in {0, n} /\ n \in Nat \ {0}
           /\ j.codec.delay = 0 /\ ctx.delayed = <<>> =>
                 Decode(j.codec, j.stream, ctx, n).ctx.delayed = <<>>
<1> DEFINE s == j.stream
           c == j.codec
           all == ctx.delayed \o FramesOf(c, s, n, ctx.seen)
           k == IF Len(all) > c.delay THEN Len(all) - c.delay ELSE 0
<1>1. n \in Nat \ {0}
  BY DEF IsJob
<1>2. ctx.seen \in Nat /\ ctx.delayed \in Seq(FrameRecords) /\ c.delay \in Nat
  BY DEF Contexts, IsJob
<1>3. all \in Seq(FrameRecords)
  <2>1. FramesOf(c, s, n, ctx.seen) \in Seq(FrameRecords)
    BY <1>1, <1>2, FramesTyped
  <2> QED BY <2>1, <1>2, JoinTyped
<1>4. k \in 0 .. Len(all)
  <2> HIDE DEF all
  <2>1. Len(all) \in Nat
    BY <1>3
  <2> QED BY <2>1, <1>2
<1>5. SubSeq(all, 1, k) \in Seq(FrameRecords) /\ SubSeq(all, k + 1, Len(all)) \in Seq(FrameRecords)
  <2> HIDE DEF all, k
  <2> QED BY <1>3, <1>4, CutTyped
<1>6. c.delay = 0 => SubSeq(all, k + 1, Len(all)) = <<>>
  <2>1. c.delay = 0 => k = Len(all)
    <3> HIDE DEF all
    <3>1. Len(all) \in Nat
      BY <1>3
    <3> QED BY <3>1
  <2> HIDE DEF all, k
  <2>2. SubSeq(all, Len(all) + 1, Len(all)) = <<>>
    BY <1>3
  <2> QED BY <2>1, <2>2
<1>7. CASE s[n] = "bad"
  <2>1. Decode(c, s, ctx, n) = [ctx |-> ctx, df |-> <<>>, result |-> n]
    BY <1>7 DEF Decode
  <2> HIDE DEF c, s
  <2>2. Decode(c, s, ctx, n) \in Results
    BY <2>1, <1>1 DEF Results
  <2> QED BY <1>1, <2>1, <2>2 DEF c, s
<1>8. CASE s[n] # "bad"
  <2>1. Decode(c, s, ctx, n) = [ctx |-> [seen |-> n, delayed |-> SubSeq(all, k + 1, Len(all))],
                                df |-> SubSeq(all, 1, k),
                                result |-> IF s[n] = "torn" THEN n ELSE 0]
    BY <1>8 DEF Decode
  <2> HIDE DEF all, k, c, s
  <2>2. [seen |-> n, delayed |-> SubSeq(all, k + 1, Len(all))] \in Contexts
    BY <1>1, <1>5 DEF Contexts
  <2>3. Decode(c, s, ctx, n) \in Results
    BY <1>1, <1>5, <2>1, <2>2 DEF Results
  <2>4. Decode(c, s, ctx, n).result \in {0, n}
    BY <2>1
  <2>5. Decode(c, s, ctx, n).ctx.delayed = SubSeq(all, k + 1, Len(all))
    BY <2>1
  <2> QED BY <1>1, <1>6, <2>3, <2>4, <2>5 DEF c, s
<1> QED BY <1>7, <1>8

\* From contexts that are alike a codec makes the same.
LEMMA DecodeAlike ==
    ASSUME NEW j, IsJob(j), NEW a \in Contexts, NEW b \in Contexts, NEW n,
           a.delayed = b.delayed, j.codec.update => a.seen = b.seen
    PROVE  LET d == Decode(j.codec, j.stream, a, n)
               e == Decode(j.codec, j.stream, b, n)
           IN  /\ d.df = e.df /\ d.result = e.result /\ d.ctx.delayed = e.ctx.delayed
               /\ j.codec.update => d.ctx.seen = e.ctx.seen
<1>1. FramesOf(j.codec, j.stream, n, a.seen) = FramesOf(j.codec, j.stream, n, b.seen)
  BY DEF FramesOf, Frame
<1>2. CASE j.stream[n] = "bad"
  BY <1>2 DEF Decode
<1>3. CASE j.stream[n] # "bad"
  BY <1>1, <1>3 DEF Decode
<1> QED BY <1>2, <1>3

--------------------------------------------------------------------------------
(* What one thread makes of a job. *)

LEMMA DoneByNothing ==
    ASSUME NEW j, IsJob(j)
    PROVE  DoneBy(j, 0) = [ctx |-> j.start, out |-> <<>>]
<1>1. Len(SubSeq(j.fed, 1, 0)) = 0
  BY DEF IsJob
<1> QED BY <1>1, OneByOneNothing DEF DoneBy

LEMMA DoneByNext ==
    ASSUME NEW j, IsJob(j), NEW o \in 1 .. Len(j.fed)
    PROVE  DoneBy(j, o) = DecodeNext(j.codec, j.stream, DoneBy(j, o - 1), j.fed[o])
<1> DEFINE p == SubSeq(j.fed, 1, o - 1)
           q == SubSeq(j.fed, 1, o)
<1>1. j.fed \in Seq(DOMAIN j.stream)
  BY DEF IsJob
<1>2. Len(p) = o - 1 /\ Len(q) = (o - 1) + 1 /\ o - 1 \in Nat /\ q[(o - 1) + 1] = j.fed[o]
      /\ \A i \in 1 .. o - 1 : p[i] = q[i]
  BY <1>1
<1> HIDE DEF p, q
<1>3. OneByOne(j.codec, j.stream, j.start, q)
        = DecodeNext(j.codec, j.stream, OneByOne(j.codec, j.stream, j.start, p), q[(o - 1) + 1])
  BY <1>2, OneByOneNext
<1> QED BY <1>2, <1>3 DEF DoneBy, p, q

LEMMA DoneByTyped ==
    ASSUME NEW j, IsJob(j)
    PROVE  \A o \in 0 .. Len(j.fed) :
              /\ DoneBy(j, o) \in [ctx : Contexts, out : Seq(FrameRecords)]
              /\ j.codec.delay = 0 => DoneBy(j, o).ctx.delayed = <<>>
<1> DEFINE R == [ctx : Contexts, out : Seq(FrameRecords)]
           S == {o \in Nat : o <= Len(j.fed) =>
                    /\ DoneBy(j, o) \in R
                    /\ j.codec.delay = 0 => DoneBy(j, o).ctx.delayed = <<>>}
<1>1. 0 \in S
  <2>1. DoneBy(j, 0) = [ctx |-> j.start, out |-> <<>>] /\ j.start \in Contexts
        /\ j.start.delayed = <<>>
    BY DoneByNothing DEF IsJob
  <2>2. <<>> \in Seq(FrameRecords)
    OBVIOUS
  <2>3. DoneBy(j, 0) \in R
    BY <2>1, <2>2, DoneTyped
  <2>4. DoneBy(j, 0).ctx = j.start
    BY <2>1
  <2> QED BY <2>1, <2>3, <2>4
<1>2. ASSUME NEW o \in S
      PROVE  o + 1 \in S
  <2> SUFFICES ASSUME o + 1 <= Len(j.fed)
               PROVE  /\ DoneBy(j, o + 1) \in R
                      /\ j.codec.delay = 0 => DoneBy(j, o + 1).ctx.delayed = <<>>
    OBVIOUS
  <2> DEFINE b == DoneBy(j, o)
             n == j.fed[o + 1]
             d == Decode(j.codec, j.stream, b.ctx, n)
  <2>1. Len(j.fed) \in Nat /\ j.fed \in Seq(DOMAIN j.stream)
    BY DEF IsJob
  <2>2. b \in R /\ (j.codec.delay = 0 => b.ctx.delayed = <<>>)
    BY <2>1
  <2>3. o + 1 \in 1 .. Len(j.fed) /\ n \in DOMAIN j.stream
    BY <2>1
  <2>4. DoneBy(j, o + 1) = DecodeNext(j.codec, j.stream, b, n)
    BY <2>3, DoneByNext
  <2>5. DoneBy(j, o + 1) = [ctx |-> d.ctx, out |-> b.out \o d.df \o Error(d.result)]
    BY <2>4 DEF DecodeNext
  <2> HIDE DEF b, n, S
  <2>6. b.ctx \in Contexts /\ b.out \in Seq(FrameRecords)
    BY <2>2
  <2>7. d \in Results /\ (j.codec.delay = 0 => d.ctx.delayed = <<>>)
    BY <2>2, <2>3, <2>6, DecodeTyped
  <2> HIDE DEF d
  <2>8. d.ctx \in Contexts /\ d.df \in Seq(FrameRecords) /\ d.result \in Int
    BY <2>7 DEF Results
  <2>9. b.out \o d.df \o Error(d.result) \in Seq(FrameRecords)
    BY <2>6, <2>8, ErrorTyped, JoinTyped
  <2>10. DoneBy(j, o + 1) \in R
    <3> DEFINE x == b.out \o d.df \o Error(d.result)
    <3>1. DoneBy(j, o + 1) = [ctx |-> d.ctx, out |-> x] /\ x \in Seq(FrameRecords)
      BY <2>5, <2>9
    <3> HIDE DEF x
    <3> QED BY <2>8, <3>1, DoneTyped
  <2>11. j.codec.delay = 0 => DoneBy(j, o + 1).ctx.delayed = <<>>
    BY <2>5, <2>7
  <2> QED BY <2>10, <2>11
<1> HIDE DEF S
<1>3. S = Nat
  BY <1>1, <1>2, NatInduct DEF S
<1>4. Len(j.fed) \in Nat
  BY DEF IsJob
<1> QED BY <1>3, <1>4 DEF S

LEMMA ContextTyped ==
    ASSUME NEW j, IsJob(j), NEW o \in Nat
    PROVE  /\ ContextAt(j, o) \in Contexts
           /\ OutAt(j, o) \in Seq(FrameRecords)
           /\ j.codec.delay = 0 => ContextAt(j, o).delayed = <<>>
<1> DEFINE l == Len(j.fed)
<1>1. l \in Nat
  BY DEF IsJob
<1>2. \A i \in 0 .. l : /\ DoneBy(j, i) \in [ctx : Contexts, out : Seq(FrameRecords)]
                        /\ j.codec.delay = 0 => DoneBy(j, i).ctx.delayed = <<>>
  BY DoneByTyped
<1>3. CASE o <= l
  BY <1>1, <1>2, <1>3 DEF ContextAt, OutAt
<1>4. CASE o > l
  <2>1. /\ ContextAt(j, o) = [DoneBy(j, l).ctx EXCEPT !.delayed = <<>>]
        /\ OutAt(j, o) = DoneBy(j, l).out \o DoneBy(j, l).ctx.delayed
    <3>1. ~(o <= l)
      BY <1>1, <1>4
    <3> QED BY <3>1 DEF ContextAt, OutAt
  <2>2. DoneBy(j, l).ctx \in Contexts /\ DoneBy(j, l).out \in Seq(FrameRecords)
    BY <1>1, <1>2
  <2> HIDE DEF l
  <2> DEFINE d == DoneBy(j, l)
  <2> HIDE DEF d
  <2>3. d.ctx.delayed \in Seq(FrameRecords)
    BY <2>2 DEF Contexts, d
  <2>4. ContextAt(j, o).delayed = <<>>
    BY <2>1, <2>2 DEF Contexts, d
  <2>5. ContextAt(j, o) \in Contexts
    <3>1. \A c \in Contexts : [c EXCEPT !.delayed = <<>>] \in Contexts
      <4>1. <<>> \in Seq(FrameRecords)
        OBVIOUS
      <4> HIDE DEF FrameRecords
      <4> QED BY <4>1 DEF Contexts
    <3> QED BY <2>1, <2>2, <3>1
  <2> QED BY <2>1, <2>2, <2>3, <2>4, <2>5, JoinTyped DEF d
<1> QED BY <1>1, <1>3, <1>4

LEMMA JobStarts ==
    ASSUME NEW j, IsJob(j)
    PROVE  ContextAt(j, 0) = j.start /\ OutAt(j, 0) = <<>>
<1>1. 0 <= Len(j.fed)
  BY DEF IsJob
<1> QED BY <1>1, DoneByNothing DEF ContextAt, OutAt

LEMMA JobContinues ==
    ASSUME NEW j, IsJob(j), NEW o \in Nat \ {0}
    PROVE  /\ ResultAt(j, o) \in Results
           /\ ContextAt(j, o) = ResultAt(j, o).ctx
           /\ OutAt(j, o) = OutAt(j, o - 1) \o ResultAt(j, o).df \o Error(ResultAt(j, o).result)
           /\ IF o <= Len(j.fed) THEN ResultAt(j, o).result \in Nat
                                 ELSE ResultAt(j, o).result = EOF
<1> DEFINE l == Len(j.fed)
           r == ResultAt(j, o)
<1>1. l \in Nat /\ j.fed \in Seq(DOMAIN j.stream) /\ o - 1 \in Nat
  BY DEF IsJob
<1>2. CASE o <= l
  <2> DEFINE b == DoneBy(j, o - 1)
  <2>1. o \in 1 .. l /\ j.fed[o] \in DOMAIN j.stream
    BY <1>1, <1>2
  <2>2. ContextAt(j, o - 1) = b.ctx /\ OutAt(j, o - 1) = b.out
    BY <1>1, <1>2 DEF ContextAt, OutAt
  <2>3. r = Decode(j.codec, j.stream, b.ctx, j.fed[o])
    BY <1>2, <2>2 DEF ResultAt
  <2>4. b.ctx \in Contexts
    BY <1>1, <2>2, ContextTyped
  <2>5. r \in Results /\ r.result \in Nat
    <3> HIDE DEF b, r
    <3>1. Decode(j.codec, j.stream, b.ctx, j.fed[o]) \in Results
          /\ Decode(j.codec, j.stream, b.ctx, j.fed[o]).result \in {0, j.fed[o]}
          /\ j.fed[o] \in Nat
      BY <2>1, <2>4, DecodeTyped
    <3> QED BY <2>3, <3>1
  <2>6. DoneBy(j, o) = DecodeNext(j.codec, j.stream, b, j.fed[o])
    BY <2>1, DoneByNext
  <2>7. DoneBy(j, o) = [ctx |-> r.ctx, out |-> b.out \o r.df \o Error(r.result)]
    BY <2>3, <2>6 DEF DecodeNext
  <2>8. ContextAt(j, o) = DoneBy(j, o).ctx /\ OutAt(j, o) = DoneBy(j, o).out
    BY <1>2 DEF ContextAt, OutAt
  <2> HIDE DEF r, b
  <2>9. ContextAt(j, o) = r.ctx
    BY <2>7, <2>8
  <2>10. OutAt(j, o) = OutAt(j, o - 1) \o r.df \o Error(r.result)
    <3> DEFINE x == b.out \o r.df \o Error(r.result)
    <3>1. DoneBy(j, o) = [ctx |-> r.ctx, out |-> x]
      BY <2>7
    <3>2. x = OutAt(j, o - 1) \o r.df \o Error(r.result)
      BY <2>2
    <3> HIDE DEF x
    <3>3. DoneBy(j, o).out = x
      BY <3>1
    <3> QED BY <2>8, <3>2, <3>3
  <2> HIDE DEF l
  <2> QED BY <1>2, <2>5, <2>9, <2>10 DEF r, l
<1>3. CASE o > l
  <2> DEFINE c == ContextAt(j, o - 1)
  <2>1. ~(o <= l)
    BY <1>1, <1>3
  <2>2. c \in Contexts /\ OutAt(j, o - 1) \in Seq(FrameRecords)
    BY <1>1, ContextTyped
  <2>3. r = Drain(c)
    BY <2>1 DEF ResultAt
  <2>4. r = [ctx |-> [c EXCEPT !.delayed = <<>>], df |-> c.delayed, result |-> EOF]
    BY <2>3 DEF Drain
  <2> HIDE DEF c
  <2>5. c.delayed \in Seq(FrameRecords)
    BY <2>2 DEF Contexts
  <2>6. [c EXCEPT !.delayed = <<>>] \in Contexts
    <3>1. <<>> \in Seq(FrameRecords)
      OBVIOUS
    <3> HIDE DEF FrameRecords
    <3> QED BY <2>2, <3>1 DEF Contexts
  <2>7. r \in Results
    BY <2>4, <2>5, <2>6 DEF Results, EOF
  <2>8. r.result = EOF /\ Error(r.result) = <<>> /\ r.df = c.delayed
        /\ r.ctx = [c EXCEPT !.delayed = <<>>]
    BY <2>4 DEF EOF, Error
  <2>9. OutAt(j, o) = OutAt(j, o - 1) \o c.delayed
    <3>1. CASE o - 1 = l
      <4>1. OutAt(j, o) = DoneBy(j, l).out \o DoneBy(j, l).ctx.delayed
        BY <2>1 DEF OutAt
      <4>2. OutAt(j, o - 1) = DoneBy(j, l).out /\ c = DoneBy(j, l).ctx
        BY <1>1, <3>1 DEF OutAt, ContextAt, c
      <4> QED BY <4>1, <4>2
    <3>2. CASE o - 1 # l
      <4>1. ~(o - 1 <= l)
        BY <1>1, <1>3, <3>2
      <4>2. OutAt(j, o) = OutAt(j, o - 1)
        BY <2>1, <4>1 DEF OutAt
      <4>3. c = [DoneBy(j, l).ctx EXCEPT !.delayed = <<>>] /\ DoneBy(j, l).ctx \in Contexts
        BY <1>1, <4>1, DoneByTyped DEF ContextAt, c
      <4>4. c.delayed = <<>>
        BY <4>3 DEF Contexts
      <4> QED BY <2>2, <4>2, <4>4
    <3> QED BY <3>1, <3>2
  <2>10. ContextAt(j, o) = [c EXCEPT !.delayed = <<>>]
    <3>1. ContextAt(j, o) = [DoneBy(j, l).ctx EXCEPT !.delayed = <<>>] /\ DoneBy(j, l).ctx \in Contexts
      BY <1>1, <2>1, DoneByTyped DEF ContextAt
    <3>2. CASE o - 1 = l
      BY <3>1, <3>2, <1>1 DEF ContextAt, c
    <3>3. CASE o - 1 # l
      <4>1. ~(o - 1 <= l)
        BY <1>1, <1>3, <3>3
      <4>2. c = [DoneBy(j, l).ctx EXCEPT !.delayed = <<>>]
        BY <4>1 DEF ContextAt, c
      <4> QED BY <3>1, <4>2 DEF Contexts
    <3> QED BY <3>2, <3>3
  <2>11. OutAt(j, o - 1) \o c.delayed \o <<>> = OutAt(j, o - 1) \o c.delayed
    BY <2>2, <2>5
  <2> QED BY <2>1, <2>7, <2>8, <2>9, <2>10, <2>11 DEF r
<1>4. o <= l \/ o > l
  BY <1>1
<1> QED BY <1>2, <1>3, <1>4

LEMMA JoinThree ==
    ASSUME NEW S, NEW a \in Seq(S), NEW b \in Seq(S), NEW c \in Seq(S)
    PROVE  (a \o b) \o c = a \o (b \o c) /\ a \o b \in Seq(S)
OBVIOUS

\* Concatenation under a name, whose facts the provers are to use and nothing else.
Joined(a, b) == a \o b

LEMMA JoinedFacts ==
    ASSUME NEW S
    PROVE  \A a, b, c \in Seq(S) : /\ Joined(Joined(a, b), c) = Joined(a, Joined(b, c))
                                   /\ Joined(a, b) \in Seq(S)
                                   /\ Joined(a, <<>>) = a /\ Joined(<<>>, a) = a
BY JoinThree DEF Joined

LEMMA JoinFour ==
    ASSUME NEW S, NEW s \in Seq(S), NEW r \in Seq(S), NEW x \in Seq(S), NEW y \in Seq(S)
    PROVE  /\ Joined(Joined(Joined(s, r), x), y) = Joined(s, Joined(r, Joined(x, y)))
           /\ Joined(r, Joined(x, y)) \in Seq(S)
<1>1. \A a, b, c \in Seq(S) : /\ Joined(Joined(a, b), c) = Joined(a, Joined(b, c))
                              /\ Joined(a, b) \in Seq(S)
  BY JoinedFacts
<1>2. Joined(s, r) \in Seq(S) /\ Joined(x, y) \in Seq(S)
  BY <1>1
<1>3. Joined(Joined(Joined(s, r), x), y) = Joined(Joined(s, r), Joined(x, y))
  BY <1>1, <1>2
<1> QED BY <1>1, <1>2, <1>3

\* What has been returned is never taken back.
LEMMA OutGrows ==
    ASSUME NEW j, IsJob(j), NEW i \in Nat, NEW k \in Nat, i <= k
    PROVE  \E rest \in Seq(FrameRecords) : OutAt(j, k) = OutAt(j, i) \o rest
<1> DEFINE S == {n \in Nat : \E rest \in Seq(FrameRecords) : OutAt(j, i + n) = OutAt(j, i) \o rest}
<1>1. 0 \in S
  <2>1. OutAt(j, i) \in Seq(FrameRecords) /\ i + 0 = i
    BY ContextTyped
  <2>2. OutAt(j, i) \o <<>> = OutAt(j, i) /\ <<>> \in Seq(FrameRecords)
    BY <2>1
  <2> QED BY <2>1, <2>2
<1>2. ASSUME NEW n \in S
      PROVE  n + 1 \in S
  <2>1. PICK rest \in Seq(FrameRecords) : OutAt(j, i + n) = OutAt(j, i) \o rest
    OBVIOUS
  <2> DEFINE o == i + n + 1
             r == ResultAt(j, o)
  <2>2. o \in Nat \ {0} /\ o - 1 = i + n /\ i + (n + 1) = o
    OBVIOUS
  <2> HIDE DEF o
  <2>3. r \in Results /\ OutAt(j, o) = OutAt(j, i + n) \o r.df \o Error(r.result)
    BY <2>2, JobContinues
  <2> HIDE DEF r
  <2>4. r.df \in Seq(FrameRecords) /\ Error(r.result) \in Seq(FrameRecords)
    BY <2>3, ErrorTyped DEF Results
  <2>5. OutAt(j, i) \in Seq(FrameRecords)
    BY ContextTyped
  <2> DEFINE x == r.df
             y == Error(r.result)
             s == OutAt(j, i)
             m == OutAt(j, i + n)
             e == OutAt(j, i + (n + 1))
  <2>6. /\ x \in Seq(FrameRecords) /\ y \in Seq(FrameRecords) /\ rest \in Seq(FrameRecords)
        /\ s \in Seq(FrameRecords)
    BY <2>3, <2>4, <2>5
  <2>7. m = Joined(s, rest) /\ e = Joined(Joined(m, x), y)
    BY <2>1, <2>2, <2>3 DEF Joined
  <2> HIDE DEF x, y, s, m, e
  <2>8. e = Joined(s, Joined(rest, Joined(x, y))) /\ Joined(rest, Joined(x, y)) \in Seq(FrameRecords)
    BY <2>6, <2>7, JoinFour
  <2>9. \E rr \in Seq(FrameRecords) : e = Joined(s, rr)
    BY <2>8
  <2>10. \E rr \in Seq(FrameRecords) : OutAt(j, i + (n + 1)) = OutAt(j, i) \o rr
    BY <2>9 DEF e, s, Joined
  <2>11. n + 1 \in Nat
    OBVIOUS
  <2> QED BY <2>10, <2>11, Zenon
<1> HIDE DEF S
<1>3. S = Nat
  BY <1>1, <1>2, NatInduct DEF S
<1>4. k - i \in S /\ i + (k - i) = k
  BY <1>3
<1> QED BY <1>4 DEF S

\* After the last packet nothing changes once it has been drained.
LEMMA OutEnds ==
    ASSUME NEW j, IsJob(j), NEW o \in Nat, o > Len(j.fed)
    PROVE  OutAt(j, o) = OutAt(j, Len(j.fed) + 1)
<1>1. Len(j.fed) \in Nat
  BY DEF IsJob
<1>2. ~(o <= Len(j.fed)) /\ ~(Len(j.fed) + 1 <= Len(j.fed))
  BY <1>1
<1> QED BY <1>2 DEF OutAt

LEMMA AppendIs ==
    ASSUME NEW S, NEW a \in Seq(S), NEW n \in S
    PROVE  /\ Append(a, n) \in Seq(S) /\ Len(Append(a, n)) = Len(a) + 1 /\ Len(a) \in Nat
           /\ Append(a, n)[Len(a) + 1] = n
           /\ \A o \in 1 .. Len(a) : Append(a, n)[o] = a[o]
OBVIOUS

\* One more packet changes nothing of what was before.
LEMMA JobLonger ==
    ASSUME NEW j, IsJob(j), NEW n \in DOMAIN j.stream, NEW k,
           k.codec = j.codec, k.stream = j.stream, k.start = j.start, k.fed = Append(j.fed, n)
    PROVE  /\ IsJob(k) /\ Len(k.fed) = Len(j.fed) + 1 /\ k.fed[Len(k.fed)] = n
           /\ \A o \in 0 .. Len(j.fed) : /\ ContextAt(k, o) = ContextAt(j, o)
                                         /\ OutAt(k, o) = OutAt(j, o)
           /\ \A o \in 1 .. Len(j.fed) : k.fed[o] = j.fed[o] /\ ResultAt(k, o) = ResultAt(j, o)
<1>1. j.fed \in Seq(DOMAIN j.stream) /\ Len(j.fed) \in Nat
  BY DEF IsJob
<1>2. /\ k.fed \in Seq(DOMAIN j.stream) /\ Len(k.fed) = Len(j.fed) + 1
      /\ k.fed[Len(k.fed)] = n
      /\ \A o \in 1 .. Len(j.fed) : k.fed[o] = j.fed[o]
  <2> DEFINE f == j.fed
  <2>1. f \in Seq(DOMAIN j.stream) /\ k.fed = Append(f, n)
    BY <1>1
  <2> HIDE DEF f
  <2>2. /\ Append(f, n) \in Seq(DOMAIN j.stream) /\ Len(Append(f, n)) = Len(f) + 1
        /\ Append(f, n)[Len(f) + 1] = n
        /\ \A o \in 1 .. Len(f) : Append(f, n)[o] = f[o]
    BY <2>1, AppendIs
  <2>3. /\ k.fed \in Seq(DOMAIN j.stream) /\ Len(k.fed) = Len(f) + 1
        /\ k.fed[Len(f) + 1] = n
        /\ \A o \in 1 .. Len(f) : k.fed[o] = f[o]
    BY <2>1, <2>2
  <2> QED BY <2>3 DEF f
<1>3. IsJob(k)
  BY <1>2 DEF IsJob
<1>4. \A o \in 0 .. Len(j.fed) : SubSeq(k.fed, 1, o) = SubSeq(j.fed, 1, o)
  BY <1>1, <1>2
<1>5. \A o \in 0 .. Len(j.fed) : DoneBy(k, o) = DoneBy(j, o)
  BY <1>4 DEF DoneBy
<1>6. \A o \in 0 .. Len(j.fed) : o <= Len(k.fed) /\ o <= Len(j.fed)
  BY <1>1, <1>2
<1>7. \A o \in 0 .. Len(j.fed) : ContextAt(k, o) = ContextAt(j, o) /\ OutAt(k, o) = OutAt(j, o)
  BY <1>5, <1>6 DEF ContextAt, OutAt
<1>8. ASSUME NEW o \in 1 .. Len(j.fed)
      PROVE  ResultAt(k, o) = ResultAt(j, o)
  <2>1. o - 1 \in 0 .. Len(j.fed) /\ o \in 0 .. Len(j.fed)
    BY <1>1
  <2> QED BY <1>2, <1>6, <1>7, <2>1 DEF ResultAt
<1> QED BY <1>2, <1>3, <1>7, <1>8

\* A thread that decodes what is before it has what one thread would have.
DecodedBy(c, s, t) == IF t.draining THEN Drain(t.ctx) ELSE Decode(c, s, t.ctx, t.avpkt)

AsOneThread(j, t, o, d) ==
    /\ d \in Results /\ d.df = ResultAt(j, o).df /\ d.result = ResultAt(j, o).result
    /\ Like(j, d.ctx, ContextAt(j, o), o)
    /\ j.codec.delay = 0 /\ t.ctx.delayed = <<>> => d.ctx.delayed = <<>>

LEMMA JobDecodes ==
    ASSUME NEW j, IsJob(j), NEW o \in Nat \ {0}, NEW t, t.ctx \in Contexts, ToDecode(j, t, o),
           NEW d, d = DecodedBy(j.codec, j.stream, t)
    PROVE  AsOneThread(j, t, o, d)
<1> USE DEF DecodedBy, AsOneThread
<1> DEFINE b == ContextAt(j, o - 1)
           r == ResultAt(j, o)
<1>1. o - 1 \in Nat /\ Len(j.fed) \in Nat /\ j.fed \in Seq(DOMAIN j.stream) /\ j.codec.update \in BOOLEAN
  BY DEF IsJob
<1>2. b \in Contexts /\ Like(j, t.ctx, b, o) /\ ContextAt(j, o) = r.ctx /\ r \in Results
  BY <1>1, ContextTyped, JobContinues DEF ToDecode
<1>3. CASE o <= Len(j.fed)
  <2>1. ~t.draining /\ t.avpkt = j.fed[o] /\ j.fed[o] \in DOMAIN j.stream
    BY <1>1, <1>3 DEF ToDecode
  <2>2. t.ctx.delayed = b.delayed /\ (j.codec.update => t.ctx.seen = b.seen)
    BY <1>2, <1>3 DEF Like
  <2>3. d = Decode(j.codec, j.stream, t.ctx, j.fed[o]) /\ r = Decode(j.codec, j.stream, b, j.fed[o])
    BY <1>3, <2>1 DEF ResultAt
  <2> HIDE DEF b, r
  <2>4. /\ d.df = r.df /\ d.result = r.result /\ d.ctx.delayed = r.ctx.delayed
        /\ j.codec.update => d.ctx.seen = r.ctx.seen
    BY <1>2, <2>2, <2>3, DecodeAlike
  <2>5. d \in Results /\ (j.codec.delay = 0 /\ t.ctx.delayed = <<>> => d.ctx.delayed = <<>>)
    BY <2>1, <2>3, DecodeTyped
  <2>6. Like(j, d.ctx, r.ctx, o)
    BY <2>4 DEF Like
  <2> QED BY <1>2, <2>4, <2>5, <2>6 DEF r
<1>4. CASE o > Len(j.fed)
  <2>1. ~(o <= Len(j.fed))
    BY <1>1, <1>4
  <2>2. t.draining /\ r = Drain(b) /\ d = Drain(t.ctx)
    BY <2>1 DEF ToDecode, ResultAt
  <2>3. t.ctx.delayed = b.delayed /\ (j.codec.update /\ j.codec.delay > 0 => t.ctx.seen = b.seen)
    BY <1>2 DEF Like
  <2> HIDE DEF b, r
  <2>4. d.df = r.df /\ d.result = r.result
    BY <2>2, <2>3 DEF Drain
  <2>5. \A c \in Contexts : /\ [c EXCEPT !.delayed = <<>>] \in Contexts
                            /\ [c EXCEPT !.delayed = <<>>].delayed = <<>>
                            /\ [c EXCEPT !.delayed = <<>>].seen = c.seen
    <3>1. <<>> \in Seq(FrameRecords)
      OBVIOUS
    <3> HIDE DEF FrameRecords
    <3> QED BY <3>1 DEF Contexts
  <2>6. d.ctx = [t.ctx EXCEPT !.delayed = <<>>] /\ r.ctx = [b EXCEPT !.delayed = <<>>]
        /\ d.df = t.ctx.delayed /\ d.result = EOF
        /\ d = [ctx |-> d.ctx, df |-> d.df, result |-> d.result]
    BY <2>2 DEF Drain
  <2>7. d.ctx.delayed = <<>> /\ r.ctx.delayed = <<>> /\ d.ctx.seen = t.ctx.seen /\ r.ctx.seen = b.seen
        /\ d.ctx \in Contexts
    <3> DEFINE x == t.ctx
               y == d.ctx
               z == r.ctx
    <3>1. x \in Contexts /\ b \in Contexts
      BY <1>2
    <3>2. y = [x EXCEPT !.delayed = <<>>] /\ z = [b EXCEPT !.delayed = <<>>]
      BY <2>6
    <3> HIDE DEF x, y, z
    <3>3. y.delayed = <<>> /\ z.delayed = <<>> /\ y.seen = x.seen /\ z.seen = b.seen /\ y \in Contexts
      BY <3>1, <3>2, <2>5
    <3> QED BY <3>3 DEF x, y, z
  <2>8. d.df \in Seq(FrameRecords)
    BY <2>6 DEF Contexts
  <2>9. d \in Results
    BY <2>6, <2>7, <2>8 DEF Results, EOF
  <2>10. Like(j, d.ctx, r.ctx, o)
    BY <2>1, <2>3, <2>7 DEF Like
  <2> QED BY <1>2, <2>4, <2>7, <2>9, <2>10 DEF r
<1> QED BY <1>1, <1>3, <1>4

--------------------------------------------------------------------------------
(* The ring. *)

Gap(p, q) == IF p <= q THEN q - p ELSE q - p + thread_count

\* The thread whose result comes next; how many results have not been taken.
First == IF at = "wait" THEN u ELSE next_finished
OnTheWay == Gap(next_finished, next_decoding) + (IF at = "wait" THEN 1 ELSE 0)

Busy(p) == Gap(First, p) < OnTheWay

\* With `taken` results taken since the last flush: which submission a thread has, and
\* how many there were.
Place(taken, p) == taken + 1 + Gap(First, p)
Total(taken) == taken + OnTheWay

Undecoded(p) ==
    \/ pc[p] = "input" /\ state[p] = "SETTING_UP"
    \/ pc[p] = "setup"
    \/ pc[p] = "finish" /\ ~codec.update

Given(taken) ==
    /\ Len(history.fed) <= Total(taken)
    /\ ~internal.draining => Total(taken) = Len(history.fed)
    /\ at = "wait" => next_finished = Successor(u)

Working(taken) ==
    \A p \in Threads :
        IF ~Busy(p) THEN thread[p].df = <<>> /\ thread[p].result = 0
        ELSE IF Undecoded(p) THEN ToDecode(Job, thread[p], Place(taken, p))
        ELSE HasDecoded(Job, thread[p], Place(taken, p))

\* From where the next thread goes on.
Ahead(taken) ==
    /\ Total(taken) = 0 =>
          /\ prev_thread = 0 /\ next_decoding = 1
          /\ Like(Job, thread[1].ctx, ContextAt(Job, 0), 0)
    /\ Total(taken) > 0 =>
          /\ prev_thread \in Threads /\ next_decoding = Successor(prev_thread)
          /\ ~Undecoded(prev_thread) =>
                Like(Job, thread[prev_thread].ctx, ContextAt(Job, Total(taken)), Total(taken))
    /\ codec.delay = 0 => \A p \in Threads : thread[p].ctx.delayed = <<>>

--------------------------------------------------------------------------------
(* The user. *)

ReceiveCalls == {"send", "receive", "sync"}
Returning == at = "relock" /\ call \in ReceiveCalls

InHand == IF Returning THEN user.frame \o Error(user.ret) ELSE <<>>

\* What has been given to the user, is about to be, or is kept.
Shown == history.returned \o internal.buffer_frame \o InHand \o fctx.df \o Error(fctx.result)

NothingKept == fctx.df = <<>> /\ fctx.result = 0

Shows(taken) ==
    /\ Shown = OutAt(Job, taken)
    /\ fctx.result = EOF => taken > Len(history.fed)
    /\ user.ret = EOF /\ (Outside \/ Returning) => taken > Len(history.fed)
    /\ user.ret = AGAIN /\ call = "sync" /\ (Outside \/ Returning) => OnTheWay = 0

Data ==
    /\ IsJob(Job)
    /\ thread \in [Threads -> [avpkt : Nat, draining : BOOLEAN, ref : Nat, ctx : Contexts,
                               df : Seq(FrameRecords), result : Nat \cup {EOF}]]
    /\ user \in [pkt : DOMAIN stream \cup {0}, ret : Int, frame : Seq(FrameRecords)]
    /\ internal \in [sent : 0 .. Len(stream), buffer_pkt : DOMAIN stream \cup {0},
                     buffer_frame : Seq(FrameRecords), draining_started : BOOLEAN,
                     draining : BOOLEAN]
    /\ fctx \in [df : Seq(FrameRecords), result : Nat \cup {EOF}]
    /\ history \in [start : Contexts, fed : Seq(DOMAIN stream), returned : Seq(FrameRecords)]

\* What goes with where a call is.
CallState ==
    /\ internal.draining => internal.draining_started /\ internal.buffer_pkt = 0
    /\ \A p \in Threads : thread[p].draining => internal.draining
    /\ at \in {"submit", "copy"} => (user.pkt = 0 <=> internal.draining)
    /\ at = "copy" => thread[u].avpkt = user.pkt /\ (thread[u].draining <=> user.pkt = 0)
    /\ at \in {"park", "die", "join"} => call \in {"flush", "close"}
    /\ Receiving => user.frame = <<>>
    /\ Receiving \/ Returning => internal.buffer_frame = <<>>
    /\ at \in {"submit", "copy", "wait"} => NothingKept
    /\ Returning /\ user.frame # <<>> => user.ret = 0
    /\ user.ret \in {EOF, AGAIN} /\ Returning => NothingKept
    /\ user.ret = EOF /\ Outside => internal.buffer_frame = <<>> /\ NothingKept
    /\ user.ret = AGAIN /\ Returning =>
          internal.buffer_pkt = 0 /\ ~internal.draining
    /\ user.ret = AGAIN /\ Outside /\ call \in {"receive", "sync"} =>
          /\ internal.buffer_frame = <<>> /\ NothingKept
          /\ internal.buffer_pkt = 0 /\ ~internal.draining
    /\ die # {} => at \in {"die", "join", "closed"}

Pipeline == \E taken \in Nat : Given(taken) /\ Working(taken) /\ Ahead(taken) /\ Shows(taken)

LEMMA GapFacts ==
    ASSUME NEW p \in Threads, NEW q \in Threads
    PROVE  /\ Gap(p, q) \in 0 .. thread_count - 1
           /\ Gap(p, p) = 0
           /\ Successor(p) \in Threads
           /\ p # q => Gap(p, q) = Gap(Successor(p), q) + 1
           /\ Gap(Successor(p), p) = thread_count - 1
           /\ Successor(q) # p => Gap(p, Successor(q)) = Gap(p, q) + 1
           /\ Successor(q) = p => Gap(p, q) = thread_count - 1
BY SomeThreads DEF Gap, Successor, Threads

LEMMA GapSame ==
    ASSUME NEW p \in Threads, NEW q \in Threads, NEW r \in Threads, Gap(p, q) = Gap(p, r)
    PROVE  q = r
BY SomeThreads DEF Gap, Threads

\* What of the ring is known where a thread is waited for, or not.
LEMMA RingFacts ==
    ASSUME IInv, at = "wait" => next_finished = Successor(u)
    PROVE  /\ First \in Threads /\ OnTheWay \in 0 .. thread_count
           /\ next_decoding \in Threads /\ next_finished \in Threads
           /\ at # "wait" => First = next_finished /\ OnTheWay = Gap(next_finished, next_decoding)
           /\ at = "wait" => /\ u \in Threads /\ First = u
                             /\ OnTheWay = Gap(next_finished, next_decoding) + 1
<1>1. next_decoding \in Threads /\ next_finished \in Threads /\ (at = "wait" => u \in Threads)
  BY DEF IInv, TypeOK, Turns
<1>2. Gap(next_finished, next_decoding) \in 0 .. thread_count - 1
  BY <1>1, GapFacts
<1> QED BY <1>1, <1>2, SomeThreads DEF First, OnTheWay

LEMMA BusyIs ==
    ASSUME IInv, at = "wait" => next_finished = Successor(u), NEW p \in Threads
    PROVE  Busy(p) <=> AtWork(p) \/ (at = "wait" /\ p = u)
<1>1. next_decoding \in Threads /\ next_finished \in Threads /\ (at = "wait" => u \in Threads)
  BY DEF IInv, TypeOK, Turns
<1>2. AtWork(p) <=> Gap(next_finished, p) < Gap(next_finished, next_decoding)
  BY <1>1, SomeThreads DEF AtWork, Gap, Threads
<1>3. CASE at # "wait"
  BY <1>2, <1>3, RingFacts DEF Busy
<1>4. CASE at = "wait"
  <2>1. Busy(p) <=> Gap(u, p) < Gap(next_finished, next_decoding) + 1
    BY <1>4, RingFacts DEF Busy
  <2>2. CASE p = u
    BY <1>1, <1>4, <2>1, <2>2, GapFacts
  <2>3. CASE p # u
    <3>1. Gap(u, p) = Gap(next_finished, p) + 1
      BY <1>1, <1>4, <2>3, GapFacts
    <3>2. Gap(next_finished, p) \in Int /\ Gap(next_finished, next_decoding) \in Int
      BY <1>1, GapFacts
    <3> QED BY <1>2, <1>4, <2>1, <2>3, <3>1, <3>2
  <2> QED BY <2>2, <2>3
<1> QED BY <1>3, <1>4

LEMMA UndecodedIsBusy ==
    ASSUME IInv, at = "wait" => next_finished = Successor(u), NEW p \in Threads
    PROVE  /\ Undecoded(p) => Busy(p) /\ state[p] # "INPUT_READY"
           /\ ~Busy(p) => state[p] = "INPUT_READY"
<1>1. Undecoded(p) => state[p] # "INPUT_READY"
  BY DEF Undecoded, IInv, Stages
<1> QED BY <1>1, BusyIs DEF IInv, Turns

\* The thread that was given a packet last is the last of those at work.
LEMMA LastIs ==
    ASSUME IInv, at = "wait" => next_finished = Successor(u), OnTheWay > 0,
           prev_thread \in Threads, next_decoding = Successor(prev_thread)
    PROVE  Busy(prev_thread) /\ Gap(First, prev_thread) = OnTheWay - 1
<1>1. next_finished \in Threads
  BY DEF IInv, TypeOK
<1>2. CASE at # "wait"
  <2>1. Gap(next_finished, next_decoding) > 0 /\ First = next_finished
        /\ OnTheWay = Gap(next_finished, next_decoding)
    BY <1>2, RingFacts
  <2>2. Successor(prev_thread) # next_finished
    BY <1>1, <2>1, GapFacts
  <2>3. Gap(next_finished, next_decoding) = Gap(next_finished, prev_thread) + 1
        /\ Gap(next_finished, prev_thread) \in Int
    BY <1>1, <2>2, GapFacts
  <2> QED BY <2>1, <2>3 DEF Busy
<1>3. CASE at = "wait"
  <2>1. u \in Threads /\ First = u /\ OnTheWay = Gap(Successor(u), Successor(prev_thread)) + 1
    BY <1>3, RingFacts
  <2>2. Gap(u, prev_thread) = Gap(Successor(u), Successor(prev_thread)) /\ Gap(u, prev_thread) \in Int
    BY <2>1, SomeThreads DEF Gap, Successor, Threads
  <2> QED BY <2>1, <2>2 DEF Busy
<1> QED BY <1>2, <1>3

\* The threads do together what one would do.
DInv == IInv /\ Data /\ CallState /\ Pipeline

--------------------------------------------------------------------------------
(* What does not change what these are about keeps them. *)

LEMMA DataStays ==
    ASSUME Data, UNCHANGED <<codec, stream, thread, user, internal, fctx, history>>
    PROVE  Data'
<1>1. IsJob(Job)'
  BY DEF Data, Job, IsJob
<1>2. thread' = thread /\ user' = user /\ internal' = internal /\ fctx' = fctx /\ history' = history
      /\ stream' = stream
  OBVIOUS
<1> QED BY <1>1, <1>2 DEF Data

LEMMA CallStateStays ==
    ASSUME CallState, UNCHANGED <<caller, user, internal, fctx, thread, die>>
    PROVE  CallState'
BY DEF CallState, caller, Receiving, Returning, ReceiveCalls, NothingKept, Outside

LEMMA WorkingStays ==
    ASSUME NEW taken \in Nat, Working(taken), Ahead(taken),
           Job' = Job, codec' = codec, thread' = thread, First' = First, OnTheWay' = OnTheWay,
           next_decoding' = next_decoding, prev_thread' = prev_thread,
           \A p \in Threads : Undecoded(p)' = Undecoded(p)
    PROVE  Working(taken)' /\ Ahead(taken)'
<1>1. Working(taken)'
  BY DEF Working, Busy, Place
<1>2. Total(taken)' = Total(taken)
  BY DEF Total
<1>3. Ahead(taken)'
  BY <1>2 DEF Ahead
<1> QED BY <1>1, <1>3

LEMMA ShowsStays ==
    ASSUME NEW taken \in Nat, Shows(taken), Job' = Job, OnTheWay' = OnTheWay,
           UNCHANGED <<caller, user, internal, fctx, history>>
    PROVE  Shows(taken)'
BY DEF Shows, Shown, InHand, Returning, ReceiveCalls, caller, Outside

LEMMA GivenStays ==
    ASSUME NEW taken \in Nat, Given(taken), OnTheWay' = OnTheWay,
           UNCHANGED <<caller, turns, history>>, internal'.draining = internal.draining
    PROVE  Given(taken)'
BY DEF Given, Total, caller, turns

LEMMA WorkerStays ==
    ASSUME DInv, WorkerFrame, UNCHANGED thread, \A p \in Threads : Undecoded(p)' = Undecoded(p)
    PROVE  Data' /\ CallState' /\ Pipeline'
<1>1. Data'
  BY DataStays DEF DInv, WorkerFrame
<1>2. CallState'
  BY CallStateStays DEF DInv, WorkerFrame
<1>3. PICK taken \in Nat : Given(taken) /\ Working(taken) /\ Ahead(taken) /\ Shows(taken)
  BY DEF DInv, Pipeline
<1>4. First' = First /\ OnTheWay' = OnTheWay /\ Job' = Job
  BY DEF WorkerFrame, First, OnTheWay, Job, caller, turns
<1>5. Working(taken)' /\ Ahead(taken)'
  BY <1>3, <1>4, WorkingStays DEF WorkerFrame, turns
<1>6. Shows(taken)'
  BY <1>3, <1>4, ShowsStays DEF WorkerFrame
<1>7. Given(taken)'
  BY <1>3, <1>4, GivenStays DEF WorkerFrame
<1>8. \E t \in Nat : Given(t)' /\ Working(t)' /\ Ahead(t)' /\ Shows(t)'
  BY <1>3, <1>5, <1>6, <1>7
<1> QED BY <1>1, <1>2, <1>8 DEF Pipeline

--------------------------------------------------------------------------------
(* frame_worker_thread(): only what it sets up changes what there is to return. *)

LEMMA WorkerInputShows ==
    ASSUME DInv, NEW p \in Threads, WorkerFrame, WorkerInput(p)
    PROVE  Data' /\ CallState' /\ Pipeline'
<1>1. UNCHANGED <<thread, state, codec>> /\ pc[p] = "input"
  BY DEF WorkerInput, WorkerFrame
<1>2. p \in die => state[p] = "INPUT_READY"
  BY DEF DInv, IInv, Turns, CallState, AllParked
<1>3. pc \in [Threads -> {"input", "setup", "finish", "decode", "release", "ready", "dead"}]
      /\ state \in [Threads -> States] /\ state[p] # "SETUP_FINISHED"
  BY <1>1 DEF DInv, IInv, TypeOK, Stages
<1>4. \A q \in Threads : Undecoded(q)' = Undecoded(q)
  BY <1>1, <1>2, <1>3 DEF WorkerInput, Goto, Undecoded, States
<1> QED BY <1>1, <1>4, WorkerStays

LEMMA WorkerElsewhereShows ==
    ASSUME DInv, NEW p \in Threads, WorkerFrame,
           \/ FinishSerialize(p) \/ FinishAwaitsAsync(p) \/ FinishSetup(p) \/ AwaitProgress(p)
           \/ ReportProgress(p) \/ WorkerWipe(p) \/ WorkerRelease(p) \/ WorkerReady(p)
    PROVE  Data' /\ CallState' /\ Pipeline'
<1>1. UNCHANGED <<thread, codec>>
  BY DEF WorkerFrame, FinishSerialize, FinishAwaitsAsync, FinishSetup, AwaitProgress,
      ReportProgress, WorkerWipe, WorkerRelease, WorkerReady
<1>2. pc \in [Threads -> {"input", "setup", "finish", "decode", "release", "ready", "dead"}]
      /\ state \in [Threads -> States]
  BY DEF DInv, IInv, TypeOK
<1>3. CASE FinishSerialize(p) \/ FinishAwaitsAsync(p) \/ AwaitProgress(p) \/ WorkerWipe(p)
  <2>1. UNCHANGED <<pc, state>>
    BY <1>3 DEF FinishSerialize, FinishAwaitsAsync, AwaitProgress, WorkerWipe
  <2>2. \A q \in Threads : Undecoded(q)' = Undecoded(q)
    BY <1>1, <2>1 DEF Undecoded
  <2> QED BY <1>1, <2>2, WorkerStays
<1>4. CASE FinishSetup(p)
  <2>1. /\ pc[p] = "finish" /\ state' = [state EXCEPT ![p] = "SETUP_FINISHED"]
        /\ pc' = [pc EXCEPT ![p] = IF ~codec.update THEN "setup"
                                   ELSE IF HasPicture(p) THEN "decode" ELSE After(p)]
    BY <1>4 DEF FinishSetup, InFinish, Goto
  <2>2. After(p) \in {"release", "ready"}
    BY DEF After
  <2>3. \A q \in Threads : Undecoded(q)' = Undecoded(q)
    BY <1>1, <1>2, <2>1, <2>2 DEF Undecoded
  <2> QED BY <1>1, <2>3, WorkerStays
<1>5. CASE ReportProgress(p) \/ WorkerRelease(p)
  <2>1. pc[p] \in {"decode", "release"} /\ UNCHANGED state
        /\ \E where \in {"release", "ready"} : pc' = [pc EXCEPT ![p] = where]
    BY <1>5 DEF ReportProgress, PictureDone, WorkerRelease, Goto, After
  <2>2. \A q \in Threads : Undecoded(q)' = Undecoded(q)
    BY <1>1, <1>2, <2>1 DEF Undecoded
  <2> QED BY <1>1, <2>2, WorkerStays
<1>6. CASE WorkerReady(p)
  <2>1. pc[p] = "ready" /\ pc' = [pc EXCEPT ![p] = "input"]
        /\ state' = [state EXCEPT ![p] = "INPUT_READY"]
    BY <1>6 DEF WorkerReady, Goto
  <2>2. \A q \in Threads : Undecoded(q)' = Undecoded(q)
    BY <1>1, <1>2, <2>1 DEF Undecoded
  <2> QED BY <1>1, <2>2, WorkerStays
<1> QED BY <1>3, <1>4, <1>5, <1>6

LEMMA WorkerSetupShows ==
    ASSUME DInv, NEW p \in Threads, WorkerFrame, WorkerSetup(p)
    PROVE  Data' /\ CallState' /\ Pipeline'
<1> DEFINE t == thread[p]
           d == IF t.draining THEN Drain(t.ctx) ELSE Decode(codec, stream, t.ctx, t.avpkt)
           T == [avpkt : Nat, draining : BOOLEAN, ref : Nat, ctx : Contexts,
                 df : Seq(FrameRecords), result : Nat \cup {EOF}]
<1>1. /\ pc[p] = "setup" /\ UNCHANGED <<codec, state, stream, caller, turns, history>>
      /\ pc' = [pc EXCEPT ![p] = IF codec.update THEN "finish" ELSE "ready"]
      /\ thread' = [thread EXCEPT ![p].ctx = d.ctx, ![p].df = t.df \o d.df,
                                  ![p].result = d.result, ![p].ref = t.ctx.seen]
  BY DEF WorkerSetup, Decoded, WorkerFrame, Goto
<1>2. /\ pc \in [Threads -> {"input", "setup", "finish", "decode", "release", "ready", "dead"}]
      /\ thread \in [Threads -> T] /\ t \in T /\ IsJob(Job)
  BY DEF DInv, IInv, TypeOK, Data
<1>3. PICK taken \in Nat : Given(taken) /\ Working(taken) /\ Ahead(taken) /\ Shows(taken)
  BY DEF DInv, Pipeline
<1> DEFINE o == Place(taken, p)
<1>4. First' = First /\ OnTheWay' = OnTheWay /\ Job' = Job
  BY <1>1 DEF First, OnTheWay, Job, caller, turns
<1>5. /\ \A q \in Threads : q # p => Undecoded(q)' = Undecoded(q)
      /\ Undecoded(p) /\ ~Undecoded(p)'
  BY <1>1, <1>2 DEF Undecoded
<1>6. IInv /\ (at = "wait" => next_finished = Successor(u)) /\ Busy(p)
  BY <1>3, <1>5, UndecodedIsBusy DEF DInv, Given
<1>7. First \in Threads /\ OnTheWay \in Nat /\ o \in Nat \ {0}
  <2>1. First \in Threads /\ OnTheWay \in 0 .. thread_count
    BY <1>6, RingFacts
  <2>2. Gap(First, p) \in 0 .. thread_count - 1
    BY <2>1, GapFacts
  <2> QED BY <2>1, <2>2, SomeThreads DEF Place
<1>8. ToDecode(Job, t, o)
  BY <1>3, <1>5, <1>6 DEF Working
<1>9. /\ d \in Results /\ d.df = ResultAt(Job, o).df /\ d.result = ResultAt(Job, o).result
      /\ Like(Job, d.ctx, ContextAt(Job, o), o)
      /\ codec.delay = 0 /\ t.ctx.delayed = <<>> => d.ctx.delayed = <<>>
  <2>1. t.ctx \in Contexts
    BY <1>2
  <2>2. Job.codec = codec /\ Job.stream = stream
    BY DEF Job
  <2>3. d = DecodedBy(Job.codec, Job.stream, t)
    BY <2>2 DEF DecodedBy
  <2> HIDE DEF o, d, t
  <2>4. o \in Nat \ {0} /\ IsJob(Job)
    BY <1>2, <1>7
  <2> DEFINE j == Job
  <2>5. j.codec = codec /\ IsJob(j) /\ ToDecode(j, t, o)
        /\ d = DecodedBy(j.codec, j.stream, t)
    BY <1>8, <2>2, <2>3, <2>4
  <2> HIDE DEF j
  <2>6. AsOneThread(j, t, o, d)
    BY <2>1, <2>4, <2>5, JobDecodes
  <2> QED BY <2>5, <2>6 DEF j, AsOneThread
<1>10. d.result \in Nat \cup {EOF}
  <2>1. IF o <= Len(Job.fed) THEN ResultAt(Job, o).result \in Nat ELSE ResultAt(Job, o).result = EOF
    BY <1>2, <1>7, JobContinues
  <2>2. d.result = ResultAt(Job, o).result
    BY <1>9
  <2> HIDE DEF o, d
  <2> QED BY <2>1, <2>2
<1>11. t.df \o d.df = d.df
  BY <1>8, <1>9 DEF ToDecode, Results
<1> HIDE DEF d
<1>12. /\ thread'[p] = [t EXCEPT !.ctx = d.ctx, !.df = d.df, !.result = d.result,
                                 !.ref = t.ctx.seen]
       /\ \A q \in Threads : q # p => thread'[q] = thread[q]
       /\ DOMAIN thread' = Threads /\ thread' = [q \in Threads |-> thread'[q]]
  BY <1>1, <1>2, <1>11
<1>13. /\ thread'[p] \in T
       /\ thread'[p].avpkt = t.avpkt /\ thread'[p].draining = t.draining
       /\ thread'[p].ctx = d.ctx /\ thread'[p].df = d.df /\ thread'[p].result = d.result
  <2>1. d.ctx \in Contexts /\ d.df \in Seq(FrameRecords) /\ t.ctx.seen \in Nat
    BY <1>2, <1>9 DEF Results, Contexts
  <2> DEFINE dc == d.ctx
             dd == d.df
             dr == d.result
             se == t.ctx.seen
             C == Contexts
             F == Seq(FrameRecords)
             E == Nat \cup {EOF}
             x == thread'[p]
             tt == t
  <2>2. dc \in C /\ dd \in F /\ dr \in E /\ se \in Nat
        /\ x = [tt EXCEPT !.ctx = dc, !.df = dd, !.result = dr, !.ref = se]
        /\ tt \in [avpkt : Nat, draining : BOOLEAN, ref : Nat, ctx : C, df : F, result : E]
    BY <1>2, <1>10, <1>12, <2>1
  <2> HIDE DEF dc, dd, dr, se, C, F, E, x, tt
  <2>3. /\ x \in [avpkt : Nat, draining : BOOLEAN, ref : Nat, ctx : C, df : F, result : E]
        /\ x.avpkt = tt.avpkt /\ x.draining = tt.draining
        /\ x.ctx = dc /\ x.df = dd /\ x.result = dr
    BY <2>2
  <2> QED BY <2>3 DEF dc, dd, dr, se, C, F, E, x, tt
<1>14. Data'
  <2>1. thread' \in [Threads -> T]
    BY <1>2, <1>12, <1>13
  <2>2. IsJob(Job)'
    BY <1>2, <1>4 DEF IsJob
  <2> QED BY <2>1, <2>2 DEF Data, DInv, WorkerFrame
<1>15. CallState'
  <2>1. \A q \in Threads : thread'[q].avpkt = thread[q].avpkt /\ thread'[q].draining = thread[q].draining
    BY <1>12, <1>13
  <2>2. at = "copy" => u \in Threads
    BY DEF DInv, IInv, TypeOK, Turns
  <2>3. UNCHANGED <<caller, user, internal, fctx, die>> /\ CallState
    BY DEF WorkerFrame, DInv
  <2> QED BY <2>1, <2>2, <2>3 DEF CallState, caller, Receiving, Returning, ReceiveCalls, NothingKept, Outside
<1>16. Working(taken)'
  <2>1. ASSUME NEW q \in Threads
        PROVE  IF ~Busy(q)' THEN thread'[q].df = <<>> /\ thread'[q].result = 0
               ELSE IF Undecoded(q)' THEN ToDecode(Job', thread'[q], Place(taken, q)')
               ELSE HasDecoded(Job', thread'[q], Place(taken, q)')
    <3>1. Busy(q)' = Busy(q) /\ Place(taken, q)' = Place(taken, q)
      BY <1>4 DEF Busy, Place
    <3>2. CASE q = p
      <4>1. HasDecoded(Job, thread'[p], o)
        BY <1>9, <1>13 DEF HasDecoded
      <4> QED BY <1>4, <1>5, <1>6, <3>1, <3>2, <4>1
    <3>3. CASE q # p
      BY <1>3, <1>4, <1>5, <1>12, <3>1, <3>3 DEF Working
    <3> QED BY <3>2, <3>3
  <2> QED BY <2>1 DEF Working
<1>17. Ahead(taken)'
  <2>0. OnTheWay > 0
    <3>1. Gap(First, p) \in 0 .. thread_count - 1 /\ Gap(First, p) < OnTheWay
      BY <1>6, <1>7, GapFacts DEF Busy
    <3> QED BY <1>7, <3>1, SomeThreads
  <2>1. Total(taken)' = Total(taken) /\ Total(taken) > 0
    BY <1>4, <1>7, <2>0 DEF Total
  <2>2. prev_thread' = prev_thread /\ next_decoding' = next_decoding /\ codec' = codec
    BY <1>1 DEF turns
  <2>3. prev_thread \in Threads /\ next_decoding = Successor(prev_thread)
    BY <1>3, <2>1 DEF Ahead
  <2>4. ~Undecoded(prev_thread)' => Like(Job, thread'[prev_thread].ctx, ContextAt(Job, Total(taken)), Total(taken))
    <3>1. CASE prev_thread = p
      <4>2. Gap(First, p) = OnTheWay - 1
        BY <1>6, <2>0, <2>3, <3>1, LastIs
      <4>3. o = Total(taken)
        BY <1>7, <4>2 DEF Place, Total
      <4> QED BY <1>9, <1>13, <3>1, <4>3
    <3>2. CASE prev_thread # p
      <4>1. thread'[prev_thread] = thread[prev_thread] /\ Undecoded(prev_thread)' = Undecoded(prev_thread)
        <5>1. thread'[prev_thread] = thread[prev_thread]
          BY <1>12, <2>3, <3>2
        <5>2. Undecoded(prev_thread)' = Undecoded(prev_thread)
          BY <1>1, <1>2, <2>2, <2>3, <3>2 DEF Undecoded
        <5> QED BY <5>1, <5>2
      <4>2. ~Undecoded(prev_thread) => Like(Job, thread[prev_thread].ctx, ContextAt(Job, Total(taken)), Total(taken))
        BY <1>3, <2>1 DEF Ahead
      <4> QED BY <4>1, <4>2
    <3> QED BY <3>1, <3>2
  <2>5. codec.delay = 0 => \A q \in Threads : thread'[q].ctx.delayed = <<>>
    <3>1. ASSUME codec.delay = 0, NEW q \in Threads
          PROVE  thread'[q].ctx.delayed = <<>>
      <4>1. \A r \in Threads : thread[r].ctx.delayed = <<>>
        BY <1>3, <3>1 DEF Ahead
      <4>2. CASE q = p
        BY <1>9, <1>13, <3>1, <4>1, <4>2
      <4>3. CASE q # p
        BY <1>12, <4>1, <4>3
      <4> QED BY <4>2, <4>3
    <3> QED BY <3>1
  <2> QED BY <1>4, <2>1, <2>2, <2>3, <2>4, <2>5 DEF Ahead
<1>18. Shows(taken)' /\ Given(taken)'
  BY <1>3, <1>4, ShowsStays, GivenStays DEF WorkerFrame
<1>19. \E n \in Nat : Given(n)' /\ Working(n)' /\ Ahead(n)' /\ Shows(n)'
  BY <1>16, <1>17, <1>18
<1> QED BY <1>14, <1>15, <1>19 DEF Pipeline

--------------------------------------------------------------------------------
(* What the user does that leaves the ring alone. *)

\* Neither waiting before nor after, with the threads left as they are.
LEMMA RingStays ==
    ASSUME DInv, UNCHANGED <<codec, stream, turns, pc, state, thread>>, Job' = Job,
           history'.fed = history.fed,
           at # "wait", at' # "wait", internal.draining => internal'.draining,
           NEW taken \in Nat, Given(taken), Working(taken), Ahead(taken)
    PROVE  First' = First /\ OnTheWay' = OnTheWay /\ Given(taken)' /\ Working(taken)' /\ Ahead(taken)'
<1>1. First' = First /\ OnTheWay' = OnTheWay
  BY DEF First, OnTheWay, turns
<1>2. \A q \in Threads : Undecoded(q)' = Undecoded(q)
  BY DEF Undecoded
<1>3. Working(taken)' /\ Ahead(taken)'
  BY <1>1, <1>2, WorkingStays DEF turns
<1>4. Given(taken)'
  BY <1>1 DEF Given, Total
<1> QED BY <1>1, <1>3, <1>4

LEMMA JoinNothing ==
    ASSUME NEW S, NEW a \in Seq(S)
    PROVE  a \o <<>> = a /\ <<>> \o a = a
OBVIOUS

\* Nothing is returned or kept that was not before.
LEMMA SameShown ==
    ASSUME NEW taken \in Nat, Shows(taken), Shown' = Shown, Job' = Job, history'.fed = history.fed,
           OnTheWay' = OnTheWay, fctx'.result \in {0, fctx.result},
           user'.ret = EOF /\ (Outside' \/ Returning') => taken > Len(history.fed),
           user'.ret = AGAIN /\ call' = "sync" /\ (Outside' \/ Returning') => OnTheWay = 0
    PROVE  Shows(taken)'
BY DEF Shows, EOF

LEMMA Types ==
    ASSUME Data
    PROVE  /\ history.returned \in Seq(FrameRecords) /\ internal.buffer_frame \in Seq(FrameRecords)
           /\ user.frame \in Seq(FrameRecords) /\ fctx.df \in Seq(FrameRecords)
           /\ user.ret \in Int /\ fctx.result \in Nat \cup {EOF}
           /\ Error(user.ret) \in Seq(FrameRecords) /\ Error(fctx.result) \in Seq(FrameRecords)
           /\ InHand \in Seq(FrameRecords)
<1>1. /\ history.returned \in Seq(FrameRecords) /\ internal.buffer_frame \in Seq(FrameRecords)
      /\ user.frame \in Seq(FrameRecords) /\ fctx.df \in Seq(FrameRecords)
      /\ user.ret \in Int /\ fctx.result \in Nat \cup {EOF}
  BY DEF Data
<1>2. Error(user.ret) \in Seq(FrameRecords) /\ Error(fctx.result) \in Seq(FrameRecords)
  <2> DEFINE a == user.ret
             b == fctx.result
  <2>1. a \in Int /\ b \in Int
    BY <1>1 DEF EOF
  <2> HIDE DEF a, b
  <2>2. Error(a) \in Seq(FrameRecords) /\ Error(b) \in Seq(FrameRecords)
    BY <2>1, ErrorTyped
  <2> QED BY <2>2 DEF a, b
<1>3. InHand \in Seq(FrameRecords)
  <2>1. user.frame \o Error(user.ret) \in Seq(FrameRecords) /\ <<>> \in Seq(FrameRecords)
    BY <1>1, <1>2, JoinTyped
  <2> QED BY <2>1 DEF InHand
<1> QED BY <1>1, <1>2, <1>3

LEMMA SendShows ==
    ASSUME DInv, avcodec_send_packet \/ avcodec_send_end \/ ParkAll, CallFrame
    PROVE  Data' /\ CallState' /\ Pipeline'
<1>1. PICK taken \in Nat : Given(taken) /\ Working(taken) /\ Ahead(taken) /\ Shows(taken)
  BY DEF DInv, Pipeline
<1>2. /\ UNCHANGED <<codec, stream, turns, pc, state, thread, fctx, history, die>>
      /\ at = "out" /\ at' \in {"out", "loop", "park"}
      /\ internal'.draining = internal.draining /\ internal'.buffer_frame = internal.buffer_frame
  BY DEF DInv, Data, avcodec_send_packet, avcodec_send_end, ParkAll, Enter, Return, CallFrame, Outside
<1>3. /\ at' = "out" => /\ call' = "other" /\ u' = u
                        /\ \E r \in {0, AGAIN} : user' = [user EXCEPT !.ret = r]
      /\ at' # "out" => user' = [user EXCEPT !.frame = <<>>]
      /\ at' = "loop" => call' = "send"
      /\ at' = "park" => call' \in {"flush", "close"}
      /\ at' = "loop" => internal.buffer_frame = <<>>
  BY <1>2 DEF avcodec_send_packet, avcodec_send_end, ParkAll, Enter, Return, ReturnValue, Outside
<1>4. Job' = Job
  BY <1>2 DEF Job
<1>5. OnTheWay' = OnTheWay /\ Given(taken)' /\ Working(taken)' /\ Ahead(taken)'
  BY <1>1, <1>2, <1>4, RingStays
<1>6. user \in [pkt : DOMAIN stream \cup {0}, ret : Int, frame : Seq(FrameRecords)]
      /\ internal \in [sent : 0 .. Len(stream), buffer_pkt : DOMAIN stream \cup {0},
                       buffer_frame : Seq(FrameRecords), draining_started : BOOLEAN,
                       draining : BOOLEAN]
      /\ stream \in Seq({"ok", "two", "bad", "torn"})
  BY DEF DInv, Data, IsJob, Job
<1>7. user' \in [pkt : DOMAIN stream \cup {0}, ret : Int, frame : Seq(FrameRecords)]
  <2>1. <<>> \in Seq(FrameRecords)
    OBVIOUS
  <2> DEFINE F == Seq(FrameRecords)
             D == DOMAIN stream \cup {0}
  <2>2. user \in [pkt : D, ret : Int, frame : F] /\ <<>> \in F
    BY <1>6, <2>1
  <2> HIDE DEF F, D
  <2>3. CASE at' = "out"
    BY <1>3, <2>2, <2>3 DEF AGAIN, F, D
  <2>4. CASE at' # "out"
    BY <1>3, <2>2, <2>4 DEF F, D
  <2> QED BY <2>3, <2>4
<1>8. /\ internal' \in [sent : 0 .. Len(stream), buffer_pkt : DOMAIN stream \cup {0},
                        buffer_frame : Seq(FrameRecords), draining_started : BOOLEAN,
                        draining : BOOLEAN]
      /\ internal.draining => internal'.draining_started /\ internal'.buffer_pkt = 0
  <2> DEFINE F == Seq(FrameRecords)
             D == DOMAIN stream \cup {0}
             L == Len(stream)
  <2>1. internal \in [sent : 0 .. L, buffer_pkt : D, buffer_frame : F, draining_started : BOOLEAN,
                      draining : BOOLEAN]
        /\ L \in Nat /\ DOMAIN stream = 1 .. L /\ D = 0 .. L
    BY <1>6
  <2>2. internal.draining => internal.draining_started /\ internal.buffer_pkt = 0
    BY DEF DInv, CallState
  <2> HIDE DEF F, D, L
  <2>3. CASE avcodec_send_packet
    <3>1. internal.sent < L /\ ~internal.draining_started
      BY <2>3 DEF avcodec_send_packet, L
    <3>2. \/ internal' = internal
          \/ internal' = [internal EXCEPT !.sent = @ + 1, !.buffer_pkt = internal.sent + 1]
      BY <2>3 DEF avcodec_send_packet
    <3>3. internal.sent \in 0 .. L
      BY <2>1
    <3>4. internal.sent + 1 \in 0 .. L
      BY <2>1, <3>1, <3>3
    <3>5. internal' \in [sent : 0 .. L, buffer_pkt : D, buffer_frame : F,
                         draining_started : BOOLEAN, draining : BOOLEAN]
      BY <2>1, <3>2, <3>4
    <3> QED BY <2>2, <3>1, <3>5 DEF F, D, L
  <2>4. CASE avcodec_send_end
    <3>1. internal' = [internal EXCEPT !.draining_started = TRUE]
      BY <2>4 DEF avcodec_send_end
    <3>2. internal' \in [sent : 0 .. L, buffer_pkt : D, buffer_frame : F,
                         draining_started : BOOLEAN, draining : BOOLEAN]
          /\ internal'.draining_started = TRUE /\ internal'.buffer_pkt = internal.buffer_pkt
      BY <2>1, <3>1
    <3> QED BY <2>2, <3>2 DEF F, D, L
  <2>5. CASE ParkAll
    BY <2>5, <1>6, <2>2 DEF ParkAll
  <2> QED BY <2>3, <2>4, <2>5
<1>9. Data'
  <2>1. IsJob(Job)'
    BY <1>2 DEF Job, IsJob, DInv, Data
  <2> QED BY <2>1, <1>2, <1>7, <1>8 DEF DInv, Data
<1>10. at' = "out" => user'.ret \in {0, AGAIN}
  BY <1>3, <1>6
<1>11. ~Returning' /\ ~Returning
  BY <1>2 DEF Returning
<1>12. CallState'
  <2>1. Receiving' => at' = "loop"
    BY <1>2 DEF Receiving
  <2>2. at' = "loop" => user'.frame = <<>>
    BY <1>3, <1>6
  <2>3. user'.ret # EOF \/ at' # "out"
    BY <1>10 DEF EOF, AGAIN
  <2>4. \A q \in Threads : thread'[q].draining => internal'.draining
    BY <1>2 DEF DInv, CallState
  <2>5. die' = {}
    BY <1>2 DEF DInv, CallState
  <2>6. internal'.draining => internal'.draining_started /\ internal'.buffer_pkt = 0
    BY <1>2, <1>8
  <2>7. at' = "out" => call' = "other"
    BY <1>3
  <2> QED BY <1>2, <1>3, <1>11, <2>1, <2>2, <2>3, <2>4, <2>5, <2>6, <2>7 DEF CallState, Outside
<1>13. Shows(taken)'
  <2>1. Shown' = Shown
    BY <1>2, <1>11 DEF Shown, InHand
  <2>2. at' = "out" => call' # "sync"
    BY <1>3
  <2>3. user'.ret # EOF \/ at' # "out"
    BY <1>10 DEF EOF, AGAIN
  <2> QED BY <1>1, <1>2, <1>4, <1>5, <1>11, <2>1, <2>2, <2>3, SameShown DEF Outside
<1>14. \E n \in Nat : Given(n)' /\ Working(n)' /\ Ahead(n)' /\ Shows(n)'
  BY <1>5, <1>13
<1> QED BY <1>9, <1>12, <1>14 DEF Pipeline

\* The frame that was kept is returned, or the call goes on.
LEMMA ReceiveShows ==
    ASSUME DInv, avcodec_receive_frame, CallFrame
    PROVE  Data' /\ CallState' /\ Pipeline'
<1>1. PICK taken \in Nat : Given(taken) /\ Working(taken) /\ Ahead(taken) /\ Shows(taken)
  BY DEF DInv, Pipeline
<1>2. /\ UNCHANGED <<codec, stream, turns, pc, state, thread, fctx, die>> /\ at = "out"
      /\ internal.buffer_frame # <<>> =>
            /\ UNCHANGED <<at, u>> /\ call' = "other" /\ user' = [user EXCEPT !.ret = 0]
            /\ internal' = [internal EXCEPT !.buffer_frame = <<>>]
            /\ history' = [history EXCEPT !.returned = @ \o internal.buffer_frame]
      /\ internal.buffer_frame = <<>> =>
            /\ at' = "loop" /\ call' \in {"receive", "sync"} /\ UNCHANGED <<internal, history>>
            /\ user' = [user EXCEPT !.frame = <<>>]
  BY DEF avcodec_receive_frame, Enter, Return, ReturnValue, Outside, CallFrame
<1> DEFINE F == Seq(FrameRecords)
           D == DOMAIN stream \cup {0}
           C == Contexts
           P == Seq(DOMAIN stream)
           L == 0 .. Len(stream)
<1>3. /\ user \in [pkt : D, ret : Int, frame : F]
      /\ internal \in [sent : L, buffer_pkt : D, buffer_frame : F, draining_started : BOOLEAN,
                       draining : BOOLEAN]
      /\ history \in [start : C, fed : P, returned : F] /\ <<>> \in F
      /\ history.returned \o internal.buffer_frame \in F
  <2>1. history.returned \o internal.buffer_frame \in F
    BY Types, JoinTyped DEF DInv
  <2> QED BY <2>1 DEF DInv, Data
<1> HIDE DEF F, D, C, P, L
<1>4. /\ user' \in [pkt : D, ret : Int, frame : F] /\ user'.pkt = user.pkt
      /\ internal' \in [sent : L, buffer_pkt : D, buffer_frame : F, draining_started : BOOLEAN,
                        draining : BOOLEAN]
      /\ history' \in [start : C, fed : P, returned : F]
      /\ history'.start = history.start /\ history'.fed = history.fed
      /\ internal'.draining = internal.draining /\ internal'.buffer_pkt = internal.buffer_pkt
      /\ internal'.draining_started = internal.draining_started
      /\ internal'.buffer_frame = <<>>
      /\ at' = "out" => /\ user'.ret = 0 /\ user'.frame = user.frame
                        /\ history'.returned = history.returned \o internal.buffer_frame
      /\ at' # "out" => user'.frame = <<>> /\ history'.returned = history.returned
  <2>1. CASE internal.buffer_frame = <<>>
    BY <1>2, <1>3, <2>1
  <2>2. CASE internal.buffer_frame # <<>>
    <3> DEFINE x == history.returned \o internal.buffer_frame
    <3>1. /\ at' = "out" /\ user' = [user EXCEPT !.ret = 0] /\ x \in F
          /\ internal' = [internal EXCEPT !.buffer_frame = <<>>]
          /\ history' = [history EXCEPT !.returned = x]
      BY <1>2, <1>3, <2>2
    <3> HIDE DEF x
    <3>2. user' \in [pkt : D, ret : Int, frame : F] /\ user'.pkt = user.pkt /\ user'.ret = 0
          /\ user'.frame = user.frame
      BY <1>3, <3>1
    <3>3. /\ internal' \in [sent : L, buffer_pkt : D, buffer_frame : F, draining_started : BOOLEAN,
                             draining : BOOLEAN]
          /\ internal'.draining = internal.draining /\ internal'.buffer_pkt = internal.buffer_pkt
          /\ internal'.draining_started = internal.draining_started
          /\ internal'.buffer_frame = <<>>
      BY <1>3, <3>1
    <3>4. /\ history' \in [start : C, fed : P, returned : F]
          /\ history'.start = history.start /\ history'.fed = history.fed
          /\ history'.returned = x
      BY <1>3, <3>1
    <3> QED BY <3>1, <3>2, <3>3, <3>4 DEF x
  <2> QED BY <2>1, <2>2
<1>5. Job' = Job
  BY <1>2, <1>4 DEF Job
<1>6. OnTheWay' = OnTheWay /\ Given(taken)' /\ Working(taken)' /\ Ahead(taken)'
  <2>1. at' # "wait"
    BY <1>2
  <2> QED BY <1>1, <1>2, <1>4, <1>5, <2>1, RingStays
<1>7. Data'
  <2>1. IsJob(Job)'
    BY <1>5 DEF IsJob, DInv, Data
  <2> QED BY <2>1, <1>2, <1>4 DEF DInv, Data, F, D, C, P, L
<1>8. ~Returning' /\ ~Returning /\ at' \in {"out", "loop"}
  BY <1>2 DEF Returning
<1>9. CallState'
  <2>1. at' = "out" => call' = "other"
    BY <1>2
  <2>2. at' = "out" => user'.ret # EOF
    BY <1>4 DEF EOF
  <2>3. CallState /\ die' = {}
    BY <1>2 DEF DInv, CallState
  <2>4. Receiving' => user'.frame = <<>>
    BY <1>4, <1>8 DEF Receiving
  <2> QED BY <1>2, <1>4, <1>8, <2>1, <2>2, <2>3, <2>4 DEF CallState, Outside
<1>10. Shows(taken)'
  <2>1. InHand = <<>> /\ InHand' = <<>> /\ fctx' = fctx
    BY <1>2, <1>8 DEF InHand
  <2>2. Shown' = Shown
    <3>1. CASE internal.buffer_frame = <<>>
      BY <1>2, <2>1, <3>1 DEF Shown
    <3>2. CASE internal.buffer_frame # <<>>
      <4>1. history'.returned = history.returned \o internal.buffer_frame /\ internal'.buffer_frame = <<>>
        BY <1>2, <1>4, <3>2
      <4>2. (history.returned \o internal.buffer_frame) \o <<>> = history.returned \o internal.buffer_frame
        BY <1>3, JoinNothing
      <4> QED BY <2>1, <4>1, <4>2 DEF Shown
    <3> QED BY <3>1, <3>2
  <2>3. at' = "out" => user'.ret # EOF /\ call' # "sync"
    <3>1. at' = "out" => call' = "other"
      BY <1>2
    <3>2. at' = "out" => user'.ret = 0
      BY <1>4
    <3> QED BY <3>1, <3>2 DEF EOF
  <2> QED BY <1>1, <1>2, <1>4, <1>5, <1>6, <1>8, <2>2, <2>3, SameShown DEF Outside
<1>11. \E n \in Nat : Given(n)' /\ Working(n)' /\ Ahead(n)' /\ Shows(n)'
  BY <1>6, <1>10
<1> QED BY <1>7, <1>9, <1>11 DEF Pipeline

--------------------------------------------------------------------------------
(* ff_thread_receive_frame() *)

LEMMA ErrorIs ==
    /\ Error(0) = <<>> /\ Error(EOF) = <<>> /\ Error(AGAIN) = <<>> /\ Error(NOMEM) = <<>>
BY DEF Error, EOF, AGAIN, NOMEM

LEMMA HeadTail ==
    ASSUME NEW S, NEW a \in Seq(S), a # <<>>
    PROVE  <<Head(a)>> \o Tail(a) = a /\ <<Head(a)>> \in Seq(S) /\ Tail(a) \in Seq(S)
OBVIOUS

\* What is in hand was the first there was.
LEMMA FinishShows ==
    ASSUME DInv, Finish, InCallFrame
    PROVE  Data' /\ CallState' /\ Pipeline'
<1>1. PICK taken \in Nat : Given(taken) /\ Working(taken) /\ Ahead(taken) /\ Shows(taken)
  BY DEF DInv, Pipeline
<1>2. /\ UNCHANGED <<codec, stream, turns, pc, state, thread, history, internal, die, call, u>>
      /\ at = "loop" /\ at' = "relock" /\ Pending
      /\ fctx.df # <<>> =>
            /\ user' = [user EXCEPT !.ret = 0, !.frame = <<Head(fctx.df)>>]
            /\ fctx' = [fctx EXCEPT !.df = Tail(@)]
      /\ fctx.df = <<>> =>
            user' = [user EXCEPT !.ret = fctx.result] /\ fctx' = [fctx EXCEPT !.result = 0]
  BY DEF Finish, Go, InCallFrame, shared, ReturnValue
<1> DEFINE F == Seq(FrameRecords)
           D == DOMAIN stream \cup {0}
           R == Nat \cup {EOF}
           head == <<Head(fctx.df)>>
           tail == Tail(fctx.df)
           df == fctx.df
           result == fctx.result
<1>3. /\ user \in [pkt : D, ret : Int, frame : F] /\ fctx \in [df : F, result : R]
      /\ 0 \in R /\ R \subseteq Int /\ df \in F /\ result \in R
      /\ df # <<>> => head \o tail = df /\ head \in F /\ tail \in F /\ head # <<>>
      /\ df = <<>> => result # 0
  <2>1. df # <<>> => head \o tail = df /\ head \in F /\ tail \in F
    BY HeadTail DEF DInv, Data
  <2> QED BY <1>2, <2>1 DEF DInv, Data, EOF, Pending
<1>4. /\ user.frame = <<>> /\ internal.buffer_frame = <<>> /\ call \in ReceiveCalls
      /\ \A q \in Threads : thread[q].draining => internal.draining
      /\ internal.draining => internal.draining_started /\ internal.buffer_pkt = 0
      /\ die = {}
  BY <1>2 DEF DInv, CallState, Receiving, IInv, Turns, ReceiveCalls
<1>5. /\ df # <<>> => /\ user' = [user EXCEPT !.ret = 0, !.frame = head]
                      /\ fctx' = [fctx EXCEPT !.df = tail]
      /\ df = <<>> => /\ user' = [user EXCEPT !.ret = result]
                      /\ fctx' = [fctx EXCEPT !.result = 0]
  BY <1>2
<1> HIDE DEF F, D, R, head, tail
<1>6. /\ user' \in [pkt : D, ret : Int, frame : F] /\ fctx' \in [df : F, result : R]
      /\ user'.pkt = user.pkt
      /\ df # <<>> => /\ user'.ret = 0 /\ user'.frame = head
                      /\ fctx'.df = tail /\ fctx'.result = result
      /\ df = <<>> => /\ user'.ret = result /\ user'.frame = <<>>
                      /\ fctx'.df = <<>> /\ fctx'.result = 0
  <2>1. CASE df # <<>>
    BY <1>3, <1>5, <2>1
  <2>2. CASE df = <<>>
    BY <1>3, <1>4, <1>5, <2>2
  <2> QED BY <2>1, <2>2
<1>7. Job' = Job
  BY <1>2 DEF Job
<1>8. OnTheWay' = OnTheWay /\ Given(taken)' /\ Working(taken)' /\ Ahead(taken)'
  <2>1. at # "wait" /\ at' # "wait"
    BY <1>2
  <2> QED BY <1>1, <1>2, <1>7, <2>1, RingStays
<1>9. Data'
  <2>1. IsJob(Job)'
    BY <1>7 DEF IsJob, DInv, Data
  <2> QED BY <2>1, <1>2, <1>6 DEF DInv, Data, F, D, R
<1>10. Returning' /\ ~Returning /\ ~Outside' /\ ~Receiving'
  BY <1>2, <1>4 DEF Returning, Outside, Receiving
<1>11. user'.ret # AGAIN /\ (user'.ret = EOF => df = <<>> /\ result = EOF)
  BY <1>3, <1>6 DEF AGAIN, EOF, R
<1>12. CallState'
  <2>1. user'.frame # <<>> => user'.ret = 0
    BY <1>6
  <2>2. user'.ret = EOF => NothingKept'
    BY <1>6, <1>11 DEF NothingKept
  <2> QED BY <1>2, <1>4, <1>10, <1>11, <2>1, <2>2 DEF CallState
<1>13. Shows(taken)'
  <2>1. InHand = <<>> /\ InHand' = user'.frame \o Error(user'.ret)
    BY <1>10 DEF InHand
  <2>2. history' = history /\ internal' = internal
    BY <1>2
  <2>3. history.returned \in F
    BY DEF DInv, Data, F
  <2> DEFINE r == history.returned
  <2>4. Shown = r \o df \o Error(result)
    <3>1. r \o <<>> = r
      BY <2>3, JoinNothing DEF F
    <3> QED BY <1>4, <2>1, <3>1 DEF Shown
  <2>5. Shown' = r \o (user'.frame \o Error(user'.ret)) \o fctx'.df \o Error(fctx'.result)
    <3>1. r \o <<>> = r
      BY <2>3, JoinNothing DEF F
    <3> QED BY <1>4, <2>1, <2>2, <3>1 DEF Shown
  <2>6. Shown' = Shown
    <3>1. CASE df # <<>>
      <4>1. user'.frame \o Error(user'.ret) = head
        BY <1>3, <1>6, <3>1, ErrorIs, JoinNothing DEF F
      <4>2. (r \o head) \o tail = r \o (head \o tail)
        <5> HIDE DEF r
        <5>1. r \in F /\ head \in F /\ tail \in F
          BY <1>3, <2>3, <3>1 DEF r
        <5> QED BY <5>1, JoinThree DEF F
      <4> QED BY <1>3, <1>6, <2>4, <2>5, <3>1, <4>1, <4>2
    <3>2. CASE df = <<>>
      <4>1. user'.frame \o Error(user'.ret) = Error(result) /\ Error(result) \in F
        BY <1>6, <3>2, Types, JoinNothing DEF F, DInv
      <4>2. fctx'.df = <<>> /\ Error(fctx'.result) = <<>>
        BY <1>6, <3>2, ErrorIs
      <4>3. r \o Error(result) \in F
        BY <2>3, <4>1, JoinTyped DEF F
      <4>4. r \o Error(result) \o <<>> = r \o Error(result) /\ r \o <<>> = r
        BY <2>3, <4>3, JoinNothing DEF F
      <4> QED BY <2>4, <2>5, <3>2, <4>1, <4>2, <4>4
    <3> QED BY <3>1, <3>2
  <2>7. user'.ret = EOF => taken > Len(history.fed)
    BY <1>1, <1>11 DEF Shows
  <2>8. fctx'.result \in {0, fctx.result}
    BY <1>6
  <2> QED BY <1>1, <1>7, <1>8, <1>11, <2>2, <2>6, <2>7, <2>8, SameShown
<1>14. \E n \in Nat : Given(n)' /\ Working(n)' /\ Ahead(n)' /\ Shows(n)'
  BY <1>8, <1>13
<1> QED BY <1>9, <1>12, <1>14 DEF Pipeline

LEMMA WaitAtOnceShows ==
    ASSUME DInv, WaitAtOnce, InCallFrame
    PROVE  Data' /\ CallState' /\ Pipeline'
<1>1. PICK taken \in Nat : Given(taken) /\ Working(taken) /\ Ahead(taken) /\ Shows(taken)
  BY DEF DInv, Pipeline
<1>2. /\ UNCHANGED <<codec, stream, pc, state, thread, history, internal, user, fctx, die, call>>
      /\ UNCHANGED <<next_decoding, prev_thread>>
      /\ at = "loop" /\ at' = "wait" /\ ~Pending /\ next_decoding # next_finished
      /\ u' = next_finished /\ next_finished' = Successor(next_finished)
  BY DEF WaitAtOnce, With, InCallFrame, shared, InFlight
<1>3. next_decoding \in Threads /\ next_finished \in Threads
  BY DEF DInv, IInv, TypeOK
<1>4. First' = First /\ OnTheWay' = OnTheWay
  <2>1. /\ Gap(next_finished, next_decoding) = Gap(Successor(next_finished), next_decoding) + 1
        /\ Successor(next_finished) \in Threads
    BY <1>2, <1>3, GapFacts
  <2>2. Gap(Successor(next_finished), next_decoding) \in Int
    BY <1>3, <2>1, GapFacts
  <2> QED BY <1>2, <2>1, <2>2 DEF First, OnTheWay
<1>5. Job' = Job
  BY <1>2 DEF Job
<1>6. Data'
  BY <1>2, DataStays DEF DInv
<1>7. CallState'
  <2>1. NothingKept
    BY <1>2 DEF Pending, NothingKept
  <2>2. Receiving' /\ Receiving /\ ~Returning' /\ ~Outside'
    BY <1>2 DEF Receiving, Returning, Outside
  <2> QED BY <1>2, <2>1, <2>2 DEF DInv, CallState, NothingKept
<1>8. Working(taken)' /\ Ahead(taken)'
  <2>1. \A q \in Threads : Undecoded(q)' = Undecoded(q)
    BY <1>2 DEF Undecoded
  <2> QED BY <1>1, <1>2, <1>4, <1>5, <2>1, WorkingStays
<1>9. Given(taken)'
  BY <1>1, <1>2, <1>4 DEF Given, Total
<1>10. Shows(taken)'
  <2>1. ~Returning /\ ~Returning' /\ ~Outside'
    BY <1>2 DEF Returning, Outside
  <2>2. Shown' = Shown
    BY <1>2, <2>1 DEF Shown, InHand
  <2> QED BY <1>1, <1>2, <1>4, <1>5, <2>1, <2>2, SameShown
<1>11. \E n \in Nat : Given(n)' /\ Working(n)' /\ Ahead(n)' /\ Shows(n)'
  BY <1>8, <1>9, <1>10
<1> QED BY <1>6, <1>7, <1>11 DEF Pipeline

LEMMA GetPacketShows ==
    ASSUME DInv, GetPacket, InCallFrame
    PROVE  Data' /\ CallState' /\ Pipeline'
<1>1. PICK taken \in Nat : Given(taken) /\ Working(taken) /\ Ahead(taken) /\ Shows(taken)
  BY DEF DInv, Pipeline
<1>2. /\ UNCHANGED <<codec, stream, turns, pc, state, thread, history, fctx, die, call>>
      /\ at = "loop" /\ ~Pending /\ at' \in {"relock", "submit"}
      /\ at' = "relock" => /\ internal.buffer_pkt = 0 /\ ~internal.draining_started
                           /\ user' = [user EXCEPT !.ret = AGAIN] /\ internal' = internal
                           /\ (call = "sync" => next_decoding = next_finished)
      /\ at' = "submit" => /\ user' = [user EXCEPT !.pkt = internal.buffer_pkt]
                           /\ internal.buffer_pkt = 0 => internal.draining_started
                           /\ internal' = [internal EXCEPT !.buffer_pkt = 0,
                                  !.draining = @ \/ internal.buffer_pkt = 0]
  BY DEF GetPacket, Go, With, InCallFrame, shared, InFlight, ReturnValue
<1> DEFINE F == Seq(FrameRecords)
           D == DOMAIN stream \cup {0}
           L == 0 .. Len(stream)
           b == internal.draining \/ internal.buffer_pkt = 0
<1>3. /\ user \in [pkt : D, ret : Int, frame : F] /\ 0 \in D /\ b \in BOOLEAN
      /\ internal \in [sent : L, buffer_pkt : D, buffer_frame : F, draining_started : BOOLEAN,
                       draining : BOOLEAN]
  BY DEF DInv, Data
<1>4. /\ user.frame = <<>> /\ internal.buffer_frame = <<>> /\ call \in ReceiveCalls
      /\ \A q \in Threads : thread[q].draining => internal.draining
      /\ internal.draining => internal.draining_started /\ internal.buffer_pkt = 0
      /\ die = {} /\ NothingKept
  BY <1>2 DEF DInv, CallState, Receiving, IInv, Turns, ReceiveCalls, Pending, NothingKept
<1> HIDE DEF F, D, L
<1>5. /\ user' \in [pkt : D, ret : Int, frame : F] /\ user'.frame = <<>>
      /\ internal' \in [sent : L, buffer_pkt : D, buffer_frame : F, draining_started : BOOLEAN,
                        draining : BOOLEAN]
      /\ internal'.buffer_frame = <<>> /\ internal'.draining_started = internal.draining_started
      /\ at' = "relock" => user'.ret = AGAIN
      /\ at' = "submit" => user'.pkt = internal.buffer_pkt /\ internal'.buffer_pkt = 0
                           /\ internal'.draining = b
  <2>1. CASE at' = "relock"
    BY <1>2, <1>3, <1>4, <2>1 DEF AGAIN
  <2>2. CASE at' = "submit"
    <3>1. /\ user' = [user EXCEPT !.pkt = internal.buffer_pkt]
          /\ internal' = [internal EXCEPT !.buffer_pkt = 0, !.draining = b]
      BY <1>2, <2>2
    <3>2. user' \in [pkt : D, ret : Int, frame : F] /\ user'.frame = <<>> /\ user'.pkt = internal.buffer_pkt
      BY <1>3, <1>4, <3>1
    <3> HIDE DEF b
    <3>3. /\ internal' \in [sent : L, buffer_pkt : D, buffer_frame : F, draining_started : BOOLEAN,
                            draining : BOOLEAN]
          /\ internal'.buffer_frame = <<>> /\ internal'.draining_started = internal.draining_started
          /\ internal'.buffer_pkt = 0 /\ internal'.draining = b
      BY <1>3, <1>4, <3>1
    <3> QED BY <2>2, <3>2, <3>3
  <2> QED BY <1>2, <2>1, <2>2
<1>6. Job' = Job
  BY <1>2 DEF Job
<1>7. OnTheWay' = OnTheWay /\ Given(taken)' /\ Working(taken)' /\ Ahead(taken)'
  <2>1. at # "wait" /\ at' # "wait" /\ (internal.draining => internal'.draining)
    BY <1>2, <1>5
  <2> QED BY <1>1, <1>2, <1>6, <2>1, RingStays
<1>8. Data'
  <2>1. IsJob(Job)'
    BY <1>6 DEF IsJob, DInv, Data
  <2> QED BY <2>1, <1>2, <1>5 DEF DInv, Data, F, D, L
<1>9. /\ (Returning' <=> at' = "relock") /\ ~Returning /\ ~Outside'
      /\ NothingKept' /\ Error(AGAIN) = <<>>
  BY <1>2, <1>4, ErrorIs DEF Returning, Outside, NothingKept
<1>10. CallState'
  <2>1. /\ internal'.draining => internal'.draining_started /\ internal'.buffer_pkt = 0
        /\ \A q \in Threads : thread'[q].draining => internal'.draining
        /\ at' = "submit" => (user'.pkt = 0 <=> internal'.draining)
        /\ at' = "relock" => internal'.buffer_pkt = 0 /\ ~internal'.draining
    BY <1>2, <1>4, <1>5
  <2> QED BY <1>2, <1>4, <1>5, <1>9, <2>1 DEF CallState, AGAIN, EOF
<1>11. Shows(taken)'
  <2>1. InHand = <<>> /\ InHand' = <<>>
    <3>1. <<>> \o <<>> = <<>>
      OBVIOUS
    <3> QED BY <1>5, <1>9, <3>1 DEF InHand
  <2>2. Shown' = Shown
    BY <1>2, <1>4, <1>5, <2>1 DEF Shown
  <2>3. Returning' /\ call' = "sync" => OnTheWay = 0
    <3>1. next_finished \in Threads /\ Gap(next_finished, next_finished) = 0
      BY GapFacts DEF DInv, IInv, TypeOK
    <3> QED BY <1>2, <1>9, <3>1 DEF OnTheWay
  <2>4. Returning' => user'.ret # EOF
    BY <1>5, <1>9 DEF EOF, AGAIN
  <2> QED BY <1>1, <1>2, <1>6, <1>7, <1>9, <2>2, <2>3, <2>4, SameShown
<1>12. \E n \in Nat : Given(n)' /\ Working(n)' /\ Ahead(n)' /\ Shows(n)'
  BY <1>7, <1>11
<1> QED BY <1>8, <1>10, <1>12 DEF Pipeline

\* A step of the user that only waits, or that comes after everything is parked.
LEMMA QuietShows ==
    ASSUME DInv, UNCHANGED <<codec, stream, turns, pc, state, thread, history, fctx, user, internal, call>>,
           \/ UNCHANGED <<at, u, die>>
           \/ /\ call \in {"flush", "close"} /\ at \in {"park", "relock", "die", "join"}
              /\ at' \in {"park", "relock", "die", "join", "closed"}
              /\ at' = "park" => at = "park"
              /\ die' # {} => at' \in {"die", "join", "closed"}
    PROVE  Data' /\ CallState' /\ Pipeline'
<1>1. PICK taken \in Nat : Given(taken) /\ Working(taken) /\ Ahead(taken) /\ Shows(taken)
  BY DEF DInv, Pipeline
<1>2. Data'
  BY DataStays DEF DInv
<1>3. Job' = Job
  BY DEF Job
<1>4. CASE UNCHANGED <<at, u, die>>
  <2>1. UNCHANGED caller /\ First' = First /\ OnTheWay' = OnTheWay
    BY <1>4 DEF First, OnTheWay, caller, turns
  <2>2. CallState'
    BY <1>4, <2>1, CallStateStays DEF DInv
  <2>3. \A q \in Threads : Undecoded(q)' = Undecoded(q)
    BY DEF Undecoded
  <2>4. Working(taken)' /\ Ahead(taken)'
    BY <1>1, <1>3, <2>1, <2>3, WorkingStays DEF turns
  <2>5. Shows(taken)' /\ Given(taken)'
    BY <1>1, <1>3, <2>1, ShowsStays, GivenStays
  <2>6. \E n \in Nat : Given(n)' /\ Working(n)' /\ Ahead(n)' /\ Shows(n)'
    BY <2>4, <2>5
  <2> QED BY <1>2, <2>2, <2>6 DEF Pipeline
<1>5. CASE /\ call \in {"flush", "close"} /\ at \in {"park", "relock", "die", "join"}
           /\ at' \in {"park", "relock", "die", "join", "closed"}
           /\ at' = "park" => at = "park"
           /\ die' # {} => at' \in {"die", "join", "closed"}
  <2>1. ~Returning /\ ~Returning' /\ ~Outside' /\ ~Receiving' /\ ReceiveCalls' = ReceiveCalls
    BY <1>5 DEF Returning, Outside, Receiving, ReceiveCalls
  <2>2. CallState'
    BY <1>5, <2>1 DEF DInv, CallState
  <2>3. OnTheWay' = OnTheWay /\ Given(taken)' /\ Working(taken)' /\ Ahead(taken)'
    BY <1>1, <1>3, <1>5, RingStays
  <2>4. Shows(taken)'
    <3>1. Shown' = Shown
      BY <2>1 DEF Shown, InHand
    <3> QED BY <1>1, <1>3, <2>1, <2>3, <3>1, SameShown
  <2>5. \E n \in Nat : Given(n)' /\ Working(n)' /\ Ahead(n)' /\ Shows(n)'
    BY <2>3, <2>4
  <2> QED BY <1>2, <2>2, <2>5 DEF Pipeline
<1> QED BY <1>4, <1>5

LEMMA QuietActionsShow ==
    ASSUME DInv, InCallFrame,
           SubmitAwaitsSetup \/ AwaitOutput \/ AwaitAsync \/ Park \/ Free \/ Die \/ Join
    PROVE  Data' /\ CallState' /\ Pipeline'
<1>1. UNCHANGED <<codec, stream, turns, pc, state, thread, history, fctx, user, internal, call>>
  BY DEF InCallFrame, shared, caller, SubmitAwaitsSetup, AwaitOutput, AwaitAsync, Park, Free, Die,
      Join, Relock, With, Go
<1>2. CASE SubmitAwaitsSetup \/ AwaitOutput \/ AwaitAsync
  <2>1. UNCHANGED <<at, u, die>>
    BY <1>2 DEF SubmitAwaitsSetup, AwaitOutput, AwaitAsync, caller
  <2> QED BY <1>1, <2>1, QuietShows
<1>3. CASE Park
  <2>1. at = "park" /\ at' \in {"park", "relock"} /\ die' = die
    BY <1>3 DEF Park, With, Go, shared
  <2>2. die = {} /\ call \in {"flush", "close"}
    BY <2>1 DEF DInv, CallState
  <2> QED BY <1>1, <2>1, <2>2, QuietShows
<1>4. CASE Free
  <2>1. call = "close" /\ at = "relock" /\ at' = "die" /\ die' = die
    BY <1>4 DEF Free, Relock, With
  <2> QED BY <1>1, <2>1, QuietShows DEF ReceiveCalls
<1>5. CASE Die
  <2>1. at = "die" /\ at' = "join" /\ call \in {"flush", "close"}
    BY <1>5 DEF Die, Go, DInv, CallState
  <2> QED BY <1>1, <2>1, QuietShows
<1>6. CASE Join
  <2>1. at = "join" /\ at' \in {"die", "closed"} /\ call \in {"flush", "close"} /\ die' = die
    BY <1>6 DEF Join, With, Go, shared, DInv, CallState
  <2> QED BY <1>1, <2>1, QuietShows
<1> QED BY <1>2, <1>3, <1>4, <1>5, <1>6

\* The thread that gets the packet has nothing before it, nor behind it.
LEMMA NextIsIdle ==
    ASSUME IInv, at \in {"submit", "copy"}
    PROVE  /\ u \in Threads /\ u = next_decoding /\ ~Busy(u) /\ Gap(First, u) = OnTheWay
           /\ \A q \in Threads : Gap(First, q) = OnTheWay => q = u
<1>1. u \in Threads /\ u = next_decoding /\ next_finished \in Threads
  BY DEF IInv, Turns, TypeOK
<1>2. First = next_finished /\ OnTheWay = Gap(next_finished, next_decoding)
  BY RingFacts
<1>3. Gap(next_finished, next_decoding) \in Int
  BY <1>1, GapFacts
<1>4. \A q \in Threads : Gap(next_finished, q) = Gap(next_finished, u) => q = u
  BY <1>1, GapSame
<1> QED BY <1>1, <1>2, <1>3, <1>4 DEF Busy

LEMMA SubmitPacketShows ==
    ASSUME DInv, SubmitPacket, InCallFrame
    PROVE  Data' /\ CallState' /\ Pipeline'
<1>1. PICK taken \in Nat : Given(taken) /\ Working(taken) /\ Ahead(taken) /\ Shows(taken)
  BY DEF DInv, Pipeline
<1> DEFINE pkt == user.pkt
           flag == thread[u].draining \/ pkt = 0
           C == Contexts
           F == Seq(FrameRecords)
           D == DOMAIN stream \cup {0}
           R == Nat \cup {EOF}
           T == [avpkt : Nat, draining : BOOLEAN, ref : Nat, ctx : C, df : F, result : R]
<1>2. /\ UNCHANGED <<codec, stream, turns, pc, state, history, internal, fctx, die, call, u>>
      /\ at = "submit" /\ at' \in {"copy", "relock"}
      /\ thread' = [thread EXCEPT ![u].avpkt = pkt, ![u].draining = flag]
      /\ at' = "copy" => user' = user
      /\ at' = "relock" => user' = [user EXCEPT !.ret = NOMEM]
  BY DEF SubmitPacket, Go, InCallFrame, shared, ReturnValue
<1>3. IInv /\ u \in Threads /\ ~Busy(u)
  BY <1>2, NextIsIdle DEF DInv
<1>4. /\ thread \in [Threads -> T] /\ pkt \in Nat /\ user \in [pkt : D, ret : Int, frame : F]
      /\ flag \in BOOLEAN
  <2>1. thread \in [Threads -> T] /\ user \in [pkt : D, ret : Int, frame : F]
    BY DEF DInv, Data
  <2>2. pkt \in D /\ stream \in Seq({"ok", "two", "bad", "torn"})
    BY <2>1 DEF DInv, Data, IsJob, Job
  <2>3. pkt \in Nat
    BY <2>2
  <2>4. flag \in BOOLEAN
    <3> HIDE DEF C, F, R, pkt
    <3> QED BY <1>3, <2>1
  <2> QED BY <2>1, <2>3, <2>4
<1> HIDE DEF C, F, D, R, flag
<1>5. /\ user' \in [pkt : D, ret : Int, frame : F] /\ user'.pkt = pkt /\ user'.frame = user.frame
      /\ at' = "relock" => user'.ret = NOMEM
      /\ at' = "copy" => user'.ret = user.ret
  <2>1. NOMEM \in Int
    BY DEF NOMEM
  <2>2. CASE at' = "copy"
    BY <1>2, <1>4, <2>2
  <2>3. CASE at' = "relock"
    BY <1>2, <1>4, <2>1, <2>3
  <2> QED BY <1>2, <2>2, <2>3
<1>6. /\ \A q \in Threads : /\ thread'[q] \in T /\ thread'[q].ctx = thread[q].ctx
                            /\ thread'[q].df = thread[q].df /\ thread'[q].result = thread[q].result
                            /\ q # u => thread'[q] = thread[q]
      /\ thread' \in [Threads -> T]
      /\ thread'[u].avpkt = pkt /\ (thread'[u].draining <=> flag)
  <2> HIDE DEF pkt
  <2>1. /\ thread[u] \in T /\ thread'[u] = [thread[u] EXCEPT !.avpkt = pkt, !.draining = flag]
        /\ \A q \in Threads : q # u => thread'[q] = thread[q]
        /\ thread' = [q \in Threads |-> thread'[q]]
    BY <1>2, <1>3, <1>4
  <2> DEFINE x == thread[u]
             y == thread'[u]
  <2>2. x \in T /\ y = [x EXCEPT !.avpkt = pkt, !.draining = flag]
    BY <2>1
  <2> HIDE DEF x, y
  <2>3. /\ y \in T /\ y.ctx = x.ctx /\ y.df = x.df /\ y.result = x.result
        /\ y.avpkt = pkt /\ (y.draining <=> flag)
    BY <1>4, <2>2
  <2>4. \A q \in Threads : thread'[q] \in T
    BY <1>4, <2>1, <2>3 DEF y
  <2>5. thread' \in [Threads -> T]
    <3>1. thread' = [q \in Threads |-> thread'[q]]
      BY <2>1
    <3> HIDE DEF T
    <3> QED BY <2>4, <3>1
  <2> QED BY <2>1, <2>3, <2>4, <2>5 DEF x, y
<1>7. /\ user.frame = <<>> /\ internal.buffer_frame = <<>> /\ call \in ReceiveCalls
      /\ \A q \in Threads : thread[q].draining => internal.draining
      /\ internal.draining => internal.draining_started /\ internal.buffer_pkt = 0
      /\ die = {} /\ NothingKept /\ (pkt = 0 <=> internal.draining)
  BY <1>2 DEF DInv, CallState, Receiving, IInv, Turns, ReceiveCalls
<1>8. Job' = Job
  BY <1>2 DEF Job
<1>9. First' = First /\ OnTheWay' = OnTheWay
  BY <1>2 DEF First, OnTheWay, turns
<1>10. Data'
  <2>1. IsJob(Job)'
    BY <1>8 DEF IsJob, DInv, Data
  <2> QED BY <2>1, <1>2, <1>5, <1>6 DEF DInv, Data, F, D, C, R
<1>11. /\ (Returning' <=> at' = "relock") /\ ~Returning /\ ~Outside'
       /\ NothingKept'
  BY <1>2, <1>7 DEF Returning, Outside, NothingKept
<1>12. CallState'
  <2>1. \A q \in Threads : thread'[q].draining => internal'.draining
    <3>1. flag => internal.draining
      BY <1>3, <1>7 DEF flag
    <3> QED BY <1>2, <1>6, <1>7, <3>1
  <2>2. at' = "copy" => /\ thread'[u'].avpkt = user'.pkt
                        /\ (thread'[u'].draining <=> user'.pkt = 0)
                        /\ (user'.pkt = 0 <=> internal'.draining)
    <3>1. flag <=> pkt = 0
      BY <1>3, <1>7 DEF flag
    <3> QED BY <1>2, <1>5, <1>6, <1>7, <3>1
  <2>3. at' = "relock" => user'.ret \notin {EOF, AGAIN}
    BY <1>5 DEF EOF, AGAIN, NOMEM
  <2>4. user'.frame = <<>> /\ internal' = internal /\ die' = {}
    BY <1>2, <1>5, <1>7
  <2> QED BY <1>2, <1>7, <1>11, <2>1, <2>2, <2>3, <2>4 DEF CallState
<1>13. Working(taken)'
  <2>1. ASSUME NEW q \in Threads
        PROVE  IF ~Busy(q)' THEN thread'[q].df = <<>> /\ thread'[q].result = 0
               ELSE IF Undecoded(q)' THEN ToDecode(Job', thread'[q], Place(taken, q)')
               ELSE HasDecoded(Job', thread'[q], Place(taken, q)')
    <3>1. Busy(q)' = Busy(q) /\ Place(taken, q)' = Place(taken, q) /\ Undecoded(q)' = Undecoded(q)
      BY <1>2, <1>9 DEF Busy, Place, Undecoded
    <3>2. CASE q = u
      BY <1>1, <1>3, <1>6, <3>1, <3>2 DEF Working
    <3>3. CASE q # u
      BY <1>1, <1>6, <1>8, <3>1, <3>3 DEF Working
    <3> QED BY <3>2, <3>3
  <2> QED BY <2>1 DEF Working
<1>14. Ahead(taken)'
  <2>1. Total(taken)' = Total(taken)
    BY <1>9 DEF Total
  <2>2. prev_thread' = prev_thread /\ next_decoding' = next_decoding /\ codec' = codec
        /\ UNCHANGED <<pc, state>>
    BY <1>2 DEF turns
  <2>3. prev_thread \in Threads => thread'[prev_thread].ctx = thread[prev_thread].ctx
    BY <1>6
  <2>4. 1 \in Threads /\ thread'[1].ctx = thread[1].ctx
    BY <1>6, SomeThreads DEF Threads
  <2>5. codec.delay = 0 => \A q \in Threads : thread'[q].ctx.delayed = <<>>
    BY <1>1, <1>6 DEF Ahead
  <2> QED BY <1>1, <1>8, <2>1, <2>2, <2>3, <2>4, <2>5 DEF Ahead, Undecoded
<1>15. Given(taken)'
  BY <1>1, <1>2, <1>9 DEF Given, Total
<1>16. Shows(taken)'
  <2>1. InHand = <<>> /\ InHand' = <<>>
    <3>1. <<>> \o <<>> = <<>>
      OBVIOUS
    <3>2. Returning' => user'.frame = <<>> /\ Error(user'.ret) = <<>>
      BY <1>5, <1>7, <1>11, ErrorIs
    <3> QED BY <1>11, <3>1, <3>2 DEF InHand
  <2>2. Shown' = Shown
    BY <1>2, <2>1 DEF Shown
  <2>3. Returning' => user'.ret # EOF /\ user'.ret # AGAIN
    BY <1>5, <1>11 DEF EOF, AGAIN, NOMEM
  <2> QED BY <1>1, <1>2, <1>8, <1>9, <1>11, <2>2, <2>3, SameShown
<1>17. \E n \in Nat : Given(n)' /\ Working(n)' /\ Ahead(n)' /\ Shows(n)'
  BY <1>13, <1>14, <1>15, <1>16
<1> QED BY <1>10, <1>12, <1>17 DEF Pipeline

LEMMA CopyFailsShows ==
    ASSUME DInv, CopyFails, InCallFrame
    PROVE  Data' /\ CallState' /\ Pipeline'
<1>1. PICK taken \in Nat : Given(taken) /\ Working(taken) /\ Ahead(taken) /\ Shows(taken)
  BY DEF DInv, Pipeline
<1>2. /\ UNCHANGED <<codec, stream, turns, pc, state, thread, history, internal, fctx, die, call, u>>
      /\ at = "copy" /\ at' = "relock" /\ user' = [user EXCEPT !.ret = NOMEM]
  BY DEF CopyFails, CanCopy, Go, InCallFrame, shared, ReturnValue
<1> DEFINE F == Seq(FrameRecords)
           D == DOMAIN stream \cup {0}
<1>3. user \in [pkt : D, ret : Int, frame : F]
  BY DEF DInv, Data
<1> HIDE DEF F, D
<1>4. user' \in [pkt : D, ret : Int, frame : F] /\ user'.ret = NOMEM /\ user'.frame = user.frame
  BY <1>2, <1>3 DEF NOMEM
<1>5. /\ user.frame = <<>> /\ internal.buffer_frame = <<>> /\ call \in ReceiveCalls
      /\ \A q \in Threads : thread[q].draining => internal.draining
      /\ internal.draining => internal.draining_started /\ internal.buffer_pkt = 0
      /\ die = {} /\ NothingKept
  BY <1>2 DEF DInv, CallState, Receiving, IInv, Turns, ReceiveCalls
<1>6. Job' = Job
  BY <1>2 DEF Job
<1>7. OnTheWay' = OnTheWay /\ Given(taken)' /\ Working(taken)' /\ Ahead(taken)'
  BY <1>1, <1>2, <1>6, RingStays
<1>8. Data'
  <2>1. IsJob(Job)'
    BY <1>6 DEF IsJob, DInv, Data
  <2> QED BY <2>1, <1>2, <1>4 DEF DInv, Data, F, D
<1>9. Returning' /\ ~Returning /\ ~Outside' /\ ~Receiving' /\ NothingKept'
  BY <1>2, <1>5 DEF Returning, Outside, Receiving, NothingKept
<1>10. CallState'
  <2>1. user'.ret \notin {EOF, AGAIN}
    BY <1>4 DEF EOF, AGAIN, NOMEM
  <2> QED BY <1>2, <1>4, <1>5, <1>9, <2>1 DEF CallState
<1>11. Shows(taken)'
  <2>1. InHand = <<>> /\ InHand' = <<>>
    <3>1. <<>> \o <<>> = <<>>
      OBVIOUS
    <3> QED BY <1>4, <1>5, <1>9, <3>1, ErrorIs DEF InHand
  <2>2. Shown' = Shown
    BY <1>2, <2>1 DEF Shown
  <2>3. user'.ret # EOF /\ user'.ret # AGAIN
    BY <1>4 DEF EOF, AGAIN, NOMEM
  <2> QED BY <1>1, <1>2, <1>6, <1>7, <2>2, <2>3, SameShown
<1>12. \E n \in Nat : Given(n)' /\ Working(n)' /\ Ahead(n)' /\ Shows(n)'
  BY <1>7, <1>11
<1> QED BY <1>8, <1>10, <1>12 DEF Pipeline

\* With one more submission the job is the same for those before.
LEMMA JobGoesOn ==
    ASSUME NEW j, IsJob(j), NEW k, NEW n \in DOMAIN j.stream \cup {0}, NEW total \in Nat,
           Len(j.fed) <= total, n # 0 => total = Len(j.fed),
           k.codec = j.codec, k.stream = j.stream, k.start = j.start,
           k.fed = IF n = 0 THEN j.fed ELSE Append(j.fed, n),
           n = 0 => k = j
    PROVE  /\ IsJob(k) /\ Len(k.fed) = Len(j.fed) + (IF n = 0 THEN 0 ELSE 1)
           /\ n # 0 => k.fed[total + 1] = n
           /\ \A o \in 0 .. total : /\ ContextAt(k, o) = ContextAt(j, o)
                                    /\ OutAt(k, o) = OutAt(j, o)
                                    /\ \A c, d : Like(j, c, d, o) => Like(k, c, d, o)
           /\ \A o \in 1 .. total : /\ ResultAt(k, o) = ResultAt(j, o)
                                    /\ \A t : ToDecode(j, t, o) => ToDecode(k, t, o)
<1>1. Len(j.fed) \in Nat
  BY DEF IsJob
<1>2. CASE n = 0
  BY <1>1, <1>2
<1>3. CASE n # 0
  <2>1. n \in DOMAIN j.stream /\ k.fed = Append(j.fed, n) /\ total = Len(j.fed)
    BY <1>3
  <2>2. /\ IsJob(k) /\ Len(k.fed) = Len(j.fed) + 1 /\ k.fed[Len(k.fed)] = n
        /\ \A o \in 0 .. Len(j.fed) : ContextAt(k, o) = ContextAt(j, o) /\ OutAt(k, o) = OutAt(j, o)
        /\ \A o \in 1 .. Len(j.fed) : k.fed[o] = j.fed[o] /\ ResultAt(k, o) = ResultAt(j, o)
    BY <2>1, JobLonger
  <2>3. \A o \in 0 .. total : o <= Len(j.fed) /\ o <= Len(k.fed)
    BY <1>1, <2>1, <2>2
  <2>4. \A o \in 0 .. total : \A c, d : Like(j, c, d, o) => Like(k, c, d, o)
    BY <2>3 DEF Like
  <2>5. \A o \in 1 .. total : \A t : ToDecode(j, t, o) => ToDecode(k, t, o)
    <3> SUFFICES ASSUME NEW o \in 1 .. total, NEW t, ToDecode(j, t, o)
                 PROVE  ToDecode(k, t, o)
      OBVIOUS
    <3>1. o - 1 \in 0 .. total /\ o \in 0 .. total /\ o - 1 \in 0 .. Len(j.fed) /\ o \in 1 .. Len(j.fed)
      BY <1>1, <2>1
    <3>2. ContextAt(k, o - 1) = ContextAt(j, o - 1) /\ k.fed[o] = j.fed[o]
      BY <2>2, <3>1
    <3>3. ~t.draining /\ t.avpkt = j.fed[o] /\ t.df = <<>> /\ t.result = 0
          /\ Like(j, t.ctx, ContextAt(j, o - 1), o)
      BY <2>3, <3>1 DEF ToDecode
    <3>4. Like(k, t.ctx, ContextAt(j, o - 1), o)
      BY <2>4, <3>1, <3>3
    <3> QED BY <2>3, <3>1, <3>2, <3>3, <3>4 DEF ToDecode
  <2> QED BY <1>3, <2>1, <2>2, <2>4, <2>5
<1> QED BY <1>2, <1>3

\* The ring with one more at work.
LEMMA RingGrows ==
    ASSUME DInv, at = "copy", next_decoding' = Successor(next_decoding),
           \/ at' = "loop" /\ next_finished' = next_finished /\ next_decoding' # next_finished
           \/ at' = "wait" /\ u' = next_finished /\ next_finished' = Successor(next_finished)
    PROVE  First' = First /\ OnTheWay' = OnTheWay + 1
<1>1. next_decoding \in Threads /\ next_finished \in Threads
  BY DEF DInv, IInv, TypeOK
<1>2. First = next_finished /\ OnTheWay = Gap(next_finished, next_decoding)
  BY RingFacts DEF DInv
<1>3. CASE at' = "loop"
  <2>1. First' = next_finished /\ OnTheWay' = Gap(next_finished, Successor(next_decoding))
        /\ Successor(next_decoding) # next_finished
    <3>1. Gap(next_finished, Successor(next_decoding)) \in Int
      BY <1>1, GapFacts
    <3> QED BY <1>3, <3>1 DEF First, OnTheWay
  <2> QED BY <1>1, <1>2, <2>1, GapFacts
<1>4. CASE at' = "wait"
  <2>1. First' = next_finished /\ OnTheWay' = Gap(Successor(next_finished), Successor(next_decoding)) + 1
    BY <1>4 DEF First, OnTheWay
  <2>2. Gap(Successor(next_finished), Successor(next_decoding)) = Gap(next_finished, next_decoding)
    BY <1>1, SomeThreads DEF Gap, Successor, Threads
  <2> QED BY <1>2, <2>1, <2>2
<1> QED BY <1>3, <1>4

\* What the thread has before it is decoded from where the one before is.
LEMMA GoesOnFrom ==
    ASSUME DInv, NEW taken \in Nat, Given(taken), Working(taken), Ahead(taken),
           at = "copy", prev_thread # 0 => SetUp(prev_thread),
           NEW k, IsJob(k), k.codec = codec, NEW c,
           c = IF Updates THEN thread[prev_thread].ctx ELSE thread[u].ctx,
           user.pkt # 0 => Total(taken) = Len(Job.fed) /\ Len(k.fed) = Len(Job.fed) + 1,
           user.pkt = 0 => k = Job /\ Total(taken) >= Len(Job.fed),
           ContextAt(k, Total(taken)) = ContextAt(Job, Total(taken)),
           Total(taken) \in Nat
    PROVE  Like(k, c, ContextAt(k, Total(taken)), Total(taken) + 1)
<1> DEFINE total == Total(taken)
           a == ContextAt(Job, total)
<1>1. IsJob(Job) /\ Job.codec = codec /\ Len(Job.fed) \in Nat
  BY DEF DInv, Data, Job, IsJob
<1>2. codec.delay \in Nat /\ codec.update \in BOOLEAN /\ (codec.delay > 0 => codec.update)
  BY <1>1 DEF IsJob
<1>3. u \in Threads /\ u = next_decoding /\ IInv
  BY NextIsIdle DEF DInv
<1>4. thread[u].draining <=> user.pkt = 0
  BY DEF DInv, CallState
<1>5. a.delayed = <<>> \/ codec.delay # 0
  BY <1>1, ContextTyped
<1>6. Updates <=> /\ prev_thread # 0 /\ codec.update
                  /\ user.pkt # 0 \/ codec.delay > 0
  BY <1>4 DEF Updates, CapDelay
<1>7. \A p \in Threads : codec.delay = 0 => thread[p].ctx.delayed = <<>>
  BY DEF Ahead
<1>8. /\ c.delayed = a.delayed
      /\ codec.update /\ (user.pkt # 0 \/ codec.delay > 0) => c.seen = a.seen
  <2>1. CASE total = 0
    <3>1. prev_thread = 0 /\ u = 1 /\ Like(Job, thread[1].ctx, ContextAt(Job, 0), 0)
      BY <1>3, <2>1 DEF Ahead
    <3>2. c = thread[1].ctx
      BY <1>6, <3>1
    <3> QED BY <1>1, <2>1, <3>1, <3>2 DEF Like
  <2>2. CASE total # 0
    <3>1. prev_thread \in Threads
      BY <2>2 DEF Ahead
    <3>2. prev_thread # 0
      BY <3>1 DEF Threads
    <3>3. codec.update => ~Undecoded(prev_thread)
      BY <1>3, <3>1, <3>2 DEF SetUp, IInv, Stages, Undecoded
    <3>4. codec.update => Like(Job, thread[prev_thread].ctx, a, total)
      BY <2>2, <3>3 DEF Ahead
    <3>5. CASE Updates
      <4>1. c = thread[prev_thread].ctx
        BY <3>5
      <4>2. user.pkt # 0 => total <= Len(Job.fed)
        BY <1>1
      <4> HIDE DEF total, a
      <4> QED BY <1>1, <1>6, <3>4, <3>5, <4>1, <4>2 DEF Like
    <3>6. CASE ~Updates
      <4>1. c = thread[u].ctx /\ ~(codec.update /\ (user.pkt # 0 \/ codec.delay > 0))
        BY <1>6, <3>2, <3>6
      <4>2. codec.delay = 0
        BY <1>2, <4>1
      <4> QED BY <1>3, <1>5, <1>7, <4>1, <4>2
    <3> QED BY <3>5, <3>6
  <2> QED BY <2>1, <2>2
<1>9. user.pkt = 0 => ~(total + 1 <= Len(k.fed))
  BY <1>1
<1> HIDE DEF total
<1> QED BY <1>8, <1>9 DEF Like, a, total

LEMMA SubmitShows ==
    ASSUME DInv, Submit, InCallFrame
    PROVE  Data' /\ CallState' /\ Pipeline'
<1>1. PICK taken \in Nat : Given(taken) /\ Working(taken) /\ Ahead(taken) /\ Shows(taken)
  BY DEF DInv, Pipeline
<1> DEFINE pkt == user.pkt
           total == Total(taken)
           k == Job'
           c == IF Updates THEN thread[prev_thread].ctx ELSE thread[u].ctx
           C == Contexts
           F == Seq(FrameRecords)
           P == Seq(DOMAIN stream)
           R == Nat \cup {EOF}
           T == [avpkt : Nat, draining : BOOLEAN, ref : Nat, ctx : C, df : F, result : R]
<1>2. /\ UNCHANGED <<codec, stream, pc, user, internal, fctx, die, call>> /\ at = "copy"
      /\ prev_thread # 0 => SetUp(prev_thread)
      /\ thread' = [thread EXCEPT ![u].ctx = c] \/ (thread' = thread /\ ~Updates)
      /\ state' = [state EXCEPT ![u] = "SETTING_UP"]
      /\ prev_thread' = u /\ next_decoding' = Successor(next_decoding)
      /\ \/ at' = "loop" /\ next_finished' = next_finished /\ next_decoding' # next_finished
         \/ at' = "wait" /\ u' = next_finished /\ next_finished' = Successor(next_finished)
      /\ history' = IF pkt = 0 THEN history ELSE [history EXCEPT !.fed = Append(@, pkt)]
  BY DEF Submit, CanCopy, Updated, Go, With, InCallFrame
<1>3. /\ IInv /\ u \in Threads /\ u = next_decoding /\ ~Busy(u) /\ Gap(First, u) = OnTheWay
      /\ pc[u] = "input"
      /\ \A q \in Threads : Gap(First, q) = OnTheWay => q = u
  BY <1>2, NextIsIdle DEF DInv, IInv, Turns
<1>4. First' = First /\ OnTheWay' = OnTheWay + 1
  BY <1>2, RingGrows
<1>5. First \in Threads /\ OnTheWay \in 0 .. thread_count /\ OnTheWay \in Nat /\ total \in Nat
  <2>1. First \in Threads /\ OnTheWay \in 0 .. thread_count
    BY <1>2, <1>3, RingFacts
  <2> QED BY <2>1, SomeThreads DEF Total
<1>6. /\ thread \in [Threads -> T] /\ pkt \in DOMAIN stream \cup {0} /\ IsJob(Job)
      /\ history \in [start : C, fed : P, returned : F]
  BY DEF DInv, Data
<1>7. /\ user.frame = <<>> /\ internal.buffer_frame = <<>> /\ call \in ReceiveCalls
      /\ \A q \in Threads : thread[q].draining => internal.draining
      /\ internal.draining => internal.draining_started /\ internal.buffer_pkt = 0
      /\ die = {} /\ NothingKept /\ (pkt = 0 <=> internal.draining)
      /\ thread[u].avpkt = pkt /\ (thread[u].draining <=> pkt = 0)
  BY <1>2 DEF DInv, CallState, Receiving, IInv, Turns, ReceiveCalls
<1>8. prev_thread # 0 => prev_thread \in Threads
  BY <1>3 DEF IInv, TypeOK
<1>9. c \in C
  <2>1. \A q \in Threads : thread[q].ctx \in C
    BY <1>6
  <2> QED BY <1>3, <1>8, <2>1 DEF Updates
<1> HIDE DEF C, F, R, P
<1>10. /\ \A q \in Threads : /\ thread'[q] \in T
                             /\ thread'[q].df = thread[q].df /\ thread'[q].result = thread[q].result
                             /\ thread'[q].avpkt = thread[q].avpkt
                             /\ thread'[q].draining = thread[q].draining
                             /\ q # u => thread'[q] = thread[q]
       /\ thread' \in [Threads -> T] /\ thread'[u].ctx = c
  <2>1. CASE thread' = thread /\ ~Updates
    BY <1>3, <1>6, <2>1
  <2>2. CASE thread' = [thread EXCEPT ![u].ctx = c]
    <3> HIDE DEF c
    <3>1. /\ thread[u] \in T /\ thread'[u] = [thread[u] EXCEPT !.ctx = c]
          /\ \A q \in Threads : q # u => thread'[q] = thread[q]
          /\ thread' = [q \in Threads |-> thread'[q]]
      BY <1>3, <1>6, <2>2
    <3> DEFINE x == thread[u]
               y == thread'[u]
    <3>2. x \in T /\ y = [x EXCEPT !.ctx = c]
      BY <3>1
    <3> HIDE DEF x, y
    <3>3. /\ y \in T /\ y.ctx = c /\ y.df = x.df /\ y.result = x.result
          /\ y.avpkt = x.avpkt /\ y.draining = x.draining
      BY <1>9, <3>2
    <3>4. \A q \in Threads : thread'[q] \in T
      BY <1>6, <3>1, <3>3 DEF y
    <3>5. thread' \in [Threads -> T]
      <4>1. thread' = [q \in Threads |-> thread'[q]]
        BY <3>1
      <4> HIDE DEF T
      <4> QED BY <3>4, <4>1
    <3> QED BY <3>1, <3>3, <3>4, <3>5 DEF x, y
  <2> QED BY <1>2, <2>1, <2>2
<1>11. /\ k.codec = codec /\ k.stream = stream /\ k.start = history.start
       /\ k.fed = IF pkt = 0 THEN history.fed ELSE Append(history.fed, pkt)
       /\ pkt = 0 => k = Job
       /\ history' \in [start : C, fed : P, returned : F]
       /\ history'.returned = history.returned /\ history'.fed = k.fed
  <2>1. k = [codec |-> codec, stream |-> stream, start |-> history'.start, fed |-> history'.fed]
    BY <1>2 DEF Job
  <2>2. CASE pkt = 0
    BY <1>2, <1>6, <2>1, <2>2 DEF Job
  <2>3. CASE pkt # 0
    <3> DEFINE x == Append(history.fed, pkt)
    <3>1. x \in P
      <4>1. history.fed \in P /\ pkt \in DOMAIN stream
        BY <1>6, <2>3
      <4> HIDE DEF pkt
      <4> QED BY <4>1, AppendIs DEF P
    <3>2. history' = [history EXCEPT !.fed = x]
      BY <1>2, <2>3
    <3> HIDE DEF x
    <3>3. /\ history' \in [start : C, fed : P, returned : F]
          /\ history'.start = history.start /\ history'.fed = x /\ history'.returned = history.returned
      BY <1>6, <3>1, <3>2
    <3> HIDE DEF k
    <3> QED BY <2>1, <2>3, <3>3 DEF x
  <2> QED BY <2>2, <2>3
<1>12. Len(Job.fed) <= total /\ (pkt # 0 => total = Len(Job.fed)) /\ Len(Job.fed) \in Nat
  <2>1. Job.fed = history.fed
    BY DEF Job
  <2> QED BY <1>1, <1>6, <1>7, <2>1 DEF Given, IsJob
<1>13. /\ IsJob(k) /\ Len(k.fed) = Len(Job.fed) + (IF pkt = 0 THEN 0 ELSE 1)
       /\ pkt # 0 => k.fed[total + 1] = pkt
       /\ \A o \in 0 .. total : /\ ContextAt(k, o) = ContextAt(Job, o)
                                /\ OutAt(k, o) = OutAt(Job, o)
                                /\ \A a, b : Like(Job, a, b, o) => Like(k, a, b, o)
       /\ \A o \in 1 .. total : /\ ResultAt(k, o) = ResultAt(Job, o)
                                /\ \A t : ToDecode(Job, t, o) => ToDecode(k, t, o)
  <2>1. /\ Job.codec = codec /\ Job.stream = stream /\ Job.start = history.start
        /\ Job.fed = history.fed
    BY DEF Job
  <2> HIDE DEF k, pkt, total
  <2>2. /\ k.codec = Job.codec /\ k.stream = Job.stream /\ k.start = Job.start
        /\ k.fed = (IF pkt = 0 THEN Job.fed ELSE Append(Job.fed, pkt))
        /\ pkt \in DOMAIN Job.stream \cup {0}
    BY <1>6, <1>11, <2>1
  <2> QED BY <1>5, <1>6, <1>11, <1>12, <2>2, JobGoesOn
<1>13a. /\ Len(k.fed) \in Nat /\ Len(k.fed) <= total + 1
        /\ pkt = 0 => Len(k.fed) <= total
        /\ pkt # 0 => Len(k.fed) = total + 1
  <2> DEFINE l == Len(Job.fed)
             m == Len(k.fed)
  <2> HIDE DEF k, pkt, total
  <2>1. m = l + (IF pkt = 0 THEN 0 ELSE 1)
    BY <1>13
  <2>2. l \in Nat /\ l <= total /\ (pkt # 0 => total = l) /\ total \in Nat
    BY <1>5, <1>12
  <2> HIDE DEF l, m
  <2>3. m \in Nat /\ m <= total + 1 /\ (pkt = 0 => m <= total) /\ (pkt # 0 => m = total + 1)
    BY <2>1, <2>2
  <2> QED BY <2>3 DEF m
<1>14. Data'
  <2>1. IsJob(Job)'
    BY <1>13 DEF IsJob
  <2> QED BY <2>1, <1>2, <1>10, <1>11 DEF DInv, Data, F, C, P, R
<1>15. Receiving' /\ Receiving /\ ~Returning /\ ~Returning' /\ ~Outside'
  BY <1>2 DEF Returning, Outside, Receiving
<1>16. CallState'
  <2>1. \A q \in Threads : thread'[q].draining => internal'.draining
    BY <1>2, <1>7, <1>10
  <2> QED BY <1>2, <1>7, <1>15, <2>1 DEF CallState, NothingKept
<1>17. ToDecode(k, thread'[u], total + 1)
  <2>1. Like(k, c, ContextAt(k, total), total + 1)
    <3>1. ContextAt(k, total) = ContextAt(Job, total)
      BY <1>5, <1>13
    <3> HIDE DEF k
    <3> QED BY <1>1, <1>2, <1>5, <1>11, <1>12, <1>13, <3>1, GoesOnFrom
  <2>2. thread'[u].df = <<>> /\ thread'[u].result = 0
    BY <1>1, <1>3, <1>10 DEF Working
  <2>3. /\ pkt = 0 => ~(total + 1 <= Len(k.fed)) /\ thread'[u].draining
        /\ pkt # 0 => /\ total + 1 <= Len(k.fed) /\ ~thread'[u].draining
                      /\ thread'[u].avpkt = k.fed[total + 1]
    <3>1. pkt # 0 => k.fed[total + 1] = pkt
      BY <1>13
    <3>2. thread'[u].avpkt = pkt /\ (thread'[u].draining <=> pkt = 0)
      BY <1>3, <1>7, <1>10
    <3> DEFINE m == Len(k.fed)
    <3>3. m \in Nat /\ m <= total + 1 /\ (pkt = 0 => m <= total) /\ (pkt # 0 => m = total + 1)
          /\ total \in Nat
      BY <1>5, <1>13a
    <3> HIDE DEF k, pkt, total, m
    <3>4. /\ pkt = 0 => ~(total + 1 <= m)
          /\ pkt # 0 => total + 1 <= m
      BY <3>3
    <3> QED BY <3>1, <3>2, <3>4 DEF m
  <2> DEFINE o == total + 1
  <2>4. /\ o - 1 = total /\ Like(k, c, ContextAt(k, o - 1), o)
        /\ pkt = 0 => ~(o <= Len(k.fed)) /\ thread'[u].draining
        /\ pkt # 0 => o <= Len(k.fed) /\ ~thread'[u].draining /\ thread'[u].avpkt = k.fed[o]
    BY <1>5, <2>1, <2>3
  <2> HIDE DEF k, c, pkt, o
  <2>5. ToDecode(k, thread'[u], o)
    BY <1>10, <2>2, <2>4 DEF ToDecode
  <2> QED BY <2>5 DEF o
<1>18. \A q \in Threads : /\ Busy(q)' <=> Busy(q) \/ q = u
                          /\ Place(taken, q)' = Place(taken, q)
                          /\ Busy(q) => Place(taken, q) \in 1 .. total
  <2> SUFFICES ASSUME NEW q \in Threads
               PROVE  /\ Busy(q)' <=> Busy(q) \/ q = u
                      /\ Place(taken, q)' = Place(taken, q)
                      /\ Busy(q) => Place(taken, q) \in 1 .. total
    OBVIOUS
  <2>1. Gap(First, q) \in Nat
    <3>1. Gap(First, q) \in 0 .. thread_count - 1
      BY <1>5, GapFacts
    <3> QED BY <3>1, SomeThreads
  <2>2. Busy(q)' <=> Gap(First, q) < OnTheWay + 1
    BY <1>4 DEF Busy
  <2>3. Busy(q)' <=> Busy(q) \/ Gap(First, q) = OnTheWay
    BY <1>5, <2>1, <2>2 DEF Busy
  <2>4. Place(taken, q)' = Place(taken, q)
    BY <1>4 DEF Place
  <2>5. Busy(q) => Place(taken, q) \in 1 .. total
    BY <1>5, <2>1 DEF Busy, Place, Total
  <2> QED BY <1>3, <2>3, <2>4, <2>5
<1>19. \A q \in Threads : Undecoded(q)' <=> Undecoded(q) \/ q = u
  <2>1. state \in [Threads -> States]
    BY <1>3 DEF IInv, TypeOK
  <2> QED BY <1>2, <1>3, <2>1 DEF Undecoded
<1>20. Working(taken)'
  <2>1. ASSUME NEW q \in Threads
        PROVE  IF ~Busy(q)' THEN thread'[q].df = <<>> /\ thread'[q].result = 0
               ELSE IF Undecoded(q)' THEN ToDecode(k, thread'[q], Place(taken, q)')
               ELSE HasDecoded(k, thread'[q], Place(taken, q)')
    <3> HIDE DEF k, total
    <3>1. CASE q = u
      <4>1. Place(taken, u) = total + 1
        BY <1>3, <1>5 DEF Place, Total, total
      <4> QED BY <1>17, <1>18, <1>19, <3>1, <4>1
    <3>2. CASE q # u /\ ~Busy(q)
      BY <1>1, <1>10, <1>18, <3>2 DEF Working
    <3>3. CASE q # u /\ Busy(q)
      <4>1. thread'[q] = thread[q] /\ Place(taken, q) \in 1 .. total
            /\ Place(taken, q)' = Place(taken, q) /\ Busy(q)' /\ (Undecoded(q)' <=> Undecoded(q))
        BY <1>10, <1>18, <1>19, <3>3
      <4>2. IF Undecoded(q) THEN ToDecode(Job, thread[q], Place(taken, q))
            ELSE HasDecoded(Job, thread[q], Place(taken, q))
        BY <1>1, <3>3 DEF Working
      <4>3. ResultAt(k, Place(taken, q)) = ResultAt(Job, Place(taken, q))
            /\ \A t : ToDecode(Job, t, Place(taken, q)) => ToDecode(k, t, Place(taken, q))
        BY <1>13, <4>1
      <4> QED BY <4>1, <4>2, <4>3 DEF HasDecoded
    <3> QED BY <3>1, <3>2, <3>3
  <2> QED BY <2>1 DEF Working
<1>21. Total(taken)' = total + 1
  BY <1>4, <1>5 DEF Total
<1>22. Ahead(taken)'
  <2>1. Undecoded(prev_thread)'
    BY <1>2, <1>3 DEF Undecoded, IInv, TypeOK
  <2>2. next_decoding' = Successor(prev_thread') /\ prev_thread' \in Threads
    BY <1>2, <1>3
  <2>3. codec.delay = 0 => \A q \in Threads : thread'[q].ctx.delayed = <<>>
    <3>1. codec.delay = 0 => \A q \in Threads : thread[q].ctx.delayed = <<>>
      BY <1>1 DEF Ahead
    <3>2. codec.delay = 0 => c.delayed = <<>>
      BY <1>3, <1>8, <3>1 DEF Updates
    <3> HIDE DEF c
    <3> QED BY <1>10, <3>1, <3>2
  <2>4. Total(taken)' > 0 /\ Total(taken)' # 0
    BY <1>5, <1>21
  <2> QED BY <1>2, <2>1, <2>2, <2>3, <2>4 DEF Ahead
<1>23. Given(taken)'
  <2>1. Len(history'.fed) <= total + 1 /\ (pkt # 0 => total + 1 = Len(history'.fed))
    BY <1>11, <1>13a
  <2>2. ~internal'.draining => pkt # 0
    BY <1>2, <1>7
  <2>3. at' = "wait" => next_finished' = Successor(u')
    BY <1>2
  <2> QED BY <1>21, <2>1, <2>2, <2>3 DEF Given
<1>24. Shows(taken)'
  <2>1. Shown' = Shown
    BY <1>2, <1>11, <1>15 DEF Shown, InHand
  <2>2. OutAt(k, taken) = OutAt(Job, taken)
    <3>1. taken \in 0 .. total
      BY <1>5 DEF Total
    <3> QED BY <1>13, <3>1
  <2>3. fctx'.result # EOF
    BY <1>2, <1>7 DEF NothingKept, EOF
  <2> QED BY <1>1, <1>15, <2>1, <2>2, <2>3 DEF Shows
<1>25. \E n \in Nat : Given(n)' /\ Working(n)' /\ Ahead(n)' /\ Shows(n)'
  BY <1>20, <1>22, <1>23, <1>24
<1> QED BY <1>14, <1>16, <1>25 DEF Pipeline

LEMMA TakeResultShows ==
    ASSUME DInv, TakeResult, InCallFrame
    PROVE  Data' /\ CallState' /\ Pipeline'
<1>1. PICK taken \in Nat : Given(taken) /\ Working(taken) /\ Ahead(taken) /\ Shows(taken)
  BY DEF DInv, Pipeline
<1> DEFINE C == Contexts
           F == Seq(FrameRecords)
           R == Nat \cup {EOF}
           T == [avpkt : Nat, draining : BOOLEAN, ref : Nat, ctx : C, df : F, result : R]
           x == thread[u]
           y == thread'[u]
           o == taken + 1
           r == ResultAt(Job, o)
<1>2. /\ UNCHANGED <<codec, stream, turns, pc, state, history, internal, user, die, call, u>>
      /\ at = "wait" /\ at' = "loop" /\ state[u] = "INPUT_READY"
      /\ fctx' = [fctx EXCEPT !.result = x.result, !.df = IF x.df # <<>> THEN x.df ELSE fctx.df]
      /\ thread' = [thread EXCEPT ![u].result = 0,
                                  ![u].df = IF x.df # <<>> THEN fctx.df ELSE x.df]
  BY DEF TakeResult, Go, InCallFrame, shared
<1>3. /\ IInv /\ u \in Threads /\ First = u /\ next_finished = Successor(u)
      /\ next_decoding \in Threads /\ next_finished \in Threads
      /\ OnTheWay = Gap(next_finished, next_decoding) + 1
  BY <1>1, <1>2, RingFacts DEF Given, DInv
<1>4. Gap(next_finished, next_decoding) \in 0 .. thread_count - 1 /\ Gap(u, u) = 0
  BY <1>3, GapFacts
<1>5. Gap(next_finished, next_decoding) \in Nat /\ Busy(u) /\ Place(taken, u) = o
  BY <1>3, <1>4, SomeThreads DEF Busy, Place
<1>6. /\ thread \in [Threads -> T] /\ IsJob(Job) /\ fctx \in [df : F, result : R]
      /\ fctx.df = <<>> /\ fctx.result = 0 /\ <<>> \in F /\ 0 \in R
  <2>1. NothingKept
    BY <1>2 DEF DInv, CallState
  <2> QED BY <2>1 DEF DInv, Data, NothingKept
<1>7. x.df = r.df /\ x.result = r.result
  <2>1. ~Undecoded(u)
    BY <1>2, <1>3 DEF IInv, Stages, Undecoded
  <2> QED BY <1>1, <1>3, <1>5, <2>1 DEF Working, HasDecoded
<1>8. /\ r \in Results
      /\ OutAt(Job, o) = OutAt(Job, taken) \o r.df \o Error(r.result)
      /\ r.result = EOF => o > Len(history.fed)
  <2>1. o \in Nat \ {0} /\ o - 1 = taken /\ Job.fed = history.fed
    BY DEF Job
  <2>2. Len(history.fed) \in Nat
    BY <1>6, <2>1 DEF IsJob
  <2> HIDE DEF o
  <2>3. /\ r \in Results
        /\ OutAt(Job, o) = OutAt(Job, taken) \o r.df \o Error(r.result)
        /\ IF o <= Len(history.fed) THEN r.result \in Nat ELSE r.result = EOF
    BY <1>6, <2>1, JobContinues
  <2> HIDE DEF r
  <2> QED BY <2>1, <2>2, <2>3 DEF EOF
<1> HIDE DEF C, F, R, r, o
<1>9. /\ fctx' \in [df : F, result : R] /\ fctx'.df = r.df /\ fctx'.result = r.result
  <2>1. x \in T
    BY <1>3, <1>6
  <2>2. x.df \in F /\ x.result \in R
    BY <2>1
  <2> DEFINE a == x.df
             b == x.result
  <2>3. fctx' = [fctx EXCEPT !.result = b, !.df = a] /\ a \in F /\ b \in R
    BY <1>2, <1>6, <2>2
  <2> HIDE DEF a, b
  <2>4. fctx' \in [df : F, result : R] /\ fctx'.df = a /\ fctx'.result = b
    BY <1>6, <2>3
  <2> QED BY <1>7, <2>4 DEF a, b
<1>10. /\ \A q \in Threads : /\ thread'[q] \in T
                             /\ thread'[q].ctx = thread[q].ctx
                             /\ thread'[q].draining = thread[q].draining
                             /\ q # u => thread'[q] = thread[q]
       /\ thread' \in [Threads -> T] /\ y.df = <<>> /\ y.result = 0
  <2>1. thread' = [thread EXCEPT ![u].result = 0, ![u].df = <<>>]
    BY <1>2, <1>6
  <2>2. /\ y = [x EXCEPT !.result = 0, !.df = <<>>] /\ x \in T
        /\ \A q \in Threads : q # u => thread'[q] = thread[q]
        /\ thread' = [q \in Threads |-> thread'[q]]
    BY <1>3, <1>6, <2>1
  <2> HIDE DEF x, y
  <2>3. y \in T /\ y.ctx = x.ctx /\ y.draining = x.draining /\ y.df = <<>> /\ y.result = 0
    BY <1>6, <2>2
  <2>4. \A q \in Threads : thread'[q] \in T
    BY <1>6, <2>2, <2>3 DEF y
  <2>5. thread' \in [Threads -> T]
    <3>1. thread' = [q \in Threads |-> thread'[q]]
      BY <2>2
    <3> HIDE DEF T
    <3> QED BY <2>4, <3>1
  <2> QED BY <2>2, <2>3, <2>4, <2>5 DEF x, y
<1>11. Job' = Job
  BY <1>2 DEF Job
<1>12. Data'
  <2>1. IsJob(Job)'
    BY <1>11 DEF IsJob, DInv, Data
  <2> QED BY <2>1, <1>2, <1>9, <1>10 DEF DInv, Data, F, C, R
<1>13. Receiving' /\ Receiving /\ ~Returning /\ ~Returning' /\ ~Outside'
  BY <1>2 DEF Returning, Outside, Receiving
<1>14. CallState'
  BY <1>2, <1>10, <1>13 DEF CallState, DInv
<1>15. First' = Successor(u) /\ OnTheWay' = OnTheWay - 1 /\ Total(o)' = Total(taken)
       /\ OnTheWay \in Nat /\ OnTheWay > 0 /\ Total(taken) \in Nat /\ Total(taken) > 0
  <2>1. First' = Successor(u) /\ OnTheWay' = Gap(next_finished, next_decoding) + 0
    BY <1>2, <1>3 DEF First, OnTheWay, turns
  <2>2. OnTheWay' = OnTheWay - 1 /\ OnTheWay \in Nat /\ OnTheWay > 0
    BY <1>3, <1>5, <2>1
  <2> QED BY <2>1, <2>2 DEF Total, o
<1>16. \A q \in Threads : /\ q # u => /\ Busy(q)' <=> Busy(q)
                                      /\ Place(o, q)' = Place(taken, q)
                          /\ ~Busy(u)'
                          /\ Undecoded(q)' <=> Undecoded(q)
  <2> SUFFICES ASSUME NEW q \in Threads
               PROVE  /\ q # u => /\ Busy(q)' <=> Busy(q)
                                  /\ Place(o, q)' = Place(taken, q)
                      /\ ~Busy(u)'
                      /\ Undecoded(q)' <=> Undecoded(q)
    OBVIOUS
  <2>1. q # u => Gap(u, q) = Gap(Successor(u), q) + 1
    BY <1>3, GapFacts
  <2>2. Gap(Successor(u), u) = thread_count - 1 /\ Gap(Successor(u), q) \in 0 .. thread_count - 1
    BY <1>3, GapFacts
  <2>3. Gap(Successor(u), q) \in Int /\ thread_count \in Int
    BY <2>2, SomeThreads
  <2>4. q # u => (Busy(q)' <=> Busy(q))
    <3>1. Busy(q)' <=> Gap(Successor(u), q) < OnTheWay - 1
      BY <1>15 DEF Busy
    <3> QED BY <1>3, <1>15, <2>1, <2>3, <3>1 DEF Busy
  <2>5. q # u => Place(o, q)' = Place(taken, q)
    <3>1. Place(o, q)' = o + 1 + Gap(Successor(u), q)
      BY <1>15 DEF Place
    <3> QED BY <1>3, <2>1, <2>3, <3>1 DEF Place, o
  <2>6. ~Busy(u)'
    <3>1. Busy(u)' <=> Gap(Successor(u), u) < OnTheWay - 1
      BY <1>2, <1>15 DEF Busy
    <3> QED BY <1>3, <1>4, <2>2, <2>3, <3>1
  <2>7. Undecoded(q)' <=> Undecoded(q)
    BY <1>2 DEF Undecoded
  <2> QED BY <2>4, <2>5, <2>6, <2>7
<1>17. Working(o)'
  <2>1. ASSUME NEW q \in Threads
        PROVE  IF ~Busy(q)' THEN thread'[q].df = <<>> /\ thread'[q].result = 0
               ELSE IF Undecoded(q)' THEN ToDecode(Job', thread'[q], Place(o, q)')
               ELSE HasDecoded(Job', thread'[q], Place(o, q)')
    <3>1. CASE q = u
      <4>1. ~Busy(q)'
        BY <1>2, <1>16, <3>1 DEF Busy
      <4> QED BY <1>10, <3>1, <4>1
    <3>2. CASE q # u
      BY <1>1, <1>10, <1>11, <1>16, <3>2 DEF Working
    <3> QED BY <3>1, <3>2
  <2> QED BY <2>1 DEF Working
<1>18. Ahead(o)'
  <2>1. prev_thread \in Threads /\ next_decoding = Successor(prev_thread)
    BY <1>1, <1>15 DEF Ahead
  <2>2. prev_thread' = prev_thread /\ next_decoding' = next_decoding /\ UNCHANGED <<pc, state, codec>>
    BY <1>2 DEF turns
  <2>3. ~Undecoded(prev_thread)' =>
            Like(Job, thread'[prev_thread].ctx, ContextAt(Job, Total(taken)), Total(taken))
    <3>1. thread'[prev_thread].ctx = thread[prev_thread].ctx
      BY <1>10, <2>1
    <3>2. Undecoded(prev_thread)' <=> Undecoded(prev_thread)
      BY <2>2 DEF Undecoded
    <3>3. ~Undecoded(prev_thread) =>
              Like(Job, thread[prev_thread].ctx, ContextAt(Job, Total(taken)), Total(taken))
      BY <1>1, <1>15 DEF Ahead
    <3> QED BY <3>1, <3>2, <3>3
  <2>4. codec.delay = 0 => \A q \in Threads : thread'[q].ctx.delayed = <<>>
    BY <1>1, <1>10 DEF Ahead
  <2> QED BY <1>11, <1>15, <2>1, <2>2, <2>3, <2>4 DEF Ahead
<1>19. Given(o)'
  BY <1>1, <1>2, <1>15 DEF Given
<1>20. Shows(o)'
  <2>1. Shown = history.returned \o internal.buffer_frame /\ Shown \in F
    <3> DEFINE a == history.returned \o internal.buffer_frame
    <3>1. a \in F
      BY Types, JoinTyped DEF F, DInv
    <3>2. InHand = <<>> /\ Error(fctx.result) = <<>>
      BY <1>6, <1>13, ErrorIs DEF InHand
    <3>3. Shown = a \o <<>> \o <<>> \o <<>>
      BY <1>6, <3>2 DEF Shown
    <3> HIDE DEF a
    <3>4. a \o <<>> = a
      BY <3>1, JoinNothing DEF F
    <3> QED BY <3>1, <3>3, <3>4 DEF a
  <2>2. Shown' = Shown \o r.df \o Error(r.result)
    <3>1. InHand' = <<>>
      BY <1>13 DEF InHand
    <3>2. Shown' = history.returned \o internal.buffer_frame \o <<>> \o fctx'.df \o Error(fctx'.result)
      BY <1>2, <3>1 DEF Shown
    <3>3. Shown \o <<>> = Shown
      BY <2>1, JoinNothing DEF F
    <3> QED BY <1>9, <2>1, <3>2, <3>3
  <2>3. Shown' = OutAt(Job', o)
    BY <1>1, <1>8, <1>11, <2>2 DEF Shows
  <2> QED BY <1>2, <1>8, <1>9, <1>13, <2>3 DEF Shows
<1>21. o \in Nat
  BY DEF o
<1>22. \E n \in Nat : Given(n)' /\ Working(n)' /\ Ahead(n)' /\ Shows(n)'
  BY <1>17, <1>18, <1>19, <1>20, <1>21
<1> QED BY <1>12, <1>14, <1>22 DEF Pipeline

--------------------------------------------------------------------------------
(* How calls return. *)

\* What is in hand is one frame, or an error.
LEMMA HandIs ==
    ASSUME Data, CallState, Returning
    PROVE  /\ InHand = user.frame \o Error(user.ret)
           /\ user.frame = <<>> \/ Error(user.ret) = <<>>
           /\ internal.buffer_frame = <<>>
           /\ Shown = history.returned \o InHand \o fctx.df \o Error(fctx.result)
<1>1. user.frame # <<>> => user.ret = 0
  BY DEF CallState
<1>2. internal.buffer_frame = <<>> /\ history.returned \o <<>> = history.returned
  BY Types, JoinNothing DEF CallState
<1> QED BY <1>1, <1>2, ErrorIs DEF InHand, Shown

LEMMA SendReturnsShows ==
    ASSUME DInv, SendReturns, InCallFrame
    PROVE  Data' /\ CallState' /\ Pipeline'
<1>1. PICK taken \in Nat : Given(taken) /\ Working(taken) /\ Ahead(taken) /\ Shows(taken)
  BY DEF DInv, Pipeline
<1> DEFINE F == Seq(FrameRecords)
           C == Contexts
           P == Seq(DOMAIN stream)
           D == DOMAIN stream \cup {0}
           L == 0 .. Len(stream)
           error == Error(user.ret)
           all == history.returned \o error
           ret == IF user.ret \in {AGAIN, EOF} THEN 0 ELSE user.ret
           frame == user.frame
<1>2. /\ UNCHANGED <<codec, stream, turns, pc, state, thread, fctx, die, call, u>>
      /\ at = "relock" /\ at' = "out" /\ call = "send"
      /\ internal' = [internal EXCEPT !.buffer_frame = frame]
      /\ user' = [user EXCEPT !.ret = ret]
      /\ history' = [history EXCEPT !.returned = all]
  BY DEF SendReturns, Relock, Go, InCallFrame, ReturnValue
<1>3. /\ user \in [pkt : D, ret : Int, frame : F] /\ frame \in F /\ error \in F /\ all \in F
      /\ internal \in [sent : L, buffer_pkt : D, buffer_frame : F, draining_started : BOOLEAN,
                       draining : BOOLEAN]
      /\ history \in [start : C, fed : P, returned : F] /\ history.returned \in F
  <2>1. history.returned \in F /\ error \in F /\ all \in F
    BY Types, JoinTyped DEF DInv
  <2> QED BY <2>1 DEF DInv, Data
<1>4. ret \in Int /\ ret # AGAIN /\ ret # EOF
  BY <1>3 DEF AGAIN, EOF
<1> HIDE DEF F, C, P, D, L, error, ret
<1>5. /\ user' \in [pkt : D, ret : Int, frame : F] /\ user'.ret = ret
      /\ internal' \in [sent : L, buffer_pkt : D, buffer_frame : F, draining_started : BOOLEAN,
                        draining : BOOLEAN]
      /\ internal'.draining = internal.draining /\ internal'.buffer_pkt = internal.buffer_pkt
      /\ internal'.draining_started = internal.draining_started /\ internal'.buffer_frame = frame
      /\ history' \in [start : C, fed : P, returned : F]
      /\ history'.start = history.start /\ history'.fed = history.fed /\ history'.returned = all
  <2> HIDE DEF all, frame
  <2>1. user' \in [pkt : D, ret : Int, frame : F] /\ user'.ret = ret
    BY <1>2, <1>3, <1>4
  <2>2. /\ internal' \in [sent : L, buffer_pkt : D, buffer_frame : F, draining_started : BOOLEAN,
                          draining : BOOLEAN]
        /\ internal'.draining = internal.draining /\ internal'.buffer_pkt = internal.buffer_pkt
        /\ internal'.draining_started = internal.draining_started /\ internal'.buffer_frame = frame
    BY <1>2, <1>3
  <2>3. /\ history' \in [start : C, fed : P, returned : F]
        /\ history'.start = history.start /\ history'.fed = history.fed /\ history'.returned = all
    BY <1>2, <1>3
  <2> QED BY <2>1, <2>2, <2>3
<1>6. Job' = Job
  BY <1>2, <1>5 DEF Job
<1>7. OnTheWay' = OnTheWay /\ Given(taken)' /\ Working(taken)' /\ Ahead(taken)'
  <2>1. at # "wait" /\ at' # "wait"
    BY <1>2
  <2> QED BY <1>1, <1>2, <1>5, <1>6, <2>1, RingStays
<1>8. Data'
  <2>1. IsJob(Job)'
    BY <1>6 DEF IsJob, DInv, Data
  <2> QED BY <2>1, <1>2, <1>5 DEF DInv, Data, F, D, C, P, L
<1>9. Returning /\ ~Returning' /\ Outside' /\ ~Receiving'
  BY <1>2 DEF Returning, Outside, Receiving, ReceiveCalls
<1>10. CallState'
  BY <1>2, <1>4, <1>5, <1>9 DEF CallState, DInv
<1>11. Shows(taken)'
  <2> DEFINE a == history.returned
             rest == fctx.df \o Error(fctx.result)
  <2>1. /\ Shown = a \o (frame \o error) \o fctx.df \o Error(fctx.result)
        /\ frame = <<>> \/ error = <<>>
    BY <1>9, HandIs DEF DInv, error
  <2>2. Shown' = all \o frame \o fctx.df \o Error(fctx.result)
    <3>1. InHand' = <<>> /\ fctx' = fctx
      BY <1>2, <1>9 DEF InHand
    <3>2. Shown' = all \o frame \o <<>> \o fctx.df \o Error(fctx.result)
      BY <1>5, <3>1 DEF Shown
    <3>3. all \o frame \in F
      BY <1>3, JoinTyped DEF F
    <3>4. (all \o frame) \o <<>> = all \o frame
      BY <3>3, JoinNothing DEF F
    <3> QED BY <3>2, <3>4
  <2>3. a \o (frame \o error) = all \o frame
    <3>1. frame \o <<>> = frame /\ <<>> \o error = error /\ a \o <<>> = a /\ all \o <<>> = all
      BY <1>3, JoinNothing DEF F
    <3>2. CASE frame = <<>>
      BY <3>1, <3>2
    <3>3. CASE error = <<>>
      BY <3>1, <3>3
    <3> QED BY <2>1, <3>2, <3>3
  <2>4. Shown' = Shown
    BY <2>1, <2>2, <2>3
  <2> QED BY <1>1, <1>2, <1>4, <1>5, <1>6, <1>7, <2>4, SameShown
<1>12. \E n \in Nat : Given(n)' /\ Working(n)' /\ Ahead(n)' /\ Shows(n)'
  BY <1>7, <1>11
<1> QED BY <1>8, <1>10, <1>12 DEF Pipeline

LEMMA ReceiveReturnsShows ==
    ASSUME DInv, ReceiveReturns, InCallFrame
    PROVE  Data' /\ CallState' /\ Pipeline'
<1>1. PICK taken \in Nat : Given(taken) /\ Working(taken) /\ Ahead(taken) /\ Shows(taken)
  BY DEF DInv, Pipeline
<1> DEFINE F == Seq(FrameRecords)
           C == Contexts
           P == Seq(DOMAIN stream)
           error == Error(user.ret)
           frame == user.frame
           all == history.returned \o frame \o error
<1>2. /\ UNCHANGED <<codec, stream, turns, pc, state, thread, fctx, die, call, u, internal, user>>
      /\ at = "relock" /\ at' = "out" /\ call \in {"receive", "sync"}
      /\ history' = [history EXCEPT !.returned = all]
  BY DEF ReceiveReturns, Relock, Go, InCallFrame
<1>3. /\ frame \in F /\ error \in F /\ history.returned \o frame \in F /\ all \in F
      /\ history \in [start : C, fed : P, returned : F] /\ history.returned \in F
  <2>1. history.returned \in F /\ error \in F /\ frame \in F
    BY Types DEF DInv
  <2>2. history.returned \o frame \in F
    BY <2>1, JoinTyped
  <2>3. all \in F
    <3> DEFINE a == history.returned \o frame
    <3>1. a \in F
      BY <2>2
    <3> HIDE DEF a, error
    <3>2. a \o error \in F
      BY <2>1, <3>1, JoinTyped
    <3> QED BY <3>2 DEF a
  <2> QED BY <2>1, <2>2, <2>3 DEF DInv, Data
<1> HIDE DEF F, C, P, error
<1>4. /\ history' \in [start : C, fed : P, returned : F]
      /\ history'.start = history.start /\ history'.fed = history.fed /\ history'.returned = all
  <2> HIDE DEF all
  <2> QED BY <1>2, <1>3
<1>5. Job' = Job
  BY <1>2, <1>4 DEF Job
<1>6. OnTheWay' = OnTheWay /\ Given(taken)' /\ Working(taken)' /\ Ahead(taken)'
  <2>1. at # "wait" /\ at' # "wait"
    BY <1>2
  <2> QED BY <1>1, <1>2, <1>4, <1>5, <2>1, RingStays
<1>7. Data'
  <2>1. IsJob(Job)'
    BY <1>5 DEF IsJob, DInv, Data
  <2> QED BY <2>1, <1>2, <1>4 DEF DInv, Data, F, C, P
<1>8. Returning /\ ~Returning' /\ Outside' /\ ~Receiving'
  BY <1>2 DEF Returning, Outside, Receiving, ReceiveCalls
<1>9. CallState'
  BY <1>2, <1>8 DEF CallState, DInv, NothingKept
<1>10. Shows(taken)'
  <2> DEFINE a == history.returned
  <2>1. /\ Shown = a \o (frame \o error) \o fctx.df \o Error(fctx.result)
        /\ internal.buffer_frame = <<>>
    BY <1>8, HandIs DEF DInv, error
  <2>2. Shown' = all \o fctx.df \o Error(fctx.result)
    <3>1. InHand' = <<>> /\ fctx' = fctx /\ internal' = internal
      BY <1>2, <1>8 DEF InHand
    <3>2. Shown' = all \o <<>> \o <<>> \o fctx.df \o Error(fctx.result)
      BY <1>4, <2>1, <3>1 DEF Shown
    <3>3. all \o <<>> = all
      <4> HIDE DEF all
      <4> QED BY <1>3, JoinNothing DEF F
    <3> QED BY <3>2, <3>3
  <2>3. a \o (frame \o error) = all
    <3> DEFINE f == frame
    <3>1. a \in F /\ f \in F /\ error \in F
      BY <1>3
    <3> HIDE DEF a, f, error
    <3>2. (a \o f) \o error = a \o (f \o error)
      BY <3>1, JoinThree DEF F
    <3> QED BY <3>2 DEF a, f
  <2>4. Shown' = Shown
    BY <2>1, <2>2, <2>3
  <2>5. /\ user'.ret = EOF => taken > Len(history.fed)
        /\ user'.ret = AGAIN /\ call' = "sync" => OnTheWay = 0
    BY <1>1, <1>2, <1>8 DEF Shows
  <2> QED BY <1>1, <1>2, <1>4, <1>5, <1>6, <2>4, <2>5, SameShown
<1>11. \E n \in Nat : Given(n)' /\ Working(n)' /\ Ahead(n)' /\ Shows(n)'
  BY <1>6, <1>10
<1> QED BY <1>7, <1>9, <1>11 DEF Pipeline

\* After avcodec_flush_buffers() the first thread goes on from where the last was.
LEMMA FlushShows ==
    ASSUME DInv, Flush, InCallFrame
    PROVE  Data' /\ CallState' /\ Pipeline'
<1>1. PICK taken \in Nat : Given(taken) /\ Working(taken) /\ Ahead(taken) /\ Shows(taken)
  BY DEF DInv, Pipeline
<1> DEFINE copies == prev_thread \notin {0, 1} /\ codec.update
           th == IF copies THEN Updated(prev_thread, 1) ELSE thread
           stale == internal.draining /\ ~CapDelay
           ctx == IF stale THEN th[1].ctx
                  ELSE OneByOne(codec, stream, history.start, history.fed).ctx
           start == [ctx EXCEPT !.delayed = <<>>]
           C == Contexts
           F == Seq(FrameRecords)
           R == Nat \cup {EOF}
           D == DOMAIN stream \cup {0}
           L == 0 .. Len(stream)
           T == [avpkt : Nat, draining : BOOLEAN, ref : Nat, ctx : C, df : F, result : R]
<1>2. /\ UNCHANGED <<codec, stream, pc, state, die, call, u>>
      /\ at = "relock" /\ at' = "out" /\ call = "flush"
      /\ thread' = [p \in Threads |->
            [th[p] EXCEPT !.ctx.delayed = <<>>, !.draining = FALSE, !.df = <<>>, !.result = 0]]
      /\ next_decoding' = 1 /\ next_finished' = 1 /\ prev_thread' = 0
      /\ fctx' = [df |-> <<>>, result |-> 0]
      /\ internal' = [internal EXCEPT !.buffer_pkt = 0, !.buffer_frame = <<>>,
                                      !.draining_started = FALSE, !.draining = FALSE]
      /\ history' = [start |-> start, fed |-> <<>>, returned |-> <<>>]
      /\ user' = [user EXCEPT !.ret = 0]
  BY DEF Flush, Relock, Go, InCallFrame, ReturnValue
<1>3. /\ IInv /\ 1 \in Threads /\ prev_thread \in Threads \cup {0}
      /\ \A p \in Threads : ~Undecoded(p)
  <2>1. AllParked /\ IInv
    BY <1>2 DEF AllParked, DInv
  <2>2. \A p \in Threads : state[p] = "INPUT_READY"
    BY <2>1 DEF IInv, Turns
  <2>3. \A p \in Threads : ~Undecoded(p)
    BY <2>1, <2>2 DEF IInv, Stages, Undecoded
  <2> QED BY <2>1, <2>3, SomeThreads DEF IInv, TypeOK, Threads
<1>4. /\ thread \in [Threads -> T] /\ IsJob(Job) /\ user \in [pkt : D, ret : Int, frame : F]
      /\ internal \in [sent : L, buffer_pkt : D, buffer_frame : F, draining_started : BOOLEAN,
                       draining : BOOLEAN]
      /\ history.fed \in Seq(DOMAIN stream) /\ Len(history.fed) \in Nat
      /\ <<>> \in F /\ 0 \in D /\ 0 \in R /\ Job.codec = codec /\ Job.fed = history.fed
      /\ codec.update \in BOOLEAN
  BY DEF DInv, Data, Job, IsJob
<1>5. th \in [Threads -> T] /\ th[1].ctx = IF copies THEN thread[prev_thread].ctx ELSE thread[1].ctx
  <2>1. CASE copies
    <3>1. prev_thread \in Threads /\ th = [thread EXCEPT ![1].ctx = thread[prev_thread].ctx]
      BY <1>3, <2>1 DEF Updated
    <3> DEFINE c == thread[prev_thread].ctx
               x == thread[1]
               y == th[1]
    <3>2. c \in C
      <4>1. \A q \in Threads : thread[q].ctx \in C
        BY <1>4
      <4> QED BY <3>1, <4>1
    <3>3. /\ x \in T /\ y = [x EXCEPT !.ctx = c]
          /\ \A q \in Threads : q # 1 => th[q] = thread[q]
          /\ th = [q \in Threads |-> th[q]]
      BY <1>3, <1>4, <3>1
    <3> HIDE DEF c, x, y, th, C, F, R
    <3>4. y \in T /\ y.ctx = c
      BY <3>2, <3>3
    <3>5. \A q \in Threads : th[q] \in T
      BY <1>4, <3>3, <3>4 DEF y
    <3>6. th \in [Threads -> T]
      <4>1. th = [q \in Threads |-> th[q]]
        BY <3>3
      <4> HIDE DEF T
      <4> QED BY <3>5, <4>1
    <3> QED BY <2>1, <3>4, <3>6 DEF c, y
  <2>2. CASE ~copies
    BY <1>4, <2>2
  <2> QED BY <2>1, <2>2
<1> HIDE DEF th, C, F, R, D, L
<1>6. /\ thread' \in [Threads -> T]
      /\ \A q \in Threads : /\ thread'[q].df = <<>> /\ thread'[q].result = 0
                            /\ thread'[q].draining = FALSE
                            /\ thread'[q].ctx = [th[q].ctx EXCEPT !.delayed = <<>>]
                            /\ thread'[q].ctx \in C
                            /\ thread'[q].ctx.delayed = <<>>
                            /\ thread'[q].ctx.seen = th[q].ctx.seen
  <2>1. ASSUME NEW q \in Threads
        PROVE  /\ thread'[q] \in T
               /\ thread'[q].df = <<>> /\ thread'[q].result = 0
               /\ thread'[q].draining = FALSE
               /\ thread'[q].ctx = [th[q].ctx EXCEPT !.delayed = <<>>]
               /\ thread'[q].ctx \in C
               /\ thread'[q].ctx.delayed = <<>>
               /\ thread'[q].ctx.seen = th[q].ctx.seen
    <3> DEFINE x == th[q]
               y == thread'[q]
               c == x.ctx
               d == [c EXCEPT !.delayed = <<>>]
    <3>1. x \in T /\ y = [x EXCEPT !.ctx = d, !.draining = FALSE, !.df = <<>>, !.result = 0]
      <4>1. y = [x EXCEPT !.ctx.delayed = <<>>, !.draining = FALSE, !.df = <<>>, !.result = 0]
        BY <1>2
      <4>2. x \in T
        BY <1>5
      <4> HIDE DEF y
      <4> QED BY <4>1, <4>2
    <3>2. c \in C
      BY <3>1
    <3>3. d \in C /\ d.delayed = <<>> /\ d.seen = c.seen
      <4> HIDE DEF c
      <4> QED BY <1>4, <3>2 DEF C, F, Contexts
    <3> HIDE DEF x, y, c, d
    <3>4. y \in T /\ y.df = <<>> /\ y.result = 0 /\ y.draining = FALSE /\ y.ctx = d
      BY <1>4, <3>1, <3>3
    <3> QED BY <3>3, <3>4 DEF x, y, c, d
  <2>2. thread' = [q \in Threads |-> thread'[q]]
    BY <1>2
  <2>3. thread' \in [Threads -> T]
    <3> HIDE DEF T
    <3>1. \A q \in Threads : thread'[q] \in T
      BY <2>1
    <3> QED BY <2>2, <3>1
  <2> QED BY <2>1, <2>3
<1>7. OneByOne(codec, stream, history.start, history.fed) = DoneBy(Job, Len(history.fed))
  <2>1. SubSeq(history.fed, 1, Len(history.fed)) = history.fed
    BY <1>4
  <2> QED BY <2>1 DEF DoneBy, Job
<1>8. Total(taken) \in Nat /\ OnTheWay \in Nat
  <2>1. OnTheWay \in 0 .. thread_count
    BY <1>2, <1>3, RingFacts
  <2>2. OnTheWay \in Nat
    BY <2>1, SomeThreads
  <2> QED BY <2>2 DEF Total
<1>9. ctx \in C /\ (codec.update => ctx.seen = th[1].ctx.seen)
  <2>1. th[1].ctx \in C
    <3>1. th[1] \in T
      BY <1>3, <1>5
    <3> QED BY <3>1
  <2>2. CASE stale
    BY <2>1, <2>2
  <2>3. CASE ~stale
    <3> DEFINE l == Len(history.fed)
               total == Total(taken)
               d == DoneBy(Job, l).ctx
    <3>1. ctx = d /\ d = ContextAt(Job, l) /\ d \in C
      <4>1. ctx = d
        BY <1>7, <2>3
      <4>2. d = ContextAt(Job, l)
        BY <1>4 DEF ContextAt
      <4>3. d \in C
        BY <1>4, <4>2, ContextTyped DEF C
      <4> QED BY <4>1, <4>2, <4>3
    <3>2. ~internal.draining \/ codec.delay > 0
      BY <2>3 DEF CapDelay
    <3>3. ContextAt(Job, total).seen = d.seen
      <4>1. CASE total <= l
        <5>1. total = l
          BY <1>1, <1>4, <1>8, <4>1 DEF Given
        <5> HIDE DEF total, l
        <5> QED BY <3>1, <5>1
      <4>2. CASE ~(total <= l)
        <5>1. ContextAt(Job, total) = [d EXCEPT !.delayed = <<>>]
          BY <1>4, <4>2 DEF ContextAt
        <5> HIDE DEF d
        <5> QED BY <3>1, <5>1 DEF C, Contexts
      <4> QED BY <4>1, <4>2
    <3>4. total <= l \/ codec.delay > 0
      BY <1>1, <1>4, <1>8, <3>2 DEF Given
    <3>5. codec.update => ContextAt(Job, total).seen = th[1].ctx.seen
      <4>1. CASE total = 0
        <5>1. prev_thread = 0 /\ Like(Job, thread[1].ctx, ContextAt(Job, 0), 0)
          BY <1>1, <4>1 DEF Ahead
        <5>2. th[1].ctx = thread[1].ctx
          BY <1>5, <5>1
        <5> QED BY <1>4, <4>1, <5>1, <5>2 DEF Like
      <4>2. CASE total # 0
        <5>1. prev_thread \in Threads /\ Like(Job, thread[prev_thread].ctx, ContextAt(Job, total), total)
          BY <1>1, <1>3, <1>8, <4>2 DEF Ahead
        <5>2. codec.update => th[1].ctx = thread[prev_thread].ctx
          <6>1. prev_thread # 0
            BY <5>1 DEF Threads
          <6> QED BY <1>5, <6>1
        <5> HIDE DEF total, l
        <5> QED BY <1>4, <3>4, <5>1, <5>2 DEF Like, l
      <4> QED BY <4>1, <4>2
    <3> HIDE DEF ctx, d, total
    <3> QED BY <3>1, <3>3, <3>5
  <2> QED BY <2>2, <2>3
<1> HIDE DEF ctx
<1>10. start \in C /\ start.delayed = <<>> /\ (codec.update => start.seen = th[1].ctx.seen)
  BY <1>4, <1>9 DEF C, F, Contexts
<1> HIDE DEF start
<1>11. /\ Job'.start = start /\ Job'.fed = <<>> /\ Job'.codec = codec /\ Job'.stream = stream
       /\ IsJob(Job') /\ Len(Job'.fed) = 0
  <2>1. Job' = [codec |-> codec, stream |-> stream, start |-> start, fed |-> <<>>]
    BY <1>2 DEF Job
  <2>2. /\ Job'.start = start /\ Job'.fed = <<>> /\ Job'.codec = codec /\ Job'.stream = stream
    BY <2>1
  <2>3. IsJob(Job')
    <3>1. /\ codec.update \in BOOLEAN /\ codec.delay \in Nat /\ (codec.delay > 0 => codec.update)
          /\ stream \in Seq({"ok", "two", "bad", "torn"})
      BY <1>4 DEF IsJob, Job
    <3>2. <<>> \in Seq(DOMAIN stream)
      OBVIOUS
    <3> DEFINE k == Job'
    <3>3. k.start = start /\ k.fed = <<>> /\ k.codec = codec /\ k.stream = stream
      BY <2>2
    <3> HIDE DEF k
    <3>4. IsJob(k)
      BY <1>10, <3>1, <3>2, <3>3 DEF IsJob, C
    <3> QED BY <3>4 DEF k
  <2> QED BY <2>2, <2>3
<1>12. /\ user' \in [pkt : D, ret : Int, frame : F] /\ user'.ret = 0
       /\ internal' \in [sent : L, buffer_pkt : D, buffer_frame : F, draining_started : BOOLEAN,
                         draining : BOOLEAN]
       /\ internal'.buffer_frame = <<>> /\ internal'.draining = FALSE
       /\ fctx' \in [df : F, result : R] /\ fctx'.df = <<>> /\ fctx'.result = 0
       /\ history' \in [start : C, fed : Seq(DOMAIN stream), returned : F]
       /\ history'.fed = <<>> /\ history'.returned = <<>>
  <2>1. user' \in [pkt : D, ret : Int, frame : F] /\ user'.ret = 0
    <3>1. user' = [user EXCEPT !.ret = 0] /\ user \in [pkt : D, ret : Int, frame : F]
      BY <1>2, <1>4
    <3> QED BY <3>1
  <2>2. /\ internal' \in [sent : L, buffer_pkt : D, buffer_frame : F, draining_started : BOOLEAN,
                          draining : BOOLEAN]
        /\ internal'.buffer_frame = <<>> /\ internal'.draining = FALSE
    <3>1. internal' = [internal EXCEPT !.buffer_pkt = 0, !.buffer_frame = <<>>,
                                       !.draining_started = FALSE, !.draining = FALSE]
      BY <1>2
    <3> QED BY <1>4, <3>1
  <2>3. fctx' \in [df : F, result : R] /\ fctx'.df = <<>> /\ fctx'.result = 0
    <3>1. fctx' = [df |-> <<>>, result |-> 0] /\ <<>> \in F /\ 0 \in R
      BY <1>2, <1>4
    <3> QED BY <3>1
  <2>4. /\ history' \in [start : C, fed : Seq(DOMAIN stream), returned : F]
        /\ history'.fed = <<>> /\ history'.returned = <<>>
    <3>1. <<>> \in Seq(DOMAIN stream)
      OBVIOUS
    <3> QED BY <1>2, <1>4, <1>10, <3>1
  <2> QED BY <2>1, <2>2, <2>3, <2>4
<1>12a. at' = "out" /\ next_decoding' = 1 /\ next_finished' = 1 /\ prev_thread' = 0 /\ die' = {}
  BY <1>2 DEF DInv, CallState
<1>13. Data'
  <2>1. IsJob(Job)'
    BY <1>11 DEF IsJob
  <2> QED BY <2>1, <1>2, <1>6, <1>12 DEF Data, F, C, R, D, L
<1>14. ~Returning' /\ Outside' /\ ~Receiving'
  BY <1>2 DEF Returning, Outside, Receiving
<1>15. CallState'
  <2>1. \A p \in Threads : ~thread'[p].draining
    BY <1>6
  <2>2. user'.ret # EOF /\ user'.ret # AGAIN /\ ~internal'.draining
    BY <1>12 DEF EOF, AGAIN
  <2> QED BY <1>12a, <1>14, <2>1, <2>2 DEF CallState
<1>16. First' = 1 /\ OnTheWay' = 0 /\ Total(0)' = 0
  <2>1. Gap(1, 1) = 0
    BY <1>3, GapFacts
  <2> QED BY <1>12a, <2>1 DEF First, OnTheWay, Total
<1>17. Working(0)'
  <2>1. ASSUME NEW q \in Threads
        PROVE  ~Busy(q)'
    <3>1. Gap(1, q) \in 0 .. thread_count - 1 /\ (Busy(q)' <=> Gap(1, q) < 0)
      BY <1>3, <1>16, GapFacts DEF Busy
    <3> QED BY <3>1, SomeThreads
  <2> QED BY <1>6, <2>1 DEF Working
<1>18. Ahead(0)'
  <2>1. ContextAt(Job', 0) = start
    BY <1>11, JobStarts
  <2>2. Like(Job', thread'[1].ctx, ContextAt(Job', 0), 0)
    BY <1>3, <1>6, <1>10, <1>11, <2>1 DEF Like
  <2>3. ~(Total(0)' > 0)
    BY <1>16
  <2> QED BY <1>2, <1>6, <1>16, <2>2, <2>3 DEF Ahead
<1>19. Given(0)'
  <2>1. Len(history'.fed) = 0
    BY <1>12
  <2> QED BY <1>12a, <1>16, <2>1 DEF Given
<1>20. Shows(0)'
  <2>1. Shown' = <<>>
    <3>1. InHand' = <<>> /\ Error(0) = <<>> /\ <<>> \o <<>> = <<>>
      BY <1>14, ErrorIs DEF InHand
    <3> QED BY <1>12, <3>1 DEF Shown
  <2>2. OutAt(Job', 0) = <<>>
    BY <1>11, JobStarts
  <2> QED BY <1>12, <1>14, <2>1, <2>2 DEF Shows, EOF, AGAIN
<1>21. \E n \in Nat : Given(n)' /\ Working(n)' /\ Ahead(n)' /\ Shows(n)'
  BY <1>17, <1>18, <1>19, <1>20
<1> QED BY <1>13, <1>15, <1>21 DEF Pipeline

LEMMA InitShows == Init => DInv
<1> SUFFICES ASSUME Init
             PROVE  DInv
  OBVIOUS
<1>1. IInv
  BY InitHolds
<1>2. NewContext \in Contexts /\ NewContext.delayed = <<>>
  BY DEF NewContext, Contexts
<1>3. /\ codec.update \in BOOLEAN /\ codec.delay \in Nat /\ (codec.delay > 0 => codec.update)
      /\ stream \in Seq({"ok", "two", "bad", "torn"})
  BY FrameThreadsAssumption DEF Init
<1> DEFINE C == Contexts
           F == Seq(FrameRecords)
           R == Nat \cup {EOF}
           D == DOMAIN stream \cup {0}
           L == 0 .. Len(stream)
           P == Seq(DOMAIN stream)
           T == [avpkt : Nat, draining : BOOLEAN, ref : Nat, ctx : C, df : F, result : R]
           new == [avpkt |-> 0, draining |-> FALSE, ref |-> 0, ctx |-> NewContext,
                   df |-> <<>>, result |-> 0]
<1>4. /\ at = "out" /\ call = "none" /\ next_decoding = 1 /\ next_finished = 1 /\ prev_thread = 0
      /\ user = [pkt |-> 0, ret |-> 0, frame |-> <<>>]
      /\ internal = [sent |-> 0, buffer_pkt |-> 0, buffer_frame |-> <<>>,
                     draining_started |-> FALSE, draining |-> FALSE]
      /\ fctx = [df |-> <<>>, result |-> 0] /\ die = {}
      /\ thread = [p \in Threads |-> new]
      /\ history = [start |-> NewContext, fed |-> <<>>, returned |-> <<>>]
  BY DEF Init
<1>5. /\ NewContext \in C /\ <<>> \in F /\ 0 \in R /\ 0 \in D /\ 0 \in L /\ <<>> \in P
      /\ 1 \in Threads
  <2>1. Len(stream) \in Nat
    BY <1>3
  <2> QED BY <1>2, <2>1, SomeThreads DEF Threads
<1> HIDE DEF C, F, R, D, L, P
<1>6. new \in T
  <2> HIDE DEF NewContext
  <2> QED BY <1>5
<1>7. /\ user \in [pkt : D, ret : Int, frame : F] /\ fctx \in [df : F, result : R]
      /\ internal \in [sent : L, buffer_pkt : D, buffer_frame : F, draining_started : BOOLEAN,
                       draining : BOOLEAN]
  BY <1>4, <1>5
<1>8. history \in [start : C, fed : P, returned : F]
  BY <1>4, <1>5
<1>9. thread \in [Threads -> T]
  <2> HIDE DEF new, T
  <2> QED BY <1>4, <1>6
<1>10. \A p \in Threads : /\ thread[p].draining = FALSE /\ thread[p].df = <<>> /\ thread[p].result = 0
                          /\ thread[p].ctx = NewContext
  BY <1>4
<1>11. /\ user.ret = 0 /\ user.frame = <<>> /\ internal.buffer_frame = <<>>
       /\ internal.draining = FALSE /\ internal.buffer_pkt = 0 /\ fctx.df = <<>> /\ fctx.result = 0
       /\ history.start = NewContext /\ history.fed = <<>> /\ history.returned = <<>>
  BY <1>4
<1>12. IsJob(Job) /\ Job.start = NewContext /\ Job.fed = <<>> /\ Job.codec = codec /\ Len(Job.fed) = 0
  <2> DEFINE k == Job
  <2>1. k.codec = codec /\ k.stream = stream /\ k.start = NewContext /\ k.fed = <<>>
    BY <1>11 DEF Job
  <2> HIDE DEF k
  <2>2. IsJob(k)
    BY <1>2, <1>3, <1>5, <2>1 DEF IsJob, P
  <2> QED BY <2>1, <2>2 DEF k
<1>13. Data
  BY <1>7, <1>8, <1>9, <1>12 DEF Data, C, F, R, D, L, P
<1>14. ~Returning /\ Outside /\ ~Receiving
  BY <1>4 DEF Returning, Outside, Receiving
<1>15. CallState
  BY <1>4, <1>10, <1>11, <1>14 DEF CallState, EOF, AGAIN
<1>16. First = 1 /\ OnTheWay = 0 /\ Total(0) = 0
  <2>1. Gap(1, 1) = 0
    BY <1>5, GapFacts
  <2> QED BY <1>4, <2>1 DEF First, OnTheWay, Total
<1>17. Working(0)
  <2>1. ASSUME NEW q \in Threads
        PROVE  ~Busy(q)
    <3>1. Gap(1, q) \in 0 .. thread_count - 1 /\ (Busy(q) <=> Gap(1, q) < 0)
      BY <1>5, <1>16, GapFacts DEF Busy
    <3> QED BY <3>1, SomeThreads
  <2> QED BY <1>10, <2>1 DEF Working
<1>18. Ahead(0)
  <2>1. ContextAt(Job, 0) = NewContext
    BY <1>12, JobStarts
  <2>2. Like(Job, thread[1].ctx, ContextAt(Job, 0), 0)
    BY <1>5, <1>10, <2>1 DEF Like
  <2>3. ~(Total(0) > 0)
    BY <1>16
  <2> QED BY <1>2, <1>4, <1>10, <1>16, <2>2, <2>3 DEF Ahead
<1>19. Given(0)
  BY <1>4, <1>11, <1>16 DEF Given
<1>20. Shows(0)
  <2>1. Shown = <<>>
    <3>1. InHand = <<>> /\ Error(0) = <<>> /\ <<>> \o <<>> = <<>>
      BY <1>14, ErrorIs DEF InHand
    <3> QED BY <1>11, <3>1 DEF Shown
  <2>2. OutAt(Job, 0) = <<>>
    BY <1>12, JobStarts
  <2> QED BY <1>11, <1>14, <2>1, <2>2 DEF Shows, EOF, AGAIN
<1>21. \E n \in Nat : Given(n) /\ Working(n) /\ Ahead(n) /\ Shows(n)
  BY <1>17, <1>18, <1>19, <1>20
<1> QED BY <1>1, <1>13, <1>15, <1>21 DEF DInv, Pipeline

LEMMA NextShows ==
    ASSUME DInv, Next, UNCHANGED nomem
    PROVE  Data' /\ CallState' /\ Pipeline'
<1>1. CASE \E p \in Threads : frame_worker_thread(p)
  <2>1. PICK p \in Threads : frame_worker_thread(p)
    BY <1>1
  <2>2. WorkerFrame /\ WorkerStep(p)
    <3>1. nomem' # nomem + 1
      <4>1. nomem \in Nat /\ nomem' = nomem
        BY DEF DInv, IInv, TypeOK
      <4> QED BY <4>1
    <3> QED BY <2>1, <3>1 DEF frame_worker_thread, WorkerFrame, WorkerStep
  <2>3. QED
    BY <2>2, WorkerInputShows, WorkerSetupShows, WorkerElsewhereShows DEF WorkerStep
<1>2. CASE Calls
  <2>1. CallFrame
    BY <1>2 DEF Calls, CallFrame
  <2>2. QED
    BY <1>2, <2>1, SendShows, ReceiveShows DEF Calls
<1>3. CASE InCall
  <2>1. InCallFrame
    BY <1>3 DEF InCall, InCallFrame
  <2>2. QED
    BY <1>3, <2>1, FinishShows, WaitAtOnceShows, GetPacketShows, SubmitPacketShows, CopyFailsShows,
       SubmitShows, TakeResultShows, QuietActionsShow, SendReturnsShows, ReceiveReturnsShows,
       FlushShows
       DEF InCall
<1>4. QED
  BY <1>1, <1>2, <1>3 DEF Next

\* A worker that has run out of memory goes on without having decoded its packet.
WhileMemoryLasts == IInv /\ (nomem = 0 => DInv)

LEMMA NeverMoreMemory ==
    ASSUME IInv, [Next]_vars, nomem' = 0
    PROVE  nomem = 0 /\ UNCHANGED nomem
<1>1. nomem \in Nat
  BY DEF IInv, TypeOK
<1>2. nomem' = nomem \/ nomem' = nomem + 1
  <2>1. CASE \E p \in Threads : frame_worker_thread(p)
    BY <2>1 DEF frame_worker_thread
  <2>2. CASE Calls \/ InCall \/ UNCHANGED vars
    BY <2>2 DEF Calls, InCall, vars
  <2> QED BY <2>1, <2>2 DEF Next
<1> QED BY <1>1, <1>2

LEMMA DInvHolds == Spec => []WhileMemoryLasts
<1>1. Init => WhileMemoryLasts
  BY InitShows, InitHolds DEF WhileMemoryLasts
<1>2. WhileMemoryLasts /\ [Next]_vars => WhileMemoryLasts'
  <2>1. ASSUME WhileMemoryLasts, [Next]_vars
        PROVE  IInv'
    <3>1. CASE UNCHANGED vars
      BY <2>1, <3>1, WaitingKeeps DEF vars, WhileMemoryLasts
    <3>2. CASE Next
      BY <2>1, <3>2, NextKeeps DEF WhileMemoryLasts
    <3> QED BY <2>1, <3>1, <3>2
  <2>2. ASSUME WhileMemoryLasts, [Next]_vars, nomem' = 0
        PROVE  Data' /\ CallState' /\ Pipeline'
    <3>1. DInv /\ UNCHANGED nomem
      BY <2>2, NeverMoreMemory DEF WhileMemoryLasts
    <3>2. CASE UNCHANGED vars
      BY <3>1, <3>2, QuietShows DEF vars, caller
    <3>3. CASE Next
      BY <3>1, <3>3, NextShows
    <3> QED BY <2>2, <3>2, <3>3
  <2>3. QED
    BY <2>1, <2>2 DEF WhileMemoryLasts, DInv
<1>3. QED
  BY <1>1, <1>2, PTL DEF Spec

--------------------------------------------------------------------------------

LEMMA PrefixIs ==
    ASSUME NEW S, NEW a \in Seq(S), NEW b \in Seq(S)
    PROVE  IsPrefix(a, a \o b) /\ IsPrefix(a, a)
BY DEF IsPrefix

\* One thread returns, when all is drained, what there is after one more submission.
LEMMA DrainedIs ==
    ASSUME DInv
    PROVE  Drained(history.fed) = OutAt(Job, Len(history.fed) + 1)
<1>1. history.fed \in Seq(DOMAIN stream) /\ Len(history.fed) \in Nat
  BY DEF DInv, Data
<1>2. SubSeq(history.fed, 1, Len(history.fed)) = history.fed
  BY <1>1
<1>3. Sequential(history.fed) = DoneBy(Job, Len(history.fed))
  BY <1>2 DEF Sequential, DoneBy, Job
<1>4. ~(Len(history.fed) + 1 <= Len(history.fed)) /\ Job.fed = history.fed
  BY <1>1 DEF Job
<1> QED BY <1>3, <1>4 DEF Drained, OutAt

LEMMA SameFromDInv ==
    ASSUME DInv
    PROVE  SameAsOneThread
<1>1. PICK taken \in Nat : Given(taken) /\ Working(taken) /\ Ahead(taken) /\ Shows(taken)
  BY DEF DInv, Pipeline
<1> DEFINE F == Seq(FrameRecords)
           l == Len(history.fed)
           all == OutAt(Job, l + 1)
           r == history.returned
<1>2. IsJob(Job) /\ l \in Nat /\ r \in F /\ Job.fed = history.fed
  BY DEF DInv, Data, Job
<1>3. Drained(history.fed) = all
  BY DrainedIs
<1>4. \E rest \in F : all = OutAt(Job, taken) \o rest
  <2>1. CASE taken <= l + 1
    <3> HIDE DEF l
    <3>1. l + 1 \in Nat
      BY <1>2
    <3> QED BY <1>2, <2>1, <3>1, OutGrows
  <2>2. CASE taken > l + 1
    <3>1. OutAt(Job, taken) = all
      <4>1. taken > l
        BY <1>2, <2>2
      <4> QED BY <1>2, <4>1, OutEnds
    <3>2. OutAt(Job, taken) \in F
      BY <1>2, ContextTyped
    <3>3. OutAt(Job, taken) \o <<>> = OutAt(Job, taken) /\ <<>> \in F
      BY <3>2, JoinNothing
    <3> QED BY <3>1, <3>3
  <2>3. taken <= l + 1 \/ taken > l + 1
    <3> HIDE DEF l
    <3> QED BY <1>2
  <2> HIDE DEF l, all, F
  <2> QED BY <2>1, <2>2, <2>3
<1>5. \E rest \in F : OutAt(Job, taken) = r \o rest
  <2> DEFINE a == internal.buffer_frame
             b == InHand
             c == fctx.df
             d == Error(fctx.result)
  <2>1. a \in F /\ b \in F /\ c \in F /\ d \in F /\ r \in F
    BY Types DEF DInv
  <2>2. OutAt(Job, taken) = Joined(Joined(Joined(Joined(r, a), b), c), d)
    BY <1>1 DEF Shows, Shown, Joined
  <2> HIDE DEF a, b, c, d, r, F
  <2>3. \A x, y, z \in F : Joined(Joined(x, y), z) = Joined(x, Joined(y, z)) /\ Joined(x, y) \in F
    BY JoinedFacts DEF F
  <2>4. /\ Joined(r, a) \in F /\ Joined(Joined(r, a), b) \in F /\ Joined(c, d) \in F
        /\ Joined(b, Joined(c, d)) \in F /\ Joined(a, Joined(b, Joined(c, d))) \in F
    BY <2>1, <2>3
  <2>5. Joined(Joined(Joined(Joined(r, a), b), c), d) = Joined(Joined(Joined(r, a), b), Joined(c, d))
    BY <2>1, <2>3, <2>4
  <2>6. Joined(Joined(Joined(r, a), b), Joined(c, d)) = Joined(Joined(r, a), Joined(b, Joined(c, d)))
    BY <2>1, <2>3, <2>4
  <2>7. Joined(Joined(r, a), Joined(b, Joined(c, d))) = Joined(r, Joined(a, Joined(b, Joined(c, d))))
    BY <2>1, <2>3, <2>4
  <2>8. \E rest \in F : OutAt(Job, taken) = Joined(r, rest)
    BY <2>2, <2>4, <2>5, <2>6, <2>7
  <2> QED BY <2>8 DEF Joined
<1>6. IsPrefix(r, all)
  <2>1. PICK rest \in F : all = OutAt(Job, taken) \o rest
    BY <1>4
  <2>2. PICK more \in F : OutAt(Job, taken) = r \o more
    BY <1>5
  <2>3. all = Joined(Joined(r, more), rest)
    BY <2>1, <2>2 DEF Joined
  <2> HIDE DEF all, r, F
  <2>4. \A x, y, z \in F : Joined(Joined(x, y), z) = Joined(x, Joined(y, z)) /\ Joined(x, y) \in F
    BY JoinedFacts DEF F
  <2>5. all = Joined(r, Joined(more, rest)) /\ Joined(more, rest) \in F
    BY <1>2, <2>3, <2>4
  <2>6. \A x, y \in F : IsPrefix(x, Joined(x, y))
    BY PrefixIs DEF Joined, F
  <2> QED BY <1>2, <2>5, <2>6
<1>7. ASSUME Outside, user.ret = EOF
      PROVE  r = all
  <2>1. /\ internal.buffer_frame = <<>> /\ fctx.df = <<>> /\ fctx.result = 0
        /\ taken > l
    BY <1>1, <1>7 DEF DInv, CallState, NothingKept, Shows
  <2>2. ~Returning
    BY <1>7 DEF Outside, Returning
  <2>3. InHand = <<>> /\ Error(fctx.result) = <<>> /\ r \o <<>> = r
    BY <1>2, <2>1, <2>2, ErrorIs, JoinNothing DEF InHand
  <2>4. Shown = r
    BY <2>1, <2>3 DEF Shown
  <2>5. OutAt(Job, taken) = all
    BY <1>2, <2>1, OutEnds
  <2> QED BY <1>1, <2>4, <2>5 DEF Shows
<1> QED BY <1>3, <1>6, <1>7 DEF SameAsOneThread

LEMMA HungryFromDInv ==
    ASSUME DInv
    PROVE  AgainMeansHungry
<1> SUFFICES ASSUME Outside, user.ret = AGAIN, call \in {"receive", "sync"},
                    NEW late, late = IF call = "sync" THEN 0 ELSE thread_count - 1
             PROVE  /\ internal.buffer_pkt = 0 /\ internal.buffer_frame = <<>>
                    /\ IsPrefix(Sequential(SubSeq(history.fed, 1, Len(history.fed) - late)).out,
                                history.returned)
  BY DEF AgainMeansHungry
<1>1. PICK taken \in Nat : Given(taken) /\ Working(taken) /\ Ahead(taken) /\ Shows(taken)
  BY DEF DInv, Pipeline
<1> DEFINE F == Seq(FrameRecords)
           l == Len(history.fed)
           r == history.returned
<1>2. /\ internal.buffer_frame = <<>> /\ fctx.df = <<>> /\ fctx.result = 0
      /\ internal.buffer_pkt = 0 /\ ~internal.draining
  BY DEF DInv, CallState, NothingKept
<1>3. IsJob(Job) /\ l \in Nat /\ r \in F /\ Job.fed = history.fed /\ history.fed \in Seq(DOMAIN stream)
  BY DEF DInv, Data, Job
<1>4. OutAt(Job, taken) = r
  <2>1. ~Returning
    BY DEF Outside, Returning
  <2>2. InHand = <<>> /\ Error(fctx.result) = <<>> /\ r \o <<>> = r
    BY <1>2, <1>3, <2>1, ErrorIs, JoinNothing DEF InHand
  <2>3. Shown = r
    BY <1>2, <2>2 DEF Shown
  <2> QED BY <1>1, <2>3 DEF Shows
<1>5. OnTheWay \in 0 .. late /\ taken + OnTheWay = l /\ late \in Nat
  <2>1. OnTheWay \in 0 .. thread_count - 1
    <3>1. OnTheWay = Gap(next_finished, next_decoding)
          /\ next_finished \in Threads /\ next_decoding \in Threads
      BY RingFacts DEF DInv, Outside
    <3> QED BY <3>1, GapFacts
  <2>2. call = "sync" => OnTheWay = 0
    BY <1>1 DEF Shows
  <2>3. taken + OnTheWay = l
    BY <1>1, <1>2 DEF Given, Total
  <2> QED BY <2>1, <2>2, <2>3, SomeThreads
<1> DEFINE m == l - late
           s == Sequential(SubSeq(history.fed, 1, m)).out
<1>6. m \in Int /\ m <= taken /\ m <= l
  <2> HIDE DEF l
  <2> QED BY <1>3, <1>5
<1>7. CASE m >= 0
  <2>1. s = OutAt(Job, m)
    <3>1. m <= Len(Job.fed)
      BY <1>3, <1>6
    <3> HIDE DEF m
    <3> QED BY <3>1 DEF OutAt, DoneBy, Sequential, Job
  <2>2. m \in Nat
    BY <1>6, <1>7
  <2> HIDE DEF m, s, r
  <2>3. PICK rest \in F : OutAt(Job, taken) = OutAt(Job, m) \o rest
    BY <1>3, <1>6, <2>2, OutGrows
  <2>4. OutAt(Job, m) \in F
    BY <1>3, <2>2, ContextTyped
  <2>5. IsPrefix(OutAt(Job, m), OutAt(Job, m) \o rest)
    BY <2>4, PrefixIs
  <2> QED BY <1>2, <1>4, <2>1, <2>3, <2>5 DEF s, r, m
<1>8. CASE m < 0
  <2>1. Len(SubSeq(history.fed, 1, m)) = 0
    <3> HIDE DEF m, l
    <3> QED BY <1>3, <1>6, <1>8
  <2>2. s = <<>>
    <3> DEFINE p == SubSeq(history.fed, 1, m)
               none == [ctx |-> history.start, out |-> <<>>]
    <3>1. s = OneByOne(codec, stream, history.start, p).out
      BY DEF Sequential
    <3>2. OneByOne(codec, stream, history.start, p) = none
      <4> HIDE DEF p, m
      <4> QED BY <2>1, OneByOneNothing DEF p
    <3>3. none.out = <<>>
      OBVIOUS
    <3> HIDE DEF none, p, s
    <3> QED BY <3>1, <3>2, <3>3
  <2>3. IsPrefix(<<>>, r)
    <3>1. <<>> \in F /\ <<>> \o r = r
      BY <1>3, JoinNothing
    <3> HIDE DEF r
    <3> QED BY <1>3, <3>1, PrefixIs
  <2> HIDE DEF m
  <2> QED BY <1>2, <2>2, <2>3 DEF m
<1> QED BY <1>6, <1>7, <1>8

\* For any number of threads, any codec and any packets: as long as no worker has run
\* out of memory, what the user is returned is what a single thread returns, in the same
\* order and without loss, and at EOF all of it (submit_packet(),
\* ff_thread_receive_frame(), ff_thread_flush()).
THEOREM ThreadsMakeNoDifference == Spec => []SameAsOneThread
<1>1. WhileMemoryLasts => SameAsOneThread
  <2>1. CASE nomem = 0
    BY <2>1, SameFromDInv DEF WhileMemoryLasts
  <2>2. CASE nomem # 0
    BY <2>2 DEF SameAsOneThread
  <2> QED BY <2>1, <2>2
<1>2. QED
  BY <1>1, DInvHolds, PTL

\* As long as no worker has run out of memory, AVERROR(EAGAIN) is returned only when
\* the next packet will be accepted, with no more
\* packets on their way than there are threads besides one, none of a synchronous call
\* (ff_thread_receive_frame(), avcodec_send_packet()).
THEOREM AgainOnlyWhenHungry == Spec => []AgainMeansHungry
<1>1. WhileMemoryLasts => AgainMeansHungry
  <2>1. CASE nomem = 0
    BY <2>1, HungryFromDInv DEF WhileMemoryLasts
  <2>2. CASE nomem # 0
    BY <2>2 DEF AgainMeansHungry
  <2> QED BY <2>1, <2>2
<1>2. QED
  BY <1>1, DInvHolds, PTL
================================================================================
