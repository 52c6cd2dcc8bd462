--------------------------- MODULE NocClientProofs ---------------------------
(***************************************************************************)
(* Machine-checked proofs about NocClient, for any number of threads and   *)
(* windows, any window sizes in the order TWO_MEGS < FOUR_GIGS < 128 GiB,  *)
(* and any program of the threads.                                         *)
(***************************************************************************)
EXTENDS NocClient, FiniteSetTheorems, TLAPS

InCall == {"lock", "copy", "fault", "copied"}

\* The object's window is aimed but not mapped yet.
Bound(s) == s.pc \in {"mmap", "mmapping"}

\* The constructor has returned and ~NocWindow has not unmapped yet.
Built(s) == \/ s.pc \in {"ready", "access", "munmap", "munmapping"}
            \/ s.op = "reconfig"

Fits(s) == s.size <= WindowSize(s.win)

\* c is what the register of the object's window may be given.
GoodConfig(s, c) == /\ c \in Configs
                    /\ c.settings = s.settings
GoodTarget(s, c) == /\ GoodConfig(s, c)
                    /\ c.addr % WindowSize(s.win) = 0
                    /\ target[s.win] = c

GoodRequest(s, c) == /\ s.req \in Requests
                     /\ Checks(s.req, s.size)
                     /\ c = Aimed(s.req, s)

\* What is true of a thread wherever it stands in its call.
ThreadInv(s) ==
  /\ s.op # "none" <=> s.pc \in InCall
  /\ s.win = None <=> (s.pc = "idle" \/ s.op = "alloc")
  /\ s.win # None => holder[s.win] = {"fd"}
  /\ s.pc # "idle" => s.size > 0
  /\ s.op \in {"alloc", "config"} => GoodConfig(s, s.want)
  /\ s.op = "config" => Fits(s) /\ s.win \notin counted
  /\ Bound(s) => Fits(s) /\ s.win \notin counted /\ GoodTarget(s, s.want)
  /\ Built(s) => Fits(s) /\ s.win \in mapped /\ GoodTarget(s, s.config)
  /\ s.op = "reconfig" => GoodRequest(s, s.want)
  /\ s.pc = "access" => GoodRequest(s, s.config)
  /\ s.op = "dealloc" => s.win \notin counted
  /\ s.op = "undo" => /\ s.win \notin mapped
                      /\ s.win \in counted => "remap_fail" \in setup
  /\ (/\ s.plan # "keep"
      /\ s.pc = "ready" \/ s.op \in {"alloc", "config"} \/ Bound(s))
       => s.req \in Requests

\* No two objects share a window.
ExclusiveObjects ==
  \A t, u \in Threads : th[t].win = th[u].win /\ th[t].win # None => t = u

\* Only windows of this file are counted, and a window of this file is some
\* object's, or was left behind by a failed remap.
HeldAccounted ==
  /\ \A w \in counted : holder[w] = {"fd"}
  /\ \A w \in Windows : holder[w] = {"fd"} =>
       \/ \E t \in Threads : th[t].win = w
       \/ "remap_fail" \in setup /\ w \in counted \ mapped

ClientInv ==
  /\ TypeOK
  /\ \A t \in Threads : ThreadInv(th[t])
  /\ ExclusiveObjects
  /\ HeldAccounted

-----------------------------------------------------------------------------
\* The pool and the counts are the same at window v.
Same(v) == /\ holder'[v] = holder[v]
           /\ target'[v] = target[v]
           /\ v \in counted' <=> v \in counted
           /\ v \in mapped' <=> v \in mapped

PoolTypeOK == /\ holder \in [Windows -> {{}, {"fd"}, {"firmware"}}]
              /\ target \in [Windows -> Configs \cup {Identity, FirmwareTarget}]
              /\ counted \subseteq Windows
              /\ mapped \subseteq counted

\* Thread t goes on as x.
Becomes(t, x) == /\ th' \in [Threads -> ThreadStates]
                 /\ th'[t] = x
                 /\ \A u \in Threads : u # t => th'[u] = th[u]

\* Thread t goes on as x, and of the windows only its own, or one that nobody
\* held, is touched.
StepOf(t, x, w) ==
  /\ Becomes(t, x)
  /\ setup' = setup
  /\ fd' = fd
  /\ noc_lock' \in Threads \cup {None}
  /\ mmap_lock' \in Threads \cup {None}
  /\ PoolTypeOK'
  /\ \A v \in Windows : v # w => Same(v)
  /\ w # None => w = th[t].win \/ holder[w] = {}
  /\ th[t].win \in {None, w}
  /\ x.win \in {None, w}

\* The window that thread t touched is its object's, or was given back, or is
\* one that a failed remap leaves behind.
Disposed(x, w) ==
  /\ w \in counted' => holder'[w] = {"fd"}
  /\ holder'[w] = {"fd"} =>
       x.win = w \/ ("remap_fail" \in setup /\ w \in counted' \ mapped')

\* A thread's window is this file's.
LEMMA ObjectHolds ==
  ASSUME ClientInv, NEW u \in Threads, th[u].win # None
  PROVE  th[u].win \in Windows /\ holder[th[u].win] = {"fd"}
<1>1. th[u] \in ThreadStates /\ ThreadInv(th[u])
  BY DEF ClientInv, TypeOK
<1> QED BY <1>1 DEF ThreadStates, ThreadInv

\* A thread's window is its own: the steps of the others leave it alone.
LEMMA OthersKeep ==
  ASSUME ClientInv, NEW t \in Threads, NEW x \in ThreadStates,
         NEW w \in Windows \cup {None}, StepOf(t, x, w),
         NEW u \in Threads, u # t
  PROVE  ThreadInv(th[u])'
<1>1. th'[u] = th[u]
  BY DEF StepOf, Becomes
<1>2. th[u] \in ThreadStates /\ ThreadInv(th[u])
  BY DEF ClientInv, TypeOK
<1>3. th[u].win # None => th[u].win # w /\ th[u].win \in Windows
  BY ObjectHolds DEF StepOf, ClientInv, ExclusiveObjects
<1>4. th[u].win # None => Same(th[u].win)
  BY <1>3 DEF StepOf
<1>5. setup' = setup
  BY DEF StepOf
<1> QED BY <1>1, <1>2, <1>4, <1>5
  DEF ThreadInv, InCall, Same, Fits, GoodTarget, GoodConfig, GoodRequest, Bound,
      Built, Configs, Requests, Checks, Aimed, WindowSize, WindowAddr, Offset

\* What is left to show of a thread's step: its own part of the invariant.
LEMMA StepKeeps ==
  ASSUME ClientInv, NEW t \in Threads, NEW x \in ThreadStates,
         NEW w \in Windows \cup {None}, StepOf(t, x, w),
         w # None => Disposed(x, w),
         ThreadInv(th[t])'
  PROVE  ClientInv'
<1>1. th'[t] = x /\ th' \in [Threads -> ThreadStates]
  BY DEF StepOf, Becomes
<1>2. \A u \in Threads : u # t => th'[u] = th[u]
  BY DEF StepOf, Becomes
<1>3. TypeOK'
  BY <1>1 DEF StepOf, PoolTypeOK, ClientInv, TypeOK
<1>4. \A u \in Threads : ThreadInv(th[u])'
  BY OthersKeep
<1>5. ASSUME NEW u \in Threads, u # t, th[u].win # None PROVE th[u].win # w
  BY <1>5, ObjectHolds DEF StepOf, ClientInv, ExclusiveObjects
<1>6. ExclusiveObjects'
  BY <1>1, <1>2, <1>5 DEF StepOf, ClientInv, ExclusiveObjects
<1>7. \A v \in counted' : holder'[v] = {"fd"}
  BY <1>3, NoneAssumption
  DEF StepOf, Same, Disposed, ClientInv, HeldAccounted, TypeOK
<1>8. ASSUME NEW v \in Windows, holder'[v] = {"fd"}
      PROVE  \/ \E u \in Threads : th'[u].win = v
             \/ "remap_fail" \in setup' /\ v \in counted' \ mapped'
  <2>1. CASE v = w
    BY <1>1, <1>8, <2>1, NoneAssumption DEF Disposed, StepOf
  <2>2. CASE v # w
    <3>1. Same(v)
      BY <2>2 DEF StepOf
    <3>2. CASE "remap_fail" \in setup /\ v \in counted \ mapped
      BY <3>1, <3>2 DEF Same, StepOf
    <3>3. CASE \E u \in Threads : th[u].win = v
      <4>1. PICK u \in Threads : th[u].win = v
        BY <3>3
      <4>2. u # t
        BY <4>1, <2>2, NoneAssumption DEF StepOf
      <4> QED BY <4>1, <4>2, <1>2
    <3> QED BY <1>8, <3>1, <3>2, <3>3 DEF Same, ClientInv, HeldAccounted
  <2> QED BY <2>1, <2>2
<1> QED BY <1>3, <1>4, <1>6, <1>7, <1>8 DEF ClientInv, HeldAccounted

-----------------------------------------------------------------------------
\* The thread s with some of its fields changed.
With(s, pc, op, plan, win, config, want, req) ==
  [pc |-> pc, op |-> op, plan |-> plan, win |-> win, size |-> s.size,
   config |-> config, want |-> want, settings |-> s.settings, req |-> req]

\* Steps that leave the pool and the counts alone.
LEMMA QuietStep ==
  ASSUME ClientInv, NEW t \in Threads, NEW x \in ThreadStates,
         Becomes(t, x),
         UNCHANGED <<setup, fd, counted, pool>>,
         noc_lock' \in Threads \cup {None}, mmap_lock' \in Threads \cup {None},
         x.win = th[t].win,
         ThreadInv(x)
  PROVE  ClientInv'
<1>1. th[t].win \in Windows \cup {None}
  BY DEF ClientInv, TypeOK, ThreadStates
<1>2. StepOf(t, x, th[t].win)
  BY <1>1 DEF StepOf, PoolTypeOK, ClientInv, TypeOK, Same, pool
<1>3. th[t].win # None => Disposed(x, th[t].win)
  BY ObjectHolds DEF Disposed, pool
<1>4. th'[t] = x
  BY DEF Becomes
<1>5. ThreadInv(th[t])'
  BY <1>4 DEF pool, ThreadInv, InCall, Fits, GoodTarget, GoodConfig, GoodRequest,
      Bound, Built, Configs, Requests, Checks, Aimed, WindowSize, WindowAddr, Offset
<1> QED BY <1>1, <1>2, <1>3, <1>5, StepKeeps

\* The locks, as they are.
LEMMA LockTypes ==
  ClientInv => /\ noc_lock \in Threads \cup {None}
               /\ mmap_lock \in Threads \cup {None}
BY DEF ClientInv, TypeOK

\* One thread's record is replaced.
LEMMA Replaced ==
  ASSUME ClientInv, NEW t \in Threads, NEW x \in ThreadStates,
         th' = [th EXCEPT ![t] = x]
  PROVE  Becomes(t, x)
BY DEF Becomes, ClientInv, TypeOK

\* What the updates of a thread's fields come to, one operator and one lemma
\* for each set of fields that the actions change.
SetPlace(t, pc, op) ==
  th' = [th EXCEPT ![t].pc = pc, ![t].op = op]
LEMMA SetPlaceBecomes ==
  ASSUME ClientInv, NEW t \in Threads, NEW pc, NEW op,
         SetPlace(t, pc, op), NEW x \in ThreadStates,
         NEW s, s = th[t],
         x = With(s, pc, op, s.plan, s.win, s.config, s.want, s.req)
  PROVE  Becomes(t, x)
<1>1. th \in [Threads -> ThreadStates] /\ s \in ThreadStates
  BY DEF ClientInv, TypeOK
<1>2. th' = [th EXCEPT ![t] = [s EXCEPT !.pc = pc, !.op = op]]
  BY <1>1 DEF SetPlace
<1>3. [s EXCEPT !.pc = pc] =
        With(s, pc, s.op, s.plan, s.win, s.config, s.want, s.req)
  BY <1>1 DEF With, ThreadStates
<1>4. [With(s, pc, s.op, s.plan, s.win, s.config, s.want, s.req)
         EXCEPT !.op = op] =
        With(s, pc, op, s.plan, s.win, s.config, s.want, s.req)
  BY DEF With
<1> DEFINE y == [s EXCEPT !.pc = pc, !.op = op]
<1>8. y = With(s, pc, op, s.plan, s.win, s.config, s.want, s.req)
  BY <1>3, <1>4
<1>9. th' = [th EXCEPT ![t] = y]
  BY <1>2
<1> HIDE DEF y
<1> QED BY <1>8, <1>9, Replaced

SetRefused(t, pc, op, req, want) ==
  th' = [th EXCEPT ![t].pc = pc, ![t].op = op, ![t].req = req,
                   ![t].want = want]
LEMMA SetRefusedBecomes ==
  ASSUME ClientInv, NEW t \in Threads, NEW pc, NEW op, NEW req, NEW want,
         SetRefused(t, pc, op, req, want), NEW x \in ThreadStates,
         NEW s, s = th[t],
         x = With(s, pc, op, s.plan, s.win, s.config, want, req)
  PROVE  Becomes(t, x)
<1>1. th \in [Threads -> ThreadStates] /\ s \in ThreadStates
  BY DEF ClientInv, TypeOK
<1>2. th' = [th EXCEPT ![t] = [s EXCEPT !.pc = pc, !.op = op, !.req = req,
                                        !.want = want]]
  BY <1>1 DEF SetRefused
<1>3. [s EXCEPT !.pc = pc] =
        With(s, pc, s.op, s.plan, s.win, s.config, s.want, s.req)
  BY <1>1 DEF With, ThreadStates
<1>4. [With(s, pc, s.op, s.plan, s.win, s.config, s.want, s.req)
         EXCEPT !.op = op] =
        With(s, pc, op, s.plan, s.win, s.config, s.want, s.req)
  BY DEF With
<1>5. [With(s, pc, op, s.plan, s.win, s.config, s.want, s.req)
         EXCEPT !.req = req] =
        With(s, pc, op, s.plan, s.win, s.config, s.want, req)
  BY DEF With
<1>6. [With(s, pc, op, s.plan, s.win, s.config, s.want, req)
         EXCEPT !.want = want] =
        With(s, pc, op, s.plan, s.win, s.config, want, req)
  BY DEF With
<1> DEFINE y == [s EXCEPT !.pc = pc, !.op = op, !.req = req, !.want = want]
<1>7. [s EXCEPT !.pc = pc, !.op = op, !.req = req] =
        With(s, pc, op, s.plan, s.win, s.config, s.want, req)
  BY <1>3, <1>4, <1>5
<1>8. y = With(s, pc, op, s.plan, s.win, s.config, want, req)
  BY <1>6, <1>7
<1>9. th' = [th EXCEPT ![t] = y]
  BY <1>2
<1> HIDE DEF y
<1> QED BY <1>8, <1>9, Replaced

SetHit(t, pc, req) ==
  th' = [th EXCEPT ![t].pc = pc, ![t].req = req]
LEMMA SetHitBecomes ==
  ASSUME ClientInv, NEW t \in Threads, NEW pc, NEW req,
         SetHit(t, pc, req), NEW x \in ThreadStates,
         NEW s, s = th[t],
         x = With(s, pc, s.op, s.plan, s.win, s.config, s.want, req)
  PROVE  Becomes(t, x)
<1>1. th \in [Threads -> ThreadStates] /\ s \in ThreadStates
  BY DEF ClientInv, TypeOK
<1>2. th' = [th EXCEPT ![t] = [s EXCEPT !.pc = pc, !.req = req]]
  BY <1>1 DEF SetHit
<1>3. [s EXCEPT !.pc = pc] =
        With(s, pc, s.op, s.plan, s.win, s.config, s.want, s.req)
  BY <1>1 DEF With, ThreadStates
<1>4. [With(s, pc, s.op, s.plan, s.win, s.config, s.want, s.req)
         EXCEPT !.req = req] =
        With(s, pc, s.op, s.plan, s.win, s.config, s.want, req)
  BY DEF With
<1> DEFINE y == [s EXCEPT !.pc = pc, !.req = req]
<1>8. y = With(s, pc, s.op, s.plan, s.win, s.config, s.want, req)
  BY <1>3, <1>4
<1>9. th' = [th EXCEPT ![t] = y]
  BY <1>2
<1> HIDE DEF y
<1> QED BY <1>8, <1>9, Replaced

SetMiss(t, pc, op, want, req) ==
  th' = [th EXCEPT ![t].pc = pc, ![t].op = op, ![t].want = want,
                   ![t].req = req]
LEMMA SetMissBecomes ==
  ASSUME ClientInv, NEW t \in Threads, NEW pc, NEW op, NEW want, NEW req,
         SetMiss(t, pc, op, want, req), NEW x \in ThreadStates,
         NEW s, s = th[t],
         x = With(s, pc, op, s.plan, s.win, s.config, want, req)
  PROVE  Becomes(t, x)
<1>1. th \in [Threads -> ThreadStates] /\ s \in ThreadStates
  BY DEF ClientInv, TypeOK
<1>2. th' = [th EXCEPT ![t] = [s EXCEPT !.pc = pc, !.op = op, !.want = want,
                                        !.req = req]]
  BY <1>1 DEF SetMiss
<1>3. [s EXCEPT !.pc = pc] =
        With(s, pc, s.op, s.plan, s.win, s.config, s.want, s.req)
  BY <1>1 DEF With, ThreadStates
<1>4. [With(s, pc, s.op, s.plan, s.win, s.config, s.want, s.req)
         EXCEPT !.op = op] =
        With(s, pc, op, s.plan, s.win, s.config, s.want, s.req)
  BY DEF With
<1>5. [With(s, pc, op, s.plan, s.win, s.config, s.want, s.req)
         EXCEPT !.want = want] =
        With(s, pc, op, s.plan, s.win, s.config, want, s.req)
  BY DEF With
<1>6. [With(s, pc, op, s.plan, s.win, s.config, want, s.req)
         EXCEPT !.req = req] =
        With(s, pc, op, s.plan, s.win, s.config, want, req)
  BY DEF With
<1> DEFINE y == [s EXCEPT !.pc = pc, !.op = op, !.want = want, !.req = req]
<1>7. [s EXCEPT !.pc = pc, !.op = op, !.want = want] =
        With(s, pc, op, s.plan, s.win, s.config, want, s.req)
  BY <1>3, <1>4, <1>5
<1>8. y = With(s, pc, op, s.plan, s.win, s.config, want, req)
  BY <1>6, <1>7
<1>9. th' = [th EXCEPT ![t] = y]
  BY <1>2
<1> HIDE DEF y
<1> QED BY <1>8, <1>9, Replaced

SetAccessed(t, pc, req, plan) ==
  th' = [th EXCEPT ![t].pc = pc, ![t].req = req, ![t].plan = plan]
LEMMA SetAccessedBecomes ==
  ASSUME ClientInv, NEW t \in Threads, NEW pc, NEW req, NEW plan,
         SetAccessed(t, pc, req, plan), NEW x \in ThreadStates,
         NEW s, s = th[t],
         x = With(s, pc, s.op, plan, s.win, s.config, s.want, req)
  PROVE  Becomes(t, x)
<1>1. th \in [Threads -> ThreadStates] /\ s \in ThreadStates
  BY DEF ClientInv, TypeOK
<1>2. th' = [th EXCEPT ![t] = [s EXCEPT !.pc = pc, !.req = req, !.plan = plan]]
  BY <1>1 DEF SetAccessed
<1>3. [s EXCEPT !.pc = pc] =
        With(s, pc, s.op, s.plan, s.win, s.config, s.want, s.req)
  BY <1>1 DEF With, ThreadStates
<1>4. [With(s, pc, s.op, s.plan, s.win, s.config, s.want, s.req)
         EXCEPT !.req = req] =
        With(s, pc, s.op, s.plan, s.win, s.config, s.want, req)
  BY DEF With
<1>5. [With(s, pc, s.op, s.plan, s.win, s.config, s.want, req)
         EXCEPT !.plan = plan] =
        With(s, pc, s.op, plan, s.win, s.config, s.want, req)
  BY DEF With
<1> DEFINE y == [s EXCEPT !.pc = pc, !.req = req, !.plan = plan]
<1>8. y = With(s, pc, s.op, plan, s.win, s.config, s.want, req)
  BY <1>3, <1>4, <1>5
<1>9. th' = [th EXCEPT ![t] = y]
  BY <1>2
<1> HIDE DEF y
<1> QED BY <1>8, <1>9, Replaced

SetWindow(t, pc, win, op) ==
  th' = [th EXCEPT ![t].pc = pc, ![t].win = win, ![t].op = op]
LEMMA SetWindowBecomes ==
  ASSUME ClientInv, NEW t \in Threads, NEW pc, NEW win, NEW op,
         SetWindow(t, pc, win, op), NEW x \in ThreadStates,
         NEW s, s = th[t],
         x = With(s, pc, op, s.plan, win, s.config, s.want, s.req)
  PROVE  Becomes(t, x)
<1>1. th \in [Threads -> ThreadStates] /\ s \in ThreadStates
  BY DEF ClientInv, TypeOK
<1>2. th' = [th EXCEPT ![t] = [s EXCEPT !.pc = pc, !.win = win, !.op = op]]
  BY <1>1 DEF SetWindow
<1>3. [s EXCEPT !.pc = pc] =
        With(s, pc, s.op, s.plan, s.win, s.config, s.want, s.req)
  BY <1>1 DEF With, ThreadStates
<1>4. [With(s, pc, s.op, s.plan, s.win, s.config, s.want, s.req)
         EXCEPT !.win = win] =
        With(s, pc, s.op, s.plan, win, s.config, s.want, s.req)
  BY DEF With
<1>5. [With(s, pc, s.op, s.plan, win, s.config, s.want, s.req)
         EXCEPT !.op = op] =
        With(s, pc, op, s.plan, win, s.config, s.want, s.req)
  BY DEF With
<1> DEFINE y == [s EXCEPT !.pc = pc, !.win = win, !.op = op]
<1>8. y = With(s, pc, op, s.plan, win, s.config, s.want, s.req)
  BY <1>3, <1>4, <1>5
<1>9. th' = [th EXCEPT ![t] = y]
  BY <1>2
<1> HIDE DEF y
<1> QED BY <1>8, <1>9, Replaced

SetAimed(t, pc, op, config, want) ==
  th' = [th EXCEPT ![t].pc = pc, ![t].op = op, ![t].config = config,
                   ![t].want = want]
LEMMA SetAimedBecomes ==
  ASSUME ClientInv, NEW t \in Threads, NEW pc, NEW op, NEW config, NEW want,
         SetAimed(t, pc, op, config, want), NEW x \in ThreadStates,
         NEW s, s = th[t],
         x = With(s, pc, op, s.plan, s.win, config, want, s.req)
  PROVE  Becomes(t, x)
<1>1. th \in [Threads -> ThreadStates] /\ s \in ThreadStates
  BY DEF ClientInv, TypeOK
<1>2. th' = [th EXCEPT ![t] = [s EXCEPT !.pc = pc, !.op = op,
                                        !.config = config, !.want = want]]
  BY <1>1 DEF SetAimed
<1>3. [s EXCEPT !.pc = pc] =
        With(s, pc, s.op, s.plan, s.win, s.config, s.want, s.req)
  BY <1>1 DEF With, ThreadStates
<1>4. [With(s, pc, s.op, s.plan, s.win, s.config, s.want, s.req)
         EXCEPT !.op = op] =
        With(s, pc, op, s.plan, s.win, s.config, s.want, s.req)
  BY DEF With
<1>5. [With(s, pc, op, s.plan, s.win, s.config, s.want, s.req)
         EXCEPT !.config = config] =
        With(s, pc, op, s.plan, s.win, config, s.want, s.req)
  BY DEF With
<1>6. [With(s, pc, op, s.plan, s.win, config, s.want, s.req)
         EXCEPT !.want = want] =
        With(s, pc, op, s.plan, s.win, config, want, s.req)
  BY DEF With
<1> DEFINE y == [s EXCEPT !.pc = pc, !.op = op, !.config = config,
                          !.want = want]
<1>7. [s EXCEPT !.pc = pc, !.op = op, !.config = config] =
        With(s, pc, op, s.plan, s.win, config, s.want, s.req)
  BY <1>3, <1>4, <1>5
<1>8. y = With(s, pc, op, s.plan, s.win, config, want, s.req)
  BY <1>6, <1>7
<1>9. th' = [th EXCEPT ![t] = y]
  BY <1>2
<1> HIDE DEF y
<1> QED BY <1>8, <1>9, Replaced

SetMapped(t, pc, config, want) ==
  th' = [th EXCEPT ![t].pc = pc, ![t].config = config, ![t].want = want]
LEMMA SetMappedBecomes ==
  ASSUME ClientInv, NEW t \in Threads, NEW pc, NEW config, NEW want,
         SetMapped(t, pc, config, want), NEW x \in ThreadStates,
         NEW s, s = th[t],
         x = With(s, pc, s.op, s.plan, s.win, config, want, s.req)
  PROVE  Becomes(t, x)
<1>1. th \in [Threads -> ThreadStates] /\ s \in ThreadStates
  BY DEF ClientInv, TypeOK
<1>2. th' = [th EXCEPT ![t] = [s EXCEPT !.pc = pc, !.config = config,
                                        !.want = want]]
  BY <1>1 DEF SetMapped
<1>3. [s EXCEPT !.pc = pc] =
        With(s, pc, s.op, s.plan, s.win, s.config, s.want, s.req)
  BY <1>1 DEF With, ThreadStates
<1>4. [With(s, pc, s.op, s.plan, s.win, s.config, s.want, s.req)
         EXCEPT !.config = config] =
        With(s, pc, s.op, s.plan, s.win, config, s.want, s.req)
  BY DEF With
<1>5. [With(s, pc, s.op, s.plan, s.win, config, s.want, s.req)
         EXCEPT !.want = want] =
        With(s, pc, s.op, s.plan, s.win, config, want, s.req)
  BY DEF With
<1> DEFINE y == [s EXCEPT !.pc = pc, !.config = config, !.want = want]
<1>8. y = With(s, pc, s.op, s.plan, s.win, config, want, s.req)
  BY <1>3, <1>4, <1>5
<1>9. th' = [th EXCEPT ![t] = y]
  BY <1>2
<1> HIDE DEF y
<1> QED BY <1>8, <1>9, Replaced

\* A thread, and what the invariant says of it.
LEMMA ThreadOf ==
  ASSUME ClientInv, NEW t \in Threads
  PROVE  th[t] \in ThreadStates /\ ThreadInv(th[t])
BY DEF ClientInv, TypeOK

PCs == {"idle", "lock", "copy", "fault", "copied", "mmap", "mmapping", "ready",
        "access", "munmap", "munmapping"}
Ops == {"none", "alloc", "config", "reconfig", "dealloc", "undo"}

\* A step that only moves a thread along.
LEMMA PlaceKeeps ==
  ASSUME ClientInv, NEW t \in Threads, NEW pc \in PCs, NEW op \in Ops,
         SetPlace(t, pc, op),
         UNCHANGED <<setup, fd, counted, pool>>,
         noc_lock' \in Threads \cup {None}, mmap_lock' \in Threads \cup {None},
         NEW s, s = th[t],
         ThreadInv(With(s, pc, op, s.plan, s.win, s.config, s.want, s.req))
  PROVE  ClientInv'
<1> DEFINE x == With(s, pc, op, s.plan, s.win, s.config, s.want, s.req)
<1>1. s \in ThreadStates
  BY ThreadOf
<1>2. x \in ThreadStates /\ x.win = s.win
  BY <1>1 DEF ThreadStates, With, PCs, Ops
<1>3. ThreadInv(x)
  OBVIOUS
<1> HIDE DEF x
<1>4. Becomes(t, x)
  BY <1>2, SetPlaceBecomes DEF x
<1> QED BY <1>2, <1>3, <1>4, QuietStep

-----------------------------------------------------------------------------
\* ioctl(2) takes noc->lock.
LEMMA LockNocKeeps ==
  ASSUME ClientInv, NEW t \in Threads, LockNoc(t) PROVE ClientInv'
<1>1. PICK s : s = th[t] /\ s \in ThreadStates /\ ThreadInv(s)
  BY ThreadOf
<1>2. s.pc = "lock" /\ SetPlace(t, "copy", s.op)
  BY <1>1 DEF LockNoc, Goto, SetPlace
<1>3. ThreadInv(With(s, "copy", s.op, s.plan, s.win, s.config, s.want, s.req))
  BY <1>1, <1>2 DEF With, ThreadInv, InCall, Fits, GoodTarget, GoodConfig,
     GoodRequest, Bound, Built, Aimed
<1> QED BY <1>1, <1>2, <1>3, PlaceKeeps, LockTypes
  DEF LockNoc, locks, PCs, Ops, ThreadStates

\* A page fault of the copy, and its end.
LEMMA FaultKeeps ==
  ASSUME ClientInv, NEW t \in Threads, Fault(t) PROVE ClientInv'
<1>1. PICK s : s = th[t] /\ s \in ThreadStates /\ ThreadInv(s)
  BY ThreadOf
<1>2. s.pc = "copy" /\ SetPlace(t, "fault", s.op)
  BY <1>1 DEF Fault, Goto, SetPlace
<1>3. ThreadInv(With(s, "fault", s.op, s.plan, s.win, s.config, s.want, s.req))
  BY <1>1, <1>2 DEF With, ThreadInv, InCall, Fits, GoodTarget, GoodConfig,
     GoodRequest, Bound, Built, Aimed
<1> QED BY <1>1, <1>2, <1>3, PlaceKeeps, LockTypes
  DEF Fault, locks, PCs, Ops, ThreadStates

LEMMA FaultDoneKeeps ==
  ASSUME ClientInv, NEW t \in Threads, FaultDone(t) PROVE ClientInv'
<1>1. PICK s : s = th[t] /\ s \in ThreadStates /\ ThreadInv(s)
  BY ThreadOf
<1>2. s.pc = "fault" /\ SetPlace(t, "copied", s.op)
  BY <1>1 DEF FaultDone, Goto, SetPlace
<1>3. ThreadInv(With(s, "copied", s.op, s.plan, s.win, s.config, s.want, s.req))
  BY <1>1, <1>2 DEF With, ThreadInv, InCall, Fits, GoodTarget, GoodConfig,
     GoodRequest, Bound, Built, Aimed
<1> QED BY <1>1, <1>2, <1>3, PlaceKeeps, LockTypes
  DEF FaultDone, locks, PCs, Ops, ThreadStates

\* ~NocWindow begins.
LEMMA DestroyKeeps ==
  ASSUME ClientInv, NEW t \in Threads, Destroy(t) PROVE ClientInv'
<1>1. PICK s : s = th[t] /\ s \in ThreadStates /\ ThreadInv(s)
  BY ThreadOf
<1>2. s.pc = "ready" /\ SetPlace(t, "munmap", "none")
  BY <1>1 DEF Destroy, Goto, SetPlace
<1>3. ThreadInv(With(s, "munmap", "none", s.plan, s.win, s.config, s.want, s.req))
  BY <1>1, <1>2 DEF With, ThreadInv, InCall, Fits, GoodTarget, GoodConfig,
     GoodRequest, Bound, Built, Aimed
<1> QED BY <1>1, <1>2, <1>3, PlaceKeeps, LockTypes
  DEF Destroy, locks, PCs, Ops, ThreadStates

\* mmap(2) and munmap(2) take mmap_lock.
LEMMA LockMmapKeeps ==
  ASSUME ClientInv, NEW t \in Threads, LockMmap(t) PROVE ClientInv'
<1>1. PICK s : s = th[t] /\ s \in ThreadStates /\ ThreadInv(s)
  BY ThreadOf
<1>2. PICK pc : /\ pc = IF th[t].pc = "mmap" THEN "mmapping" ELSE "munmapping"
                /\ SetPlace(t, pc, "none")
  BY DEF LockMmap, Goto, SetPlace
<1>3. \/ s.pc = "mmap" /\ pc = "mmapping"
      \/ s.pc = "munmap" /\ pc = "munmapping"
  BY <1>1, <1>2 DEF LockMmap
<1>4. ThreadInv(With(s, pc, "none", s.plan, s.win, s.config, s.want, s.req))
  BY <1>1, <1>3 DEF With, ThreadInv, InCall, Fits, GoodTarget, GoodConfig,
     GoodRequest, Bound, Built, Aimed
<1> QED BY <1>1, <1>2, <1>3, <1>4, PlaceKeeps, LockTypes
  DEF LockMmap, PCs, Ops

-----------------------------------------------------------------------------
\* Calls of the program.
\* A constructor starts with the ALLOC ioctl.
LEMMA NewWindowKeeps ==
  ASSUME ClientInv, NEW t \in Threads, NEW size \in Nat \ {0}, NEW c \in Configs,
         NEW plan \in {"keep", "call", "tensix"}, NEW r \in Requests \cup {None},
         plan # "keep" => r \in Requests,
         NewWindow(t, size, c, plan, r)
  PROVE  ClientInv'
<1> DEFINE x == [pc |-> "lock", op |-> "alloc", plan |-> plan, win |-> None,
                 size |-> size, config |-> None, want |-> c,
                 settings |-> c.settings, req |-> r]
<1>1. th[t] = Idle /\ th' = [th EXCEPT ![t] = x]
  BY DEF NewWindow
<1>2. x \in ThreadStates /\ x.win = th[t].win
  BY <1>1 DEF ThreadStates, Idle, Configs
<1>3. ThreadInv(x)
  BY DEF ThreadInv, InCall, GoodConfig, Bound, Built
<1> HIDE DEF x
<1>4. Becomes(t, x)
  BY <1>1, <1>2, Replaced
<1> QED BY <1>2, <1>3, <1>4, QuietStep, LockTypes DEF NewWindow, locks

LEMMA OpenKeeps ==
  ASSUME ClientInv, NEW t \in Threads, Construct(t) \/ OneShot(t) \/ OpenTensix(t)
  PROVE  ClientInv'
<1>1. DefaultConfig \in Configs
  BY DefaultAssumption DEF DefaultConfig, Configs
<1>2. TwoMegs \in Nat \ {0} /\ FourGigs \in Nat \ {0}
  BY SizeAssumption
<1>3. CASE Construct(t)
  BY <1>3, NewWindowKeeps, ProgramAssumption DEF Construct, Configs
<1>4. CASE OneShot(t)
  <2>1. PICK r \in Requests, size \in {TwoMegs, FourGigs} :
          NewWindow(t, size, DefaultConfig, "call", r)
    BY <1>4, ProgramAssumption DEF OneShot, Requests
  <2> QED BY <1>1, <1>2, <2>1, NewWindowKeeps
<1>5. CASE OpenTensix(t)
  <2>1. PICK r \in Requests : NewWindow(t, TwoMegs, DefaultConfig, "tensix", r)
    BY <1>5, ProgramAssumption DEF OpenTensix, Requests
  <2> QED BY <1>1, <1>2, <2>1, NewWindowKeeps
<1> QED BY <1>3, <1>4, <1>5

\* The part of an address below it is an address.
LEMMA WindowAddrNat ==
  ASSUME NEW addr \in Nat, NEW size \in Nat \ {0}
  PROVE  /\ WindowAddr(addr, size) \in Nat
         /\ Offset(addr, size) \in 0..size-1
         /\ WindowAddr(addr, size) + Offset(addr, size) = addr
<1>1. addr % size \in 0..size-1 /\ addr % size <= addr
  OBVIOUS
<1> QED BY <1>1 DEF WindowAddr, Offset

\* A built object's next configuration is well formed.
LEMMA AimedConfig ==
  ASSUME NEW s \in ThreadStates, ThreadInv(s), Built(s), NEW r \in Requests
  PROVE  GoodConfig(s, Aimed(r, s))
<1>1. s.settings \in Settings /\ s.size \in Nat \ {0}
  BY DEF ThreadInv, ThreadStates, Built, GoodTarget, GoodConfig, Configs, InCall
<1>2. WindowAddr(r.addr, s.size) \in Nat /\ r.tile \in Tiles
  BY <1>1, WindowAddrNat DEF Requests
<1> QED BY <1>1, <1>2 DEF GoodConfig, Aimed, Configs

\* read_block and write_block: refused, served by the cache, or an ioctl.
LEMMA RequestKeeps ==
  ASSUME ClientInv, NEW t \in Threads, NEW r \in Requests, Request(t, r)
  PROVE  ClientInv'
<1>1. PICK s : s = th[t] /\ s \in ThreadStates /\ ThreadInv(s) /\ s.pc = "ready"
  BY ThreadOf DEF Request
<1>2. PICK c : c = Aimed(r, s) /\ GoodConfig(s, c)
  BY <1>1, AimedConfig DEF Built
<1>3. CASE Refuse(t)
  <2> DEFINE pc == IF s.plan = "keep" THEN "ready" ELSE "munmap"
             x == With(s, pc, "none", s.plan, s.win, s.config, None, None)
  <2>1. SetRefused(t, pc, "none", None, None)
    BY <1>1, <1>3 DEF Refuse, SetRefused
  <2>2. x \in ThreadStates /\ x.win = s.win
    BY <1>1 DEF ThreadStates, With
  <2>3. ThreadInv(x)
    BY <1>1 DEF With, ThreadInv, InCall, Fits, GoodTarget, GoodConfig,
       GoodRequest, Bound, Built
  <2> HIDE DEF x, pc
  <2>4. Becomes(t, x)
    BY <1>1, <2>1, <2>2, SetRefusedBecomes DEF x
  <2> QED BY <1>1, <2>2, <2>3, <2>4, QuietStep, LockTypes DEF Request, locks
<1>4. CASE SetHit(t, "access", r) /\ c = s.config /\ Checks(r, s.size)
  <2> DEFINE x == With(s, "access", s.op, s.plan, s.win, s.config, s.want, r)
  <2>1. x \in ThreadStates /\ x.win = s.win
    BY <1>1 DEF ThreadStates, With
  <2>2. ThreadInv(x)
    BY <1>1, <1>2, <1>4 DEF With, ThreadInv, InCall, Fits, GoodTarget, GoodConfig,
       GoodRequest, Bound, Built, Aimed
  <2> HIDE DEF x
  <2>3. Becomes(t, x)
    BY <1>1, <1>4, <2>1, SetHitBecomes DEF x
  <2> QED BY <1>1, <2>1, <2>2, <2>3, QuietStep, LockTypes DEF Request, locks
<1>5. CASE SetMiss(t, "lock", "reconfig", c, r) /\ Checks(r, s.size)
  <2> DEFINE x == With(s, "lock", "reconfig", s.plan, s.win, s.config, c, r)
  <2>1. x \in ThreadStates /\ x.win = s.win
    BY <1>1, <1>2 DEF ThreadStates, With, GoodConfig
  <2>2. ThreadInv(x)
    BY <1>1, <1>2, <1>5 DEF With, ThreadInv, InCall, Fits, GoodTarget, GoodConfig,
       GoodRequest, Bound, Built, Aimed
  <2> HIDE DEF x
  <2>3. Becomes(t, x)
    BY <1>1, <1>5, <2>1, SetMissBecomes DEF x
  <2> QED BY <1>1, <2>1, <2>2, <2>3, QuietStep, LockTypes DEF Request, locks
<1> QED BY <1>1, <1>2, <1>3, <1>4, <1>5 DEF Request, SetHit, SetMiss

\* The load or store.
LEMMA AccessKeeps ==
  ASSUME ClientInv, NEW t \in Threads, Access(t) PROVE ClientInv'
<1>1. PICK s : s = th[t] /\ s \in ThreadStates /\ ThreadInv(s)
  BY ThreadOf
<1>2. s.pc = "access"
  BY <1>1 DEF Access
<1>3. \E pc \in {AfterCall(th[t]), "munmap"} :
        SetAccessed(t, pc, None, IF th[t].plan = "tensix" THEN "keep" ELSE th[t].plan)
  BY DEF Access, SetAccessed
<1>4. PICK pc, plan :
        /\ pc \in {AfterCall(s), "munmap"}
        /\ plan = IF s.plan = "tensix" THEN "keep" ELSE s.plan
        /\ SetAccessed(t, pc, None, plan)
  BY <1>1, <1>3
<1> DEFINE x == With(s, pc, s.op, plan, s.win, s.config, s.want, None)
<1>5. x \in ThreadStates /\ x.win = s.win
  BY <1>1, <1>4 DEF ThreadStates, With, AfterCall
<1>6. pc \in {"ready", "munmap"} /\ (pc = "ready" => plan = "keep")
  BY <1>1, <1>4 DEF ThreadStates, AfterCall
<1>7. ThreadInv(x)
  BY <1>1, <1>2, <1>6 DEF With, ThreadInv, InCall, Fits, GoodTarget,
     GoodConfig, GoodRequest, Bound, Built
<1> HIDE DEF x
<1>8. Becomes(t, x)
  BY <1>1, <1>4, <1>5, SetAccessedBecomes DEF x
<1> QED BY <1>1, <1>5, <1>7, <1>8, QuietStep, LockTypes DEF Access, locks

-----------------------------------------------------------------------------
\* The ioctls.
LEMMA WindowSizeNat == \A w : WindowSize(w) \in Nat \ {0}
BY SizeAssumption DEF WindowSize

LEMMA IdleInv == Idle \in ThreadStates /\ Idle.win = None /\ ThreadInv(Idle)
BY DEF Idle, ThreadStates, ThreadInv, InCall, Bound, Built

\* ALLOC: the window was nobody's, so no other thread's and not counted.
LEMMA IoctlAllocKeeps ==
  ASSUME ClientInv, NEW t \in Threads, IoctlAlloc(t) PROVE ClientInv'
<1>1. PICK s : s = th[t] /\ s \in ThreadStates /\ ThreadInv(s)
  BY ThreadOf
<1>2. s.pc \in {"copy", "copied"} /\ s.op = "alloc" /\ s.win = None
  BY <1>1 DEF IoctlAlloc, InIoctl, ThreadInv
<1>3. noc_lock' \in Threads \cup {None} /\ mmap_lock' \in Threads \cup {None}
  BY LockTypes DEF IoctlAlloc, Unlock
<1>4. CASE Gone(t) /\ UNCHANGED pool
  <2>1. Becomes(t, Idle)
    BY <1>4, IdleInv, Replaced DEF Gone
  <2> QED BY <1>1, <1>2, <1>3, <1>4, <2>1, IdleInv, QuietStep DEF IoctlAlloc
<1>5. ASSUME NEW w \in FirstFree(Kind(s.size)), Pool!Acquire("fd", w),
             NEW op, op = IF s.size > WindowSize(w) THEN "undo" ELSE "config",
             SetWindow(t, "lock", w, op)
      PROVE  ClientInv'
  <2> DEFINE x == With(s, "lock", op, s.plan, w, s.config, s.want, s.req)
  <2>1. w \in Windows /\ holder[w] = {} /\ w \notin counted /\ w # None
    BY NoneAssumption DEF FirstFree, ClientInv, HeldAccounted
  <2>2. x \in ThreadStates
    BY <1>1, <1>5, <2>1 DEF ThreadStates, With
  <2>3. x.win = w /\ x.op = op
    BY DEF With
  <2>4. /\ holder' = [holder EXCEPT ![w] = {"fd"}] /\ holder'[w] = {"fd"}
        /\ UNCHANGED <<target, mapped, counted, setup, fd>>
    BY <1>5, <2>1 DEF Pool!Acquire, IoctlAlloc, ClientInv, TypeOK
  <2>5. op = "config" => s.size <= WindowSize(w)
    BY <1>1, <1>5, WindowSizeNat DEF ThreadStates
  <2>6. ThreadInv(x)'
    <3>1. mapped \subseteq counted
      BY DEF ClientInv, TypeOK
    <3> QED BY <1>1, <1>2, <1>5, <2>1, <2>4, <2>5, <3>1
      DEF With, ThreadInv, InCall, Fits, GoodConfig, Bound, Built, WindowSize,
          Configs, Requests
  <2> HIDE DEF x
  <2>7. Becomes(t, x)
    BY <1>1, <1>5, <2>2, SetWindowBecomes DEF x
  <2>8. StepOf(t, x, w)
    BY <1>1, <1>2, <1>3, <2>1, <2>3, <2>4, <2>7
    DEF StepOf, PoolTypeOK, ClientInv, TypeOK, Same
  <2>9. ThreadInv(th[t])'
    BY <2>6, <2>7 DEF Becomes
  <2> QED BY <2>1, <2>2, <2>3, <2>4, <2>8, <2>9, StepKeeps DEF Disposed
<1> QED
  <2>1. \/ Gone(t) /\ UNCHANGED pool
        \/ \E w \in FirstFree(Kind(s.size)) :
             /\ Pool!Acquire("fd", w)
             /\ SetWindow(t, "lock", w,
                          IF s.size > WindowSize(w) THEN "undo" ELSE "config")
    BY <1>1 DEF IoctlAlloc, SetWindow
  <2> QED BY <1>4, <1>5, <2>1

\* CONFIG aims the caller's own window.
LEMMA AimKeeps ==
  ASSUME ClientInv, NEW t \in Threads, NEW s, s = th[t], s.win # None,
         NEW x \in ThreadStates, Becomes(t, x), x.win = s.win,
         NEW c \in Configs, Pool!Aim("fd", s.win, c),
         UNCHANGED <<setup, fd, counted>>,
         noc_lock' \in Threads \cup {None}, mmap_lock' \in Threads \cup {None},
         (target'[s.win] = c) => ThreadInv(x)'
  PROVE  ClientInv'
<1>1. s.win \in Windows /\ holder[s.win] = {"fd"}
  BY ObjectHolds
<1>2. /\ target' = [target EXCEPT ![s.win] = c] /\ target'[s.win] = c
      /\ UNCHANGED <<holder, mapped>>
  BY <1>1 DEF Pool!Aim, ClientInv, TypeOK
<1>3. StepOf(t, x, s.win)
  BY <1>1, <1>2 DEF StepOf, PoolTypeOK, ClientInv, TypeOK, Same
<1>4. ThreadInv(th[t])'
  BY <1>2 DEF Becomes
<1> QED BY <1>1, <1>2, <1>3, <1>4, StepKeeps DEF Disposed

LEMMA IoctlConfigKeeps ==
  ASSUME ClientInv, NEW t \in Threads, IoctlConfig(t) PROVE ClientInv'
<1>1. PICK s : s = th[t] /\ s \in ThreadStates /\ ThreadInv(s)
  BY ThreadOf
<1>2. s.pc \in {"copy", "copied"} /\ s.op = "config" /\ s.win # None
  BY <1>1 DEF IoctlConfig, InIoctl, ThreadInv
<1>3. /\ noc_lock' \in Threads \cup {None} /\ mmap_lock' \in Threads \cup {None}
      /\ UNCHANGED <<setup, fd, counted>>
  BY LockTypes DEF IoctlConfig, Unlock
<1>4. \/ /\ s.want.addr % WindowSize(s.win) = 0
         /\ Pool!Aim("fd", s.win, s.want)
         /\ SetPlace(t, "mmap", "none")
      \/ UNCHANGED pool /\ SetPlace(t, "lock", "undo")
  BY <1>1 DEF IoctlConfig, Aligned, Goto, SetPlace
<1>5. CASE UNCHANGED pool /\ SetPlace(t, "lock", "undo")
  <2>1. mapped \subseteq counted
    BY DEF ClientInv, TypeOK
  <2>2. ThreadInv(With(s, "lock", "undo", s.plan, s.win, s.config, s.want, s.req))
    BY <1>1, <1>2, <2>1 DEF With, ThreadInv, InCall, Bound, Built
  <2> QED BY <1>1, <1>3, <1>5, <2>2, PlaceKeeps DEF PCs, Ops
<1>6. CASE /\ s.want.addr % WindowSize(s.win) = 0
           /\ Pool!Aim("fd", s.win, s.want)
           /\ SetPlace(t, "mmap", "none")
  <2> DEFINE x == With(s, "mmap", "none", s.plan, s.win, s.config, s.want, s.req)
  <2>1. x \in ThreadStates /\ x.win = s.win
    BY <1>1 DEF ThreadStates, With
  <2>2. s.want \in Configs
    BY <1>1, <1>2 DEF ThreadInv, GoodConfig
  <2>3. UNCHANGED <<holder, mapped>>
    BY <1>6 DEF Pool!Aim
  <2>4. ASSUME target'[s.win] = s.want PROVE ThreadInv(x)'
    BY <1>1, <1>2, <1>3, <1>6, <2>3, <2>4
    DEF With, ThreadInv, InCall, Fits, GoodConfig, GoodTarget, Bound, Built,
        WindowSize, Configs, Requests
  <2> HIDE DEF x
  <2>5. Becomes(t, x)
    BY <1>1, <1>6, <2>1, SetPlaceBecomes DEF x
  <2> QED BY <1>1, <1>2, <1>3, <1>6, <2>1, <2>2, <2>4, <2>5, AimKeeps
<1> QED BY <1>4, <1>5, <1>6

\* reconfigure: the cache follows what the ioctl did, a success or a refusal.
LEMMA IoctlReconfigKeeps ==
  ASSUME ClientInv, NEW t \in Threads, IoctlReconfig(t) PROVE ClientInv'
<1>1. PICK s : s = th[t] /\ s \in ThreadStates /\ ThreadInv(s)
  BY ThreadOf
<1>2. s.pc \in {"copy", "copied"} /\ s.op = "reconfig" /\ s.win # None
  BY <1>1 DEF IoctlReconfig, InIoctl, ThreadInv
<1>3. /\ noc_lock' \in Threads \cup {None} /\ mmap_lock' \in Threads \cup {None}
      /\ UNCHANGED <<setup, fd, counted>>
  BY LockTypes DEF IoctlReconfig, Unlock
<1>4. \/ /\ s.want.addr % WindowSize(s.win) = 0
         /\ Pool!Aim("fd", s.win, s.want)
         /\ SetAimed(t, "access", "none", s.want, None)
      \/ UNCHANGED pool /\ Refuse(t)
  BY <1>1 DEF IoctlReconfig, Aligned, SetAimed
<1>5. CASE UNCHANGED pool /\ Refuse(t)
  <2> DEFINE pc == IF s.plan = "keep" THEN "ready" ELSE "munmap"
             x == With(s, pc, "none", s.plan, s.win, s.config, None, None)
  <2>1. SetRefused(t, pc, "none", None, None)
    BY <1>1, <1>5 DEF Refuse, SetRefused
  <2>2. x \in ThreadStates /\ x.win = s.win
    BY <1>1 DEF ThreadStates, With
  <2>3. ThreadInv(x)
    BY <1>1, <1>2 DEF With, ThreadInv, InCall, Fits, GoodTarget, GoodConfig,
       GoodRequest, Bound, Built
  <2> HIDE DEF x, pc
  <2>4. Becomes(t, x)
    BY <1>1, <2>1, <2>2, SetRefusedBecomes DEF x
  <2> QED BY <1>1, <1>3, <1>5, <2>2, <2>3, <2>4, QuietStep
<1>6. CASE /\ s.want.addr % WindowSize(s.win) = 0
           /\ Pool!Aim("fd", s.win, s.want)
           /\ SetAimed(t, "access", "none", s.want, None)
  <2> DEFINE x == With(s, "access", "none", s.plan, s.win, s.want, None, s.req)
  <2>1. GoodConfig(s, s.want)
    <3>1. s.req \in Requests /\ s.want = Aimed(s.req, s)
      BY <1>1, <1>2 DEF ThreadInv, GoodRequest
    <3> QED BY <1>1, <1>2, <3>1, AimedConfig DEF Built
  <2>2. x \in ThreadStates /\ x.win = s.win /\ s.want \in Configs
    BY <1>1, <2>1 DEF ThreadStates, With, GoodConfig
  <2>3. UNCHANGED <<holder, mapped>>
    BY <1>6 DEF Pool!Aim
  <2>4. ASSUME target'[s.win] = s.want PROVE ThreadInv(x)'
    BY <1>1, <1>2, <1>3, <1>6, <2>1, <2>3, <2>4
    DEF With, ThreadInv, InCall, Fits, GoodConfig, GoodTarget, GoodRequest, Bound,
        Built, WindowSize, Configs, Requests, Checks, Aimed, WindowAddr, Offset
  <2> HIDE DEF x
  <2>5. Becomes(t, x)
    BY <1>1, <1>6, <2>2, SetAimedBecomes DEF x
  <2> QED BY <1>1, <1>2, <1>3, <1>6, <2>2, <2>4, <2>5, AimKeeps
<1> QED BY <1>4, <1>5, <1>6

\* DEALLOC: refused only for a window that a failed remap left counted.
LEMMA IoctlDeallocKeeps ==
  ASSUME ClientInv, NEW t \in Threads, IoctlDealloc(t) PROVE ClientInv'
<1>1. PICK s : s = th[t] /\ s \in ThreadStates /\ ThreadInv(s)
  BY ThreadOf
<1>2. s.op \in {"dealloc", "undo"} /\ s.win # None
  BY <1>1 DEF IoctlDealloc, InIoctl, ThreadInv
<1>3. /\ noc_lock' \in Threads \cup {None} /\ mmap_lock' \in Threads \cup {None}
      /\ UNCHANGED <<setup, fd, counted>>
  BY LockTypes DEF IoctlDealloc, Unlock
<1>4. s.win \in Windows /\ holder[s.win] = {"fd"}
  BY <1>1, <1>2, ObjectHolds
<1>5. Becomes(t, Idle) /\ ThreadInv(th[t])'
  <2>1. Becomes(t, Idle)
    BY IdleInv, Replaced DEF IoctlDealloc, Gone
  <2>2. ThreadInv(Idle)'
    BY DEF Idle, ThreadInv, InCall, Bound, Built
  <2> QED BY <2>1, <2>2 DEF Becomes
<1>6. CASE s.win \in counted
  <2>1. UNCHANGED pool
    BY <1>1, <1>6 DEF IoctlDealloc
  <2>2. "remap_fail" \in setup /\ s.win \notin mapped
    BY <1>1, <1>2, <1>6 DEF ThreadInv
  <2>3. StepOf(t, Idle, s.win)
    BY <1>1, <1>3, <1>4, <1>5, <2>1, IdleInv
    DEF StepOf, PoolTypeOK, ClientInv, TypeOK, Same, pool
  <2>4. Disposed(Idle, s.win)
    BY <1>3, <1>4, <1>6, <2>1, <2>2 DEF Disposed, pool
  <2> QED BY <1>4, <1>5, <2>3, <2>4, IdleInv, StepKeeps
<1>7. CASE s.win \notin counted
  <2>1. Pool!Surrender("fd", {s.win})
    BY <1>1, <1>7 DEF IoctlDealloc
  <2>2. /\ holder' = [w \in Windows |-> IF w = s.win THEN {} ELSE holder[w]]
        /\ target' = [w \in Windows |-> IF w = s.win THEN Identity ELSE target[w]]
        /\ UNCHANGED mapped
    BY <2>1 DEF Pool!Surrender
  <2>3. PoolTypeOK'
    BY <1>3, <2>2 DEF PoolTypeOK, ClientInv, TypeOK
  <2>4. StepOf(t, Idle, s.win)
    BY <1>1, <1>3, <1>4, <1>5, <2>2, <2>3, IdleInv DEF StepOf, Same
  <2>5. Disposed(Idle, s.win)
    BY <1>3, <1>4, <1>7, <2>2 DEF Disposed
  <2> QED BY <1>4, <1>5, <2>4, <2>5, IdleInv, StepKeeps
<1> QED BY <1>6, <1>7

-----------------------------------------------------------------------------
\* mmap and munmap.
LEMMA CdevMmapKeeps ==
  ASSUME ClientInv, NEW t \in Threads, NEW ok \in BOOLEAN, CdevMmap(t, ok)
  PROVE  ClientInv'
<1>1. PICK s : s = th[t] /\ s \in ThreadStates /\ ThreadInv(s)
  BY ThreadOf
<1>2. /\ s.pc = "mmapping" /\ s.op = "none" /\ s.win # None
      /\ s.win \notin counted /\ Fits(s) /\ GoodTarget(s, s.want)
  BY <1>1 DEF CdevMmap, ThreadInv, InCall, Bound
<1>3. /\ noc_lock' \in Threads \cup {None} /\ mmap_lock' \in Threads \cup {None}
      /\ counted' = counted \cup {s.win}
      /\ UNCHANGED <<setup, fd>>
  BY <1>1, LockTypes DEF CdevMmap, CountMapping
<1>4. s.win \in Windows /\ holder[s.win] = {"fd"}
  BY <1>1, <1>2, ObjectHolds
<1>5. CASE ok
  <2> DEFINE x == With(s, "ready", s.op, s.plan, s.win, s.want, None, s.req)
  <2>1. /\ mapped' = mapped \cup {s.win} /\ UNCHANGED <<holder, target>>
        /\ SetMapped(t, "ready", s.want, None)
    BY <1>1, <1>5 DEF CdevMmap, Pool!Map, SetMapped
  <2>2. x \in ThreadStates /\ x.win = s.win
    BY <1>1, <1>2 DEF ThreadStates, With, GoodTarget, GoodConfig
  <2>3. ThreadInv(x)'
    BY <1>1, <1>2, <1>3, <1>4, <2>1
    DEF With, ThreadInv, InCall, Fits, GoodConfig, GoodTarget, Bound, Built,
        WindowSize, Configs, Requests
  <2> HIDE DEF x
  <2>4. Becomes(t, x)
    BY <1>1, <2>1, <2>2, SetMappedBecomes DEF x
  <2>5. StepOf(t, x, s.win)
    BY <1>1, <1>3, <1>4, <2>1, <2>2, <2>4
    DEF StepOf, PoolTypeOK, ClientInv, TypeOK, Same
  <2>6. ThreadInv(th[t])'
    BY <2>3, <2>4 DEF Becomes
  <2> QED BY <1>4, <2>1, <2>2, <2>5, <2>6, StepKeeps DEF Disposed
<1>6. CASE ~ ok
  <2> DEFINE x == With(s, "lock", "undo", s.plan, s.win, s.config, s.want, s.req)
  <2>1. UNCHANGED pool /\ SetPlace(t, "lock", "undo") /\ "remap_fail" \in setup
    BY <1>6 DEF CdevMmap, Goto, SetPlace
  <2>2. x \in ThreadStates /\ x.win = s.win
    BY <1>1 DEF ThreadStates, With
  <2>3. mapped \subseteq counted
    BY DEF ClientInv, TypeOK
  <2>4. ThreadInv(x)'
    BY <1>1, <1>2, <1>3, <1>4, <2>1, <2>3
    DEF With, ThreadInv, InCall, Bound, Built, pool
  <2> HIDE DEF x
  <2>5. Becomes(t, x)
    BY <1>1, <2>1, <2>2, SetPlaceBecomes DEF x
  <2>6. StepOf(t, x, s.win)
    BY <1>1, <1>3, <1>4, <2>1, <2>2, <2>5
    DEF StepOf, PoolTypeOK, ClientInv, TypeOK, Same, pool
  <2>7. ThreadInv(th[t])'
    BY <2>4, <2>5 DEF Becomes
  <2> QED BY <1>4, <2>1, <2>2, <2>6, <2>7, StepKeeps DEF Disposed, pool
<1> QED BY <1>5, <1>6

LEMMA VmaCloseKeeps ==
  ASSUME ClientInv, NEW t \in Threads, VmaClose(t) PROVE ClientInv'
<1>1. PICK s : s = th[t] /\ s \in ThreadStates /\ ThreadInv(s)
  BY ThreadOf
<1>2. s.pc = "munmapping" /\ s.op = "none" /\ s.win # None
  BY <1>1 DEF VmaClose, ThreadInv, InCall
<1>3. /\ noc_lock' \in Threads \cup {None} /\ mmap_lock' \in Threads \cup {None}
      /\ counted' = counted \ {s.win} /\ mapped' = mapped \ {s.win}
      /\ UNCHANGED <<setup, fd, holder, target>>
  BY <1>1, LockTypes DEF VmaClose, Pool!Unmap
<1>4. s.win \in Windows /\ holder[s.win] = {"fd"}
  BY <1>1, <1>2, ObjectHolds
<1> DEFINE x == With(s, "lock", "dealloc", s.plan, s.win, s.config, s.want, s.req)
<1>5. x \in ThreadStates /\ x.win = s.win
  BY <1>1 DEF ThreadStates, With
<1>6. ThreadInv(x)'
  BY <1>1, <1>2, <1>3, <1>4 DEF With, ThreadInv, InCall, Bound, Built
<1> HIDE DEF x
<1>7. Becomes(t, x)
  <2>1. SetPlace(t, "lock", "dealloc")
    BY DEF VmaClose, Goto, SetPlace
  <2> QED BY <1>1, <1>5, <2>1, SetPlaceBecomes DEF x
<1>8. StepOf(t, x, s.win)
  BY <1>1, <1>3, <1>4, <1>5, <1>7
  DEF StepOf, PoolTypeOK, ClientInv, TypeOK, Same
<1>9. ThreadInv(th[t])'
  BY <1>6, <1>7 DEF Becomes
<1> QED BY <1>3, <1>4, <1>5, <1>8, <1>9, StepKeeps DEF Disposed

-----------------------------------------------------------------------------
\* The NOC object.
LEMMA OpenNocKeeps == ClientInv /\ OpenNoc => ClientInv'
<1> SUFFICES ASSUME ClientInv, OpenNoc PROVE ClientInv'
  OBVIOUS
<1>1. /\ UNCHANGED <<setup, th, noc_lock, mmap_lock, counted, holder, target, mapped>>
      /\ fd' \in BOOLEAN
  BY DEF OpenNoc, locks, pool
<1>2. TypeOK'
  BY <1>1 DEF ClientInv, TypeOK
<1>3. \A t \in Threads : ThreadInv(th[t])'
  BY <1>1 DEF ClientInv, ThreadInv, InCall, Fits, GoodTarget, GoodConfig,
     GoodRequest, Bound, Built, Configs, Requests, Checks, Aimed, WindowSize,
     WindowAddr, Offset
<1> QED BY <1>1, <1>2, <1>3 DEF ClientInv, ExclusiveObjects, HeldAccounted

\* release gives up all windows of the file; none is mapped any more.
LEMMA CloseNocKeeps == ClientInv /\ CloseNoc => ClientInv'
<1> SUFFICES ASSUME ClientInv, CloseNoc PROVE ClientInv'
  OBVIOUS
<1> DEFINE S == {w \in Windows : holder[w] = {"fd"}}
<1>1. /\ UNCHANGED <<setup, th, noc_lock, mmap_lock, mapped>>
      /\ counted' = {} /\ fd' \in BOOLEAN
      /\ S \cap mapped = {}
      /\ holder' = [w \in Windows |-> IF w \in S THEN {} ELSE holder[w]]
      /\ target' = [w \in Windows |-> IF w \in S THEN Identity ELSE target[w]]
  BY DEF CloseNoc, Pool!Surrender, locks
<1>2. mapped = {}
  BY <1>1 DEF ClientInv, TypeOK, HeldAccounted
<1>3. TypeOK'
  BY <1>1, <1>2 DEF ClientInv, TypeOK
<1>4. ASSUME NEW t \in Threads PROVE th'[t] = Idle /\ ThreadInv(th[t])'
  <2>1. th'[t] = Idle
    BY <1>1 DEF CloseNoc
  <2> QED BY <2>1 DEF Idle, ThreadInv, InCall, Bound, Built
<1>5. \A w \in Windows : holder'[w] # {"fd"}
  BY <1>1
<1> QED BY <1>1, <1>3, <1>4, <1>5, IdleInv
  DEF ClientInv, ExclusiveObjects, HeldAccounted

LEMMA ClientInvInit == Init => ClientInv
<1> SUFFICES ASSUME Init PROVE ClientInv
  OBVIOUS
<1>1. TypeOK
  BY IdleInv DEF Init, TypeOK
<1>2. \A t \in Threads : th[t] = Idle
  BY DEF Init
<1>3. \A w \in Windows : holder[w] # {"fd"}
  BY DEF Init
<1> QED BY <1>1, <1>2, <1>3, IdleInv
  DEF Init, ClientInv, ExclusiveObjects, HeldAccounted

LEMMA ClientInvStep == ClientInv /\ [Next]_vars => ClientInv'
<1> SUFFICES ASSUME ClientInv, [Next]_vars PROVE ClientInv'
  OBVIOUS
<1>1. CASE OpenNoc
  BY <1>1, OpenNocKeeps
<1>2. CASE CloseNoc
  BY <1>2, CloseNocKeeps
<1>3. ASSUME NEW t \in Threads, Choice(t) PROVE ClientInv'
  <2>1. CASE Construct(t) \/ OneShot(t) \/ OpenTensix(t)
    BY <2>1, OpenKeeps
  <2>2. CASE \E r \in Program[t].requests : Request(t, r)
    BY <2>2, RequestKeeps, ProgramAssumption DEF Requests
  <2>3. CASE Destroy(t)
    BY <2>3, DestroyKeeps
  <2> QED BY <1>3, <2>1, <2>2, <2>3 DEF Choice
<1>4. ASSUME NEW t \in Threads, Proceed(t) PROVE ClientInv'
  <2>1. CASE th[t].plan # "keep" /\ Request(t, th[t].req)
    <3>1. th[t].req \in Requests
      BY <2>1, ThreadOf DEF Request, ThreadInv
    <3> QED BY <2>1, <3>1, RequestKeeps
  <2>2. CASE Access(t)
    BY <2>2, AccessKeeps
  <2>3. CASE LockNoc(t) \/ FaultDone(t)
    BY <2>3, LockNocKeeps, FaultDoneKeeps
  <2>4. CASE IoctlAlloc(t) \/ IoctlConfig(t) \/ IoctlReconfig(t) \/ IoctlDealloc(t)
    BY <2>4, IoctlAllocKeeps, IoctlConfigKeeps, IoctlReconfigKeeps,
       IoctlDeallocKeeps
  <2>5. CASE LockMmap(t) \/ VmaClose(t) \/ \E ok \in BOOLEAN : CdevMmap(t, ok)
    BY <2>5, LockMmapKeeps, VmaCloseKeeps, CdevMmapKeeps
  <2> QED BY <1>4, <2>1, <2>2, <2>3, <2>4, <2>5 DEF Proceed
<1>5. ASSUME NEW t \in Threads, Fault(t) PROVE ClientInv'
  BY <1>5, FaultKeeps
<1>6. CASE UNCHANGED vars
  BY <1>6 DEF vars, pool, ClientInv, TypeOK, ThreadInv, InCall, Fits, GoodTarget,
     GoodConfig, GoodRequest, Bound, Built, Configs, Requests, Checks, Aimed,
     WindowSize, WindowAddr, Offset, ExclusiveObjects, HeldAccounted, ThreadStates,
     Windows
<1> QED BY <1>1, <1>2, <1>3, <1>4, <1>5, <1>6 DEF Next

-----------------------------------------------------------------------------
\* The types of uapi.hpp's objects, of the locks and of the pool hold in every
\* state, whatever the threads ask for and wherever the kernel faults or fails.
THEOREM ClientTypes == Spec => []TypeOK
<1>1. ClientInv => TypeOK
  BY DEF ClientInv
<1> QED BY <1>1, ClientInvInit, ClientInvStep, PTL DEF Spec

\* NocWindow's cached configuration is what the TLB register of its window
\* holds, after refused CONFIG ioctls too: skipping the ioctl on a hit is right.
THEOREM Cache == Spec => []CacheCoherent
<1>1. ClientInv => CacheCoherent
  BY DEF ClientInv, ThreadInv, CacheCoherent, Objects, Built, GoodTarget
<1> QED BY <1>1, ClientInvInit, ClientInvStep, PTL DEF Spec

\* Every load and store of read_block and write_block goes through a window
\* that this file holds and has mapped, stays inside the mapping, and lands at
\* the tile and address that were asked for with the window's own settings.
THEOREM Accesses == Spec => []AccessHits
<1>1. ASSUME ClientInv, NEW t \in Threads, NEW s, s = th[t], s.pc = "access"
      PROVE  LET off == Offset(s.req.addr, s.size)
             IN  /\ holder[s.win] = {"fd"}
                 /\ s.win \in mapped
                 /\ off + s.req.n <= s.size
                 /\ s.size <= WindowSize(s.win)
                 /\ target[s.win].tile = s.req.tile
                 /\ target[s.win].addr + off = s.req.addr
                 /\ target[s.win].settings = s.settings
  <2>1. s \in ThreadStates /\ ThreadInv(s)
    BY <1>1, ThreadOf
  <2>2. /\ s.win # None /\ holder[s.win] = {"fd"} /\ s.win \in mapped
        /\ Fits(s) /\ GoodTarget(s, s.config) /\ GoodRequest(s, s.config)
        /\ s.size \in Nat \ {0} /\ s.req \in Requests
    BY <1>1, <2>1 DEF ThreadInv, ThreadStates, Built, InCall, GoodRequest
  <2>3. target[s.win] = Aimed(s.req, s)
    BY <2>2 DEF GoodTarget, GoodRequest
  <2>4. /\ Offset(s.req.addr, s.size) \in Nat
        /\ WindowAddr(s.req.addr, s.size) + Offset(s.req.addr, s.size) = s.req.addr
    BY <2>2, WindowAddrNat DEF Requests
  <2>5. Offset(s.req.addr, s.size) + s.req.n <= s.size
    BY <2>2, <2>4 DEF GoodRequest, Checks, Requests
  <2> QED BY <2>2, <2>3, <2>4, <2>5 DEF Fits, Aimed
<1>2. ClientInv => AccessHits
  BY <1>1 DEF AccessHits
<1> QED BY <1>2, ClientInvInit, ClientInvStep, PTL DEF Spec

\* What is left of a window-aligned address after a step inside the window.
LEMMA AlignedRemainder ==
  ASSUME NEW a \in Nat, NEW b \in Nat \ {0}, a % b = 0, NEW c \in Nat, c < b
  PROVE  (a + c) % b = c
OBVIOUS

\* open_window_4G maps 4 GiB of a 128 GiB window and aligns to 4 GiB, the
\* driver insists on 128 GiB: only the first 4 GiB of a block are ever reached.
THEOREM Reach == Spec => []SmallMappingReach
<1>1. ASSUME ClientInv, NEW t \in Threads, NEW s, s = th[t], s.pc = "access"
      PROVE  s.req.addr % WindowSize(s.win) < s.size
  <2>1. s \in ThreadStates /\ ThreadInv(s)
    BY <1>1, ThreadOf
  <2>2. /\ Fits(s) /\ GoodTarget(s, s.config) /\ GoodRequest(s, s.config)
        /\ s.size \in Nat \ {0} /\ s.req \in Requests
    BY <1>1, <2>1 DEF ThreadInv, ThreadStates, Built, InCall, GoodRequest
  <2>3. PICK a, off : /\ a = WindowAddr(s.req.addr, s.size)
                      /\ off = Offset(s.req.addr, s.size)
    OBVIOUS
  <2>4. a \in Nat /\ off \in 0..s.size-1 /\ a + off = s.req.addr
    BY <2>2, <2>3, WindowAddrNat DEF Requests
  <2>5. a % WindowSize(s.win) = 0
    BY <2>2, <2>3 DEF GoodTarget, GoodRequest, Aimed
  <2>6. off < WindowSize(s.win) /\ WindowSize(s.win) \in Nat \ {0} /\ off \in Nat
    BY <2>2, <2>4, WindowSizeNat DEF Fits
  <2>7. (a + off) % WindowSize(s.win) = off
    BY <2>4, <2>5, <2>6, AlignedRemainder
  <2> QED BY <2>2, <2>4, <2>7
<1>2. ClientInv => SmallMappingReach
  BY <1>1 DEF SmallMappingReach
<1> QED BY <1>2, ClientInvInit, ClientInvStep, PTL DEF Spec

\* Constructors that throw and destructors give their window back: a window of
\* the file is exactly one object's, or was left behind by a failed remap.
THEOREM NoLeak == Spec => []NothingLeaks
<1>1. ASSUME ClientInv, NEW w \in Windows, holder[w] = {"fd"}
      PROVE  LET users == {t \in Threads : th[t].win = w}
             IN  \/ Cardinality(users) = 1
                 \/ users = {} /\ "remap_fail" \in setup /\ w \in counted \ mapped
  <2> DEFINE users == {t \in Threads : th[t].win = w}
  <2>1. CASE users = {}
    BY <1>1, <2>1 DEF ClientInv, HeldAccounted
  <2>2. CASE users # {}
    <3>1. PICK t \in Threads : th[t].win = w
      BY <2>2
    <3>2. users = {t}
      <4>1. w # None
        BY NoneAssumption
      <4>2. \A u \in Threads : th[u].win = w => u = t
        BY <1>1, <3>1, <4>1 DEF ClientInv, ExclusiveObjects
      <4> QED BY <3>1, <4>2
    <3>3. Cardinality({t}) = 1
      BY FS_Singleton
    <3> QED BY <3>2, <3>3
  <2> QED BY <2>1, <2>2
<1>2. ClientInv => NothingLeaks
  BY <1>1 DEF NothingLeaks
<1> QED BY <1>2, ClientInvInit, ClientInvStep, PTL DEF Spec
=============================================================================
