-------------------------- MODULE HostAccessProofs --------------------------
(***************************************************************************)
(* Proofs about the host programs' accesses: for any number of threads,    *)
(* processes and windows and for all programs that are WellWritten, every  *)
(* access reaches what the program means, and what a program stored last   *)
(* is there when it has ended.                                             *)
(*                                                                         *)
(* scopes stands for any function that gives, for each program, the map    *)
(* steps behind the windows in use at each of its steps.                   *)
(***************************************************************************)
EXTENDS HostTlbProofs

\* The hypothesis of the theorems: what the program of a setup may not do.
AllWellWritten(scopes) == \A s \in Setups : WellWritten(s.prog, scopes)

\* The map step behind the k-th window of thread t.
Maker(scopes, t, k) == prog[t][scopes[prog[t]][pc[t]][k]]

-----------------------------------------------------------------------------
(***************************************************************************)
(* The invariant.  A window in use belongs to the map step the program     *)
(* means, and its register still says so unless another process wrote it;  *)
(* what a thread has stored is in memory, or what somebody stored there    *)
(* later.                                                                  *)
(***************************************************************************)
SetupIs == \E s \in Setups : prog = s.prog

PcFits == \A t \in Threads : pc[t] \in 1..Len(prog[t])+1

Framed(scopes) ==
  \A t \in Threads : t \notin thrown =>
    /\ Len(wins[t]) = Len(scopes[prog[t]][pc[t]])
    /\ \A k \in DOMAIN wins[t] :
         /\ wins[t][k].kind = Maker(scopes, t, k).kind
         /\ wins[t][k].off = Maker(scopes, t, k).to.off
         /\ wins[t][k].size = Words(wins[t][k].kind) - wins[t][k].off

StillAimed(scopes) ==
  \A t \in Threads : t \notin thrown =>
    \A k \in DOMAIN wins[t] :
      writer[wins[t][k].index] = proc[t] =>
        /\ regs[wins[t][k].index] = Aim(Maker(scopes, t, k))
        /\ Aim(Maker(scopes, t, k)) # None

Written ==
  \A t \in Threads : \A k \in DOMAIN wins[t] :
    \E u \in Threads : writer[wins[t][k].index] = proc[u]

\* Step k of thread t is overtaken, if at all, by step j of thread u.
Overtakes(u, j, t, k) ==
  /\ Writes(prog[u][j]) /\ prog[u][j].for = prog[t][k].for
  /\ u = t => j >= k

Delivered ==
  OneProcess =>
    \A t \in Threads : \A k \in 1..pc[t]-1 : Writes(prog[t][k]) =>
      /\ prog[t][k].for \in DOMAIN mem
      /\ \E u \in Threads : \E j \in 1..pc[u]-1 :
           Overtakes(u, j, t, k) /\ mem[prog[t][k].for] = prog[u][j].val

AccessInv(scopes) ==
  /\ SetupIs /\ PcFits /\ Framed(scopes) /\ StillAimed(scopes) /\ Written
  /\ Delivered


-----------------------------------------------------------------------------
(***************************************************************************)
(* What WellWritten says about the programs that run.                      *)
(***************************************************************************)
LEMMA Rules ==
  ASSUME NEW CONSTANT scopes, AllWellWritten(scopes), SetupIs
  PROVE  /\ WellWritten(prog, scopes)
         /\ DOMAIN prog = Threads
         /\ \A t \in Threads :
              /\ Len(prog[t]) \in Nat
              /\ \A k \in 1..Len(prog[t]) :
                   prog[t][k].do = "map" => Aim(prog[t][k]) # None
<1>1. PICK s \in Setups : prog = s.prog
  BY DEF SetupIs
<1>2. WellWritten(prog, scopes)
  BY <1>1 DEF AllWellWritten
<1> QED BY <1>1, <1>2, SetupsAssumption

\* A step opens, closes or leaves alone the scope.
Opens(q, r, j) == /\ Len(r) = Len(q) + 1 /\ r[Len(q) + 1] = j
                  /\ \A k \in 1..Len(q) : r[k] = q[k]
Closes(q, r) == /\ Len(r) = Len(q) - 1
                /\ \A k \in 1..Len(q)-1 : r[k] = q[k]

LEMMA ScopeSteps ==
  ASSUME NEW CONSTANT scopes, AllWellWritten(scopes), SetupIs,
         NEW t \in Threads, NEW j \in 1..Len(prog[t])
  PROVE  LET q == scopes[prog[t]][j]
             r == scopes[prog[t]][j+1]
         IN  /\ q \in Seq(1..Len(prog[t]))
             /\ prog[t][j].do = "map" => Opens(q, r, j)
             /\ prog[t][j].do = "free" => Closes(q, r)
             /\ prog[t][j].do \notin {"map", "free"} => r = q
<1> DEFINE q == scopes[prog[t]][j]
           r == scopes[prog[t]][j+1]
<1>1. Scoped(prog[t], scopes[prog[t]])
  BY Rules DEF WellWritten
<1>2. j \in 1..Len(prog[t])+1 /\ Len(prog[t]) \in Nat
  BY Rules
<1>3. q \in Seq(1..Len(prog[t]))
  BY <1>1, <1>2 DEF Scoped
<1>4. /\ prog[t][j].do = "map" => r = Append(q, j)
      /\ prog[t][j].do = "free" => q # <<>> /\ r = Front(q)
      /\ prog[t][j].do \notin {"map", "free"} => r = q
  BY <1>1, <1>2 DEF Scoped
<1> HIDE DEF q, r
<1>5. /\ Len(Append(q, j)) = Len(q) + 1 /\ Append(q, j)[Len(q) + 1] = j
      /\ \A k \in 1..Len(q) : Append(q, j)[k] = q[k]
  BY <1>3
<1>6. ASSUME q # <<>>
      PROVE  /\ Len(Front(q)) = Len(q) - 1
             /\ \A k \in 1..Len(q)-1 : Front(q)[k] = q[k]
  BY <1>3, <1>6, LastInSet
<1>7. prog[t][j].do = "map" => Opens(q, r, j)
  BY <1>4, <1>5 DEF Opens
<1>8. prog[t][j].do = "free" => Closes(q, r)
  BY <1>4, <1>6 DEF Closes
<1> QED BY <1>3, <1>4, <1>7, <1>8 DEF q, r

\* No window is in use before the first step.
LEMMA ScopeStart ==
  ASSUME NEW CONSTANT scopes, AllWellWritten(scopes), SetupIs, NEW t \in Threads
  PROVE  scopes[prog[t]][1] = <<>>
<1>1. Scoped(prog[t], scopes[prog[t]])
  BY Rules DEF WellWritten
<1> QED BY <1>1 DEF Scoped

\* An access is behind a window in use and means what is behind it.
LEMMA AccessMeans ==
  ASSUME NEW CONSTANT scopes, AllWellWritten(scopes), SetupIs,
         NEW t \in Threads, NEW j \in 1..Len(prog[t]),
         prog[t][j].do \in {"load", "store"}
  PROVE  /\ prog[t][j].at \in DOMAIN scopes[prog[t]][j]
         /\ Means(prog[t][j], prog[t][scopes[prog[t]][j][prog[t][j].at]])
         /\ PointsEntry(prog, t, j, prog[t][scopes[prog[t]][j][prog[t][j].at]])
BY Rules DEF WellWritten

LEMMA AtStepIs ==
  ASSUME PcFits, ProgramTypes, NEW t \in Threads, NEW ops, AtStep(t, ops)
  PROVE  /\ pc[t] \in 1..Len(prog[t]) /\ Len(prog[t]) \in Nat
         /\ t \notin thrown /\ Step(t) = prog[t][pc[t]] /\ Step(t).do \in ops
BY DEF PcFits, ProgramTypes, AtStep, Finished, Step

\* A word inside a window is in the window's own slot of the BAR.
LEMMA InsideSlot ==
  ASSUME NEW w \in WindowObjects, w.size = Words(w.kind) - w.off,
         NEW n \in Nat, n < w.size
  PROVE  BarSlot(w, n).index = w.index /\ BarSlot(w, n).off = w.off + n
<1>1. /\ w.index \in Int /\ w.off \in Nat /\ w.size \in Nat
      /\ Words(w.kind) \in Nat \ {0}
  BY KindsApart DEF WindowObjects, Words, Indices, START_4G
<1>2. w.off + n \in 0..Words(w.kind)-1
  BY <1>1
<1>3. (w.off + n) \div Words(w.kind) = 0 /\ (w.off + n) % Words(w.kind) = w.off + n
  BY <1>1, <1>2
<1> QED BY <1>1, <1>3 DEF BarSlot


-----------------------------------------------------------------------------
(***************************************************************************)
(* The window of an access, and where the access goes.                     *)
(***************************************************************************)
LEMMA WindowInUse ==
  ASSUME NEW CONSTANT scopes, AllWellWritten(scopes), HostInv, AccessInv(scopes),
         NEW t \in Threads, AtStep(t, {"load", "store"})
  PROVE  LET s == Step(t)
             w == wins[t][s.at]
             m == Maker(scopes, t, s.at)
         IN  /\ s.at \in DOMAIN wins[t] /\ w \in WindowObjects
             /\ w.kind = m.kind /\ w.off = m.to.off
             /\ w.size = Words(w.kind) - w.off
             /\ Means(s, m) /\ PointsEntry(prog, t, pc[t], m)
             /\ writer[w.index] = proc[t] => regs[w.index] = Aim(m) /\ Aim(m) # None
<1> DEFINE s == Step(t)
           m == Maker(scopes, t, s.at)
<1>0. /\ SetupIs /\ PcFits /\ Framed(scopes) /\ StillAimed(scopes)
      /\ ProgramTypes /\ ListTypes
  BY DEF AccessInv, HostInv, TypeInv
<1>1. /\ pc[t] \in 1..Len(prog[t]) /\ t \notin thrown
      /\ s = prog[t][pc[t]] /\ s.do \in {"load", "store"}
  BY <1>0, AtStepIs
<1>2. /\ s.at \in DOMAIN scopes[prog[t]][pc[t]]
      /\ Means(s, m) /\ PointsEntry(prog, t, pc[t], m)
  BY <1>0, <1>1, AccessMeans DEF Maker
<1>3. s.at \in DOMAIN wins[t]
  <2>1. scopes[prog[t]][pc[t]] \in Seq(1..Len(prog[t]))
    BY <1>0, <1>1, ScopeSteps
  <2>2. wins[t] \in Seq(WindowObjects)
    BY <1>0 DEF ListTypes
  <2>3. Len(wins[t]) = Len(scopes[prog[t]][pc[t]])
    BY <1>0, <1>1 DEF Framed
  <2> QED BY <1>2, <2>1, <2>2, <2>3
<1>4. wins[t][s.at] \in WindowObjects
  BY <1>0, <1>3 DEF ListTypes
<1> HIDE DEF s
<1>5. /\ wins[t][s.at].kind = m.kind /\ wins[t][s.at].off = m.to.off
      /\ wins[t][s.at].size = Words(wins[t][s.at].kind) - wins[t][s.at].off
  BY <1>0, <1>1, <1>3 DEF Framed
<1>6. writer[wins[t][s.at].index] = proc[t] =>
        regs[wins[t][s.at].index] = Aim(m) /\ Aim(m) # None
  BY <1>0, <1>1, <1>3 DEF StillAimed
<1> QED BY <1>2, <1>3, <1>4, <1>5, <1>6 DEF s

\* Through the entry: what somebody stored there last is "dbi".
LEMMA EntryPointsToDbi ==
  ASSUME Delivered, OneProcess, DOMAIN prog = Threads, PcFits, ProgramTypes,
         NEW t \in Threads, NEW m, m.to.block[1] = "ENTRY",
         PointsEntry(prog, t, pc[t], m)
  PROVE  EntryWord(m) \in DOMAIN mem /\ mem[EntryWord(m)] = "dbi"
<1>1. PICK i \in 1..pc[t]-1 : Writes(prog[t][i]) /\ prog[t][i].for = EntryWord(m)
  BY DEF PointsEntry
<1>2. prog[t][i].for \in DOMAIN mem
  BY <1>1 DEF Delivered
<1>3. PICK u \in Threads : \E j \in 1..pc[u]-1 :
             Overtakes(u, j, t, i) /\ mem[prog[t][i].for] = prog[u][j].val
  BY <1>1 DEF Delivered
<1>4. PICK j \in 1..pc[u]-1 :
             Overtakes(u, j, t, i) /\ mem[prog[t][i].for] = prog[u][j].val
  BY <1>3
<1>5. j \in 1..Len(prog[u])
  BY <1>4 DEF PcFits, ProgramTypes
<1>6. prog[u][j].val = "dbi"
  BY <1>1, <1>4, <1>5 DEF PointsEntry, Overtakes
<1> QED BY <1>1, <1>2, <1>4, <1>6

\* An access that is let through reaches what it means, but for the word behind
\* the window and windows that another process aimed.
LEMMA Hits ==
  ASSUME NEW CONSTANT scopes, AllWellWritten(scopes), HostInv, AccessInv(scopes),
         NEW t \in Threads, AtStep(t, {"load", "store"}),
         InBounds(wins[t][Step(t).at], Step(t)),
         ~ (Step(t).n = 1 /\ Step(t).off = wins[t][Step(t).at].size),
         writer[wins[t][Step(t).at].index] = proc[t],
         Step(t).for.block = DBI => OneProcess
  PROVE  /\ Target(wins[t][Step(t).at], Step(t).off) = Step(t).for
         /\ BarSlot(wins[t][Step(t).at], Step(t).off + Step(t).n - 1).index
              = wins[t][Step(t).at].index
<1> DEFINE s == Step(t)
           w == wins[t][s.at]
           m == Maker(scopes, t, s.at)
           l == Reached(BarSlot(w, s.off))
<1>1. /\ w \in WindowObjects
      /\ w.kind = m.kind /\ w.off = m.to.off /\ w.size = Words(w.kind) - w.off
      /\ Means(s, m) /\ PointsEntry(prog, t, pc[t], m)
      /\ regs[w.index] = Aim(m) /\ Aim(m) # None
  BY WindowInUse
<1>2. InBounds(w, s) /\ ~ (s.n = 1 /\ s.off = w.size)
  OBVIOUS
<1>3. s.for.block = DBI => OneProcess
  OBVIOUS
<1> HIDE DEF s, w, m
<1>4. s.off \in Nat /\ s.n \in Nat \ {0} /\ w.size \in Nat
  BY <1>1 DEF Means, WindowObjects
<1>5. s.off < w.size /\ s.off + s.n - 1 < w.size /\ s.off + s.n - 1 \in Nat
  BY <1>2, <1>4 DEF InBounds
<1>6. /\ BarSlot(w, s.off).index = w.index /\ BarSlot(w, s.off).off = w.off + s.off
      /\ BarSlot(w, s.off + s.n - 1).index = w.index
  BY <1>1, <1>4, <1>5, InsideSlot
<1>7. w.index \in Indices
  BY <1>1 DEF WindowObjects
<1>8. l = Loc(m.to.tile, m.to.block, m.to.off + s.off)
  BY <1>1, <1>6, <1>7 DEF Reached, Aim
<1> HIDE DEF l
<1>9. ThroughEntry(l) = s.for
  <2>1. CASE m.to.block[1] # "ENTRY"
    BY <1>1, <1>8, <2>1 DEF ThroughEntry, Means, Loc
  <2>2. CASE m.to.block[1] = "ENTRY"
    <3>1. s.for = Loc(m.to.tile, DBI, m.to.off + s.off)
      BY <1>1, <2>2 DEF Means
    <3>2. OneProcess
      BY <1>3, <3>1 DEF Loc
    <3>3. EntryWord(m) \in DOMAIN mem /\ mem[EntryWord(m)] = "dbi"
      <4>1. Delivered /\ PcFits /\ ProgramTypes /\ SetupIs
        BY DEF AccessInv, HostInv, TypeInv
      <4>2. DOMAIN prog = Threads
        BY <4>1, Rules
      <4> QED BY <1>1, <2>2, <3>2, <4>1, <4>2, EntryPointsToDbi
    <3>4. ThroughEntry(l) = [l EXCEPT !.block = DBI]
      <4>1. l.block = m.to.block /\ l.tile = m.to.tile
        BY <1>8 DEF Loc
      <4> QED BY <2>2, <3>3, <4>1 DEF ThroughEntry, EntryWord
    <3> QED BY <1>8, <3>1, <3>4 DEF Loc
  <2> QED BY <2>1, <2>2
<1> QED BY <1>6, <1>9 DEF Target, s, w, l


-----------------------------------------------------------------------------
(***************************************************************************)
(* The invariant after a step, from facts about the new values.            *)
(***************************************************************************)
LEMMA FramedNext ==
  ASSUME NEW CONSTANT scopes, prog' = prog, proc' = proc,
         \A t \in Threads : t \notin thrown' =>
           /\ Len(wins'[t]) = Len(scopes[prog[t]][pc'[t]])
           /\ \A k \in DOMAIN wins'[t] :
                LET w == wins'[t][k]
                    m == prog[t][scopes[prog[t]][pc'[t]][k]]
                IN  /\ w.kind = m.kind /\ w.off = m.to.off
                    /\ w.size = Words(w.kind) - w.off
                    /\ writer'[w.index] = proc[t] =>
                         regs'[w.index] = Aim(m) /\ Aim(m) # None
  PROVE  Framed(scopes)' /\ StillAimed(scopes)'
<1>1. Framed(scopes)'
  BY DEF Framed, Maker, Words
<1>2. StillAimed(scopes)'
  BY DEF StillAimed, Maker, Aim
<1> QED BY <1>1, <1>2

\* The same for a thread whose windows a step leaves alone.
LEMMA FramedSame ==
  ASSUME NEW CONSTANT scopes, Framed(scopes), StillAimed(scopes),
         NEW t \in Threads, t \notin thrown, NEW j,
         scopes[prog[t]][j] = scopes[prog[t]][pc[t]]
  PROVE  /\ Len(wins[t]) = Len(scopes[prog[t]][j])
         /\ \A k \in DOMAIN wins[t] :
              LET w == wins[t][k]
                  m == prog[t][scopes[prog[t]][j][k]]
              IN  /\ w.kind = m.kind /\ w.off = m.to.off
                  /\ w.size = Words(w.kind) - w.off
                  /\ writer[w.index] = proc[t] =>
                       regs[w.index] = Aim(m) /\ Aim(m) # None
BY DEF Framed, StillAimed, Maker

\* Nothing was stored: what was delivered is still there.
LEMMA DeliveredSame ==
  ASSUME Delivered, PcFits, prog' = prog, proc' = proc, mem' = mem,
         \A t \in Threads : pc[t] \in Nat /\ pc'[t] \in Nat /\ pc[t] <= pc'[t],
         \A t \in Threads : \A k \in pc[t]..pc'[t]-1 : ~ Writes(prog[t][k])
  PROVE  Delivered'
<1> SUFFICES ASSUME OneProcess', NEW t \in Threads, NEW k \in 1..pc'[t]-1,
                    Writes(prog[t][k])'
             PROVE  /\ prog'[t][k].for \in DOMAIN mem'
                    /\ \E u \in Threads : \E j \in 1..pc'[u]-1 :
                         Overtakes(u, j, t, k)' /\ mem'[prog'[t][k].for] = prog'[u][j].val
  BY DEF Delivered
<1>1. OneProcess
  BY DEF OneProcess
<1>2. Writes(prog[t][k])
  BY DEF Writes
<1>3. k \in 1..pc[t]-1
  BY <1>2
<1>4. /\ prog[t][k].for \in DOMAIN mem
      /\ \E u \in Threads : \E j \in 1..pc[u]-1 :
           Overtakes(u, j, t, k) /\ mem[prog[t][k].for] = prog[u][j].val
  BY <1>1, <1>2, <1>3 DEF Delivered
<1>5. PICK u \in Threads : \E j \in 1..pc[u]-1 :
           Overtakes(u, j, t, k) /\ mem[prog[t][k].for] = prog[u][j].val
  BY <1>4
<1>6. PICK j \in 1..pc[u]-1 :
           Overtakes(u, j, t, k) /\ mem[prog[t][k].for] = prog[u][j].val
  BY <1>5
<1>7. j \in 1..pc'[u]-1
  BY <1>6
<1>8. Overtakes(u, j, t, k)'
  BY <1>6 DEF Overtakes, Writes
<1> QED BY <1>4, <1>6, <1>7, <1>8

\* A store by thread t at the location it means overtakes what was there.
LEMMA DeliveredStore ==
  ASSUME Delivered, PcFits, ProgramTypes, DeviceTypes, NEW t \in Threads,
         prog' = prog, proc' = proc, pc' = [pc EXCEPT ![t] = @ + 1],
         Writes(prog[t][pc[t]]),
         OneProcess =>
           mem' = [x \in DOMAIN mem \cup {prog[t][pc[t]].for} |->
                     IF x = prog[t][pc[t]].for THEN prog[t][pc[t]].val ELSE mem[x]]
  PROVE  Delivered'
<1> SUFFICES ASSUME OneProcess', NEW u \in Threads, NEW k \in 1..pc'[u]-1,
                    Writes(prog[u][k])'
             PROVE  /\ prog'[u][k].for \in DOMAIN mem'
                    /\ \E v \in Threads : \E j \in 1..pc'[v]-1 :
                         Overtakes(v, j, u, k)' /\ mem'[prog'[u][k].for] = prog'[v][j].val
  BY DEF Delivered
<1>1. OneProcess
  BY DEF OneProcess
<1>2. Writes(prog[u][k])
  BY DEF Writes
<1>3. /\ pc[t] \in Nat \ {0} /\ pc'[t] = pc[t] + 1 /\ pc[u] \in Nat \ {0}
      /\ \A v \in Threads : v # t => pc'[v] = pc[v]
  BY DEF DeviceTypes
<1>4. /\ prog[t][pc[t]].for \in DOMAIN mem'
      /\ mem'[prog[t][pc[t]].for] = prog[t][pc[t]].val
      /\ DOMAIN mem \subseteq DOMAIN mem'
      /\ \A x \in DOMAIN mem : x # prog[t][pc[t]].for => mem'[x] = mem[x]
  BY <1>1
<1>5. CASE prog[u][k].for = prog[t][pc[t]].for
  <2>1. PICK j \in 1..pc'[t]-1 : j = pc[t]
    BY <1>3
  <2>2. Overtakes(t, j, u, k)'
    BY <1>3, <1>5, <2>1 DEF Overtakes, Writes
  <2> QED BY <1>4, <1>5, <2>1, <2>2
<1>6. CASE prog[u][k].for # prog[t][pc[t]].for
  <2>1. k \in 1..pc[u]-1
    BY <1>3, <1>6
  <2>2. prog[u][k].for \in DOMAIN mem
    BY <1>1, <1>2, <2>1 DEF Delivered
  <2>3. PICK v \in Threads : \E j \in 1..pc[v]-1 :
             Overtakes(v, j, u, k) /\ mem[prog[u][k].for] = prog[v][j].val
    BY <1>1, <1>2, <2>1 DEF Delivered
  <2>4. PICK j \in 1..pc[v]-1 :
             Overtakes(v, j, u, k) /\ mem[prog[u][k].for] = prog[v][j].val
    BY <2>3
  <2>5. j \in 1..pc'[v]-1
    <3>1. pc[v] \in Nat
      BY DEF DeviceTypes
    <3> QED BY <1>3, <2>4, <3>1
  <2>6. Overtakes(v, j, u, k)'
    BY <2>4 DEF Overtakes, Writes
  <2> QED BY <1>4, <1>6, <2>2, <2>4, <2>5, <2>6
<1> QED BY <1>5, <1>6


-----------------------------------------------------------------------------
(***************************************************************************)
(* Steps that leave the windows alone.                                     *)
(***************************************************************************)
LEMMA SetupNext ==
  ASSUME SetupIs, Written, prog' = prog, proc' = proc, wins' = wins, writer' = writer
  PROVE  SetupIs' /\ Written'
BY DEF SetupIs, Written

\* Opening, closing, stuttering and exceptions.
LEMMA QuietStep ==
  ASSUME NEW CONSTANT scopes, HostInv, AccessInv(scopes), prog' = prog, proc' = proc,
         pc' = pc, thrown \subseteq thrown',
         UNCHANGED <<wins, regs, writer, mem>>
  PROVE  AccessInv(scopes)'
<1>0. /\ SetupIs /\ PcFits /\ Framed(scopes) /\ StillAimed(scopes) /\ Written
      /\ Delivered /\ DeviceTypes
  BY DEF AccessInv, HostInv, TypeInv
<1>1. SetupIs' /\ Written'
  BY <1>0, SetupNext
<1>2. PcFits'
  BY <1>0 DEF PcFits
<1>3. Framed(scopes)' /\ StillAimed(scopes)'
  <2>1. ASSUME NEW t \in Threads, t \notin thrown'
        PROVE  /\ Len(wins'[t]) = Len(scopes[prog[t]][pc'[t]])
               /\ \A k \in DOMAIN wins'[t] :
                    LET w == wins'[t][k]
                        m == prog[t][scopes[prog[t]][pc'[t]][k]]
                    IN  /\ w.kind = m.kind /\ w.off = m.to.off
                        /\ w.size = Words(w.kind) - w.off
                        /\ writer'[w.index] = proc[t] =>
                             regs'[w.index] = Aim(m) /\ Aim(m) # None
    BY <1>0, <2>1, FramedSame
  <2> QED BY <2>1, FramedNext
<1>4. Delivered'
  <2>1. \A t \in Threads : pc[t] \in Nat /\ pc'[t] \in Nat /\ pc[t] <= pc'[t]
    BY <1>0 DEF DeviceTypes
  <2>2. \A t \in Threads : \A k \in pc[t]..pc'[t]-1 : ~ Writes(prog[t][k])
    BY <2>1
  <2> QED BY <1>0, <2>1, <2>2, DeliveredSame
<1> QED BY <1>1, <1>2, <1>3, <1>4 DEF AccessInv

\* A step of a program that neither maps nor frees.
LEMMA OnwardStep ==
  ASSUME NEW CONSTANT scopes, AllWellWritten(scopes), HostInv, AccessInv(scopes),
         NEW t \in Threads, AtStep(t, {"load", "store", "poke", "pin"}), Advance(t),
         prog' = prog, proc' = proc, UNCHANGED <<wins, regs, writer>>
  PROVE  /\ SetupIs' /\ PcFits' /\ Framed(scopes)' /\ StillAimed(scopes)' /\ Written'
         /\ pc'[t] = pc[t] + 1
         /\ \A u \in Threads : /\ pc[u] \in Nat /\ pc'[u] \in Nat /\ pc[u] <= pc'[u]
                               /\ u # t => pc'[u] = pc[u]
<1>0. /\ SetupIs /\ PcFits /\ Framed(scopes) /\ StillAimed(scopes) /\ Written
      /\ ProgramTypes /\ DeviceTypes
  BY DEF AccessInv, HostInv, TypeInv
<1>1. /\ pc[t] \in 1..Len(prog[t]) /\ Len(prog[t]) \in Nat /\ t \notin thrown
      /\ prog[t][pc[t]].do \in {"load", "store", "poke", "pin"}
  BY <1>0, AtStepIs
<1>2. /\ pc'[t] = pc[t] + 1 /\ thrown' = thrown
      /\ \A u \in Threads : u # t => pc'[u] = pc[u]
      /\ \A u \in Threads : pc[u] \in Nat /\ pc'[u] \in Nat /\ pc[u] <= pc'[u]
  BY <1>0 DEF Advance, DeviceTypes
<1>3. SetupIs' /\ Written'
  BY <1>0, SetupNext
<1>4. PcFits'
  BY <1>0, <1>1, <1>2 DEF PcFits
<1>5. scopes[prog[t]][pc[t]+1] = scopes[prog[t]][pc[t]]
  <2>1. prog[t][pc[t]].do \notin {"map", "free"}
    BY <1>1
  <2>2. SetupIs /\ pc[t] \in 1..Len(prog[t])
    BY <1>0, <1>1
  <2> QED BY <2>1, <2>2, ScopeSteps
<1>6. ASSUME NEW u \in Threads, u \notin thrown'
      PROVE  /\ Len(wins'[u]) = Len(scopes[prog[u]][pc'[u]])
             /\ \A k \in DOMAIN wins'[u] :
                  LET w == wins'[u][k]
                      m == prog[u][scopes[prog[u]][pc'[u]][k]]
                  IN  /\ w.kind = m.kind /\ w.off = m.to.off
                      /\ w.size = Words(w.kind) - w.off
                      /\ writer'[w.index] = proc[u] =>
                           regs'[w.index] = Aim(m) /\ Aim(m) # None
  <2>1. scopes[prog[u]][pc'[u]] = scopes[prog[u]][pc[u]] /\ u \notin thrown
    BY <1>2, <1>5, <1>6
  <2> QED BY <1>0, <2>1, FramedSame
<1>7. Framed(scopes)' /\ StillAimed(scopes)'
  BY <1>6, FramedNext
<1> QED BY <1>2, <1>3, <1>4, <1>7

\* Pinning pages stores nothing.
LEMMA PinStep ==
  ASSUME NEW CONSTANT scopes, AllWellWritten(scopes), HostInv, AccessInv(scopes),
         NEW t \in Threads, PinPages(t)
  PROVE  AccessInv(scopes)'
<1>1. prog' = prog /\ proc' = proc /\ UNCHANGED <<wins, regs, writer, mem>>
  BY DEF PinPages, setup
<1>2. CASE Throw(t)
  BY <1>1, <1>2, QuietStep DEF Throw
<1>3. CASE Advance(t)
  <2>1. AtStep(t, {"pin"}) /\ AtStep(t, {"load", "store", "poke", "pin"})
    BY DEF PinPages, AtStep
  <2>2. /\ SetupIs' /\ PcFits' /\ Framed(scopes)' /\ StillAimed(scopes)' /\ Written'
        /\ pc'[t] = pc[t] + 1
        /\ \A u \in Threads : /\ pc[u] \in Nat /\ pc'[u] \in Nat /\ pc[u] <= pc'[u]
                              /\ u # t => pc'[u] = pc[u]
    BY <1>1, <1>3, <2>1, OnwardStep
  <2>3. ~ Writes(prog[t][pc[t]])
    BY <2>1 DEF AtStep, Writes
  <2>4. \A u \in Threads : \A k \in pc[u]..pc'[u]-1 : ~ Writes(prog[u][k])
    BY <2>2, <2>3
  <2>5. Delivered'
    BY <1>1, <2>2, <2>4, DeliveredSame DEF AccessInv
  <2> QED BY <2>2, <2>5 DEF AccessInv
<1> QED BY <1>2, <1>3 DEF PinPages


\* configure_iatu_region stores where it means to.
LEMMA PokeStep ==
  ASSUME NEW CONSTANT scopes, AllWellWritten(scopes), HostInv, AccessInv(scopes),
         NEW t \in Threads, PokeBar2(t)
  PROVE  AccessInv(scopes)'
<1>1. /\ prog' = prog /\ proc' = proc /\ UNCHANGED <<wins, regs, writer>>
      /\ Advance(t)
      /\ mem' = [x \in DOMAIN mem \cup {prog[t][pc[t]].for} |->
                   IF x = prog[t][pc[t]].for THEN prog[t][pc[t]].val ELSE mem[x]]
  BY DEF PokeBar2, setup, Step
<1>2. AtStep(t, {"poke"}) /\ AtStep(t, {"load", "store", "poke", "pin"})
  BY DEF PokeBar2, AtStep
<1>3. SetupIs' /\ PcFits' /\ Framed(scopes)' /\ StillAimed(scopes)' /\ Written'
  BY <1>1, <1>2, OnwardStep
<1>4. Writes(prog[t][pc[t]])
  BY <1>2 DEF AtStep, Writes
<1>5. Delivered'
  <2>1. Delivered /\ PcFits /\ ProgramTypes /\ DeviceTypes
    BY DEF AccessInv, HostInv, TypeInv
  <2>2. pc' = [pc EXCEPT ![t] = @ + 1]
    BY <1>1 DEF Advance
  <2> QED BY <1>1, <1>4, <2>1, <2>2, DeliveredStore
<1> QED BY <1>3, <1>5 DEF AccessInv

\* In a single process a store reaches what it means.
LEMMA StoreHits ==
  ASSUME NEW CONSTANT scopes, AllWellWritten(scopes), HostInv, AccessInv(scopes),
         NEW t \in Threads, AtStep(t, {"load", "store"}), Step(t).do = "store",
         InBounds(wins[t][Step(t).at], Step(t)), OneProcess
  PROVE  Target(wins[t][Step(t).at], Step(t).off) = Step(t).for
<1> DEFINE s == Step(t)
           w == wins[t][s.at]
           m == Maker(scopes, t, s.at)
<1>1. /\ s.at \in DOMAIN wins[t]
      /\ w.kind = m.kind /\ w.off = m.to.off /\ w.size = Words(w.kind) - w.off
      /\ Means(s, m)
  BY WindowInUse
<1>2. ~ (s.n = 1 /\ s.off = w.size)
  BY <1>1 DEF Means
<1>3. writer[w.index] = proc[t]
  <2>1. Written
    BY DEF AccessInv
  <2>2. PICK u \in Threads : writer[w.index] = proc[u]
    BY <1>1, <2>1 DEF Written
  <2> QED BY <2>2 DEF OneProcess
<1> QED BY <1>2, <1>3, Hits

LEMMA AccessStep ==
  ASSUME NEW CONSTANT scopes, AllWellWritten(scopes), HostInv, AccessInv(scopes),
         NEW t \in Threads, Access(t)
  PROVE  AccessInv(scopes)'
<1> DEFINE s == Step(t)
           l == Target(wins[t][s.at], s.off)
<1>1. /\ prog' = prog /\ proc' = proc /\ UNCHANGED <<wins, regs, writer>>
      /\ Advance(t) /\ AtStep(t, {"load", "store"}) /\ InBounds(wins[t][s.at], s)
  BY DEF Access, setup
<1>2. AtStep(t, {"load", "store", "poke", "pin"})
  BY <1>1 DEF AtStep
<1>3. /\ SetupIs' /\ PcFits' /\ Framed(scopes)' /\ StillAimed(scopes)' /\ Written'
      /\ pc'[t] = pc[t] + 1
      /\ \A u \in Threads : /\ pc[u] \in Nat /\ pc'[u] \in Nat /\ pc[u] <= pc'[u]
                            /\ u # t => pc'[u] = pc[u]
  BY <1>1, <1>2, OnwardStep
<1>4. CASE s.do = "load"
  <2>1. mem' = mem
    BY <1>4 DEF Access
  <2>2. ~ Writes(prog[t][pc[t]])
    BY <1>4 DEF Writes, Step
  <2>3. \A u \in Threads : \A k \in pc[u]..pc'[u]-1 : ~ Writes(prog[u][k])
    BY <1>3, <2>2
  <2>4. Delivered'
    BY <1>1, <1>3, <2>1, <2>3, DeliveredSame DEF AccessInv
  <2> QED BY <1>3, <2>4 DEF AccessInv
<1>5. CASE s.do = "store"
  <2>1. mem' = [x \in DOMAIN mem \cup {l} |-> IF x = l THEN s.val ELSE mem[x]]
    BY <1>5 DEF Access
  <2>2. OneProcess => l = prog[t][pc[t]].for
    BY <1>1, <1>5, StoreHits DEF Step
  <2>3. s = prog[t][pc[t]]
    BY DEF Step
  <2>4. Writes(prog[t][pc[t]])
    BY <1>5, <2>3 DEF Writes
  <2>5. pc' = [pc EXCEPT ![t] = @ + 1]
    BY <1>1 DEF Advance
  <2>6. Delivered /\ PcFits /\ ProgramTypes /\ DeviceTypes
    BY DEF AccessInv, HostInv, TypeInv
  <2> HIDE DEF l, s
  <2>7. OneProcess =>
          mem' = [x \in DOMAIN mem \cup {prog[t][pc[t]].for} |->
                    IF x = prog[t][pc[t]].for THEN prog[t][pc[t]].val ELSE mem[x]]
    BY <2>1, <2>2, <2>3
  <2>8. Delivered'
    BY <1>1, <2>4, <2>5, <2>6, <2>7, DeliveredStore
  <2> QED BY <1>3, <2>8 DEF AccessInv
<1>6. s.do \in {"load", "store"}
  BY <1>1 DEF AtStep, Step
<1> QED BY <1>4, <1>5, <1>6


-----------------------------------------------------------------------------
(***************************************************************************)
(* Steps that aim a register.  The index comes from the process's own      *)
(* list, so a window in use that is aimed anew is another process's.       *)
(***************************************************************************)
LEMMA Reaimed ==
  ASSUME HostInv, NEW p \in Procs, NEW k \in Kinds, NEW i \in ToSet(free[p][k]),
         NEW a, regs' = [regs EXCEPT ![i] = a], writer' = [writer EXCEPT ![i] = p],
         NEW u \in Threads, NEW j \in DOMAIN wins[u]
  PROVE  /\ writer'[wins[u][j].index] = proc[u] =>
              /\ writer[wins[u][j].index] = proc[u]
              /\ regs'[wins[u][j].index] = regs[wins[u][j].index]
         /\ writer'[wins[u][j].index] \in {writer[wins[u][j].index], p}
<1>0. CardTypes /\ ListTypes /\ HeldApart
  BY DEF HostInv, TypeInv, Places
<1>1. wins[u][j] \in WindowObjects
  BY <1>0 DEF ListTypes
<1>2. /\ wins[u][j].kind \in Kinds /\ wins[u][j].index \in Indices
      /\ wins[u][j].index \in UserIndices(wins[u][j].kind)
  BY <1>1 DEF WindowObjects
<1>3. i \in UserIndices(k) /\ i \in Indices
  BY <1>0, KindsApart DEF ListTypes
<1>4. CASE wins[u][j].index = i
  <2>1. wins[u][j].kind = k
    BY <1>2, <1>3, <1>4, KindsApart
  <2>2. proc[u] # p
    BY <1>0, <1>4, <2>1 DEF HeldApart
  <2>3. writer'[i] = p
    BY <1>0, <1>3 DEF CardTypes
  <2> QED BY <1>4, <2>2, <2>3
<1>5. CASE wins[u][j].index # i
  BY <1>0, <1>2, <1>5 DEF CardTypes
<1> QED BY <1>4, <1>5

\* The facts both map steps start from.
LEMMA TakenFrom ==
  ASSUME HostInv, NEW t \in Threads, AtStep(t, {"map"}),
         free[proc[t]][Step(t).kind] # <<>>
  PROVE  /\ proc[t] \in Procs /\ Step(t).kind \in Kinds
         /\ Last(free[proc[t]][Step(t).kind]) \in ToSet(free[proc[t]][Step(t).kind])
         /\ Last(free[proc[t]][Step(t).kind]) \in Indices
<1>1. ProgramTypes /\ DeviceTypes /\ ListTypes
  BY DEF HostInv, TypeInv
<1>2. proc[t] \in Procs /\ Step(t).kind \in Kinds
  BY <1>1, StepIs
<1>3. free[proc[t]][Step(t).kind] \in Seq(Indices)
  BY <1>1, <1>2 DEF ListTypes
<1> QED BY <1>2, <1>3, LastInSet

\* make_unique throws: the register is aimed, no window comes into use.
LEMMA BadAllocStep ==
  ASSUME NEW CONSTANT scopes, HostInv, AccessInv(scopes),
         NEW t \in Threads, MapBadAlloc(t)
  PROVE  AccessInv(scopes)'
<1> DEFINE p == proc[t]
           i == Last(free[p][Step(t).kind])
<1>0. /\ SetupIs /\ PcFits /\ Framed(scopes) /\ StillAimed(scopes) /\ Written
      /\ Delivered /\ DeviceTypes
  BY DEF AccessInv, HostInv, TypeInv
<1>1. /\ regs' = [regs EXCEPT ![i] = Aim(Step(t))] /\ writer' = [writer EXCEPT ![i] = p]
      /\ prog' = prog /\ proc' = proc /\ wins' = wins /\ mem' = mem
      /\ pc' = pc /\ thrown' = thrown \cup {t}
  BY DEF MapBadAlloc, AimRegister, setup, Throw
<1>2. p \in Procs /\ Step(t).kind \in Kinds /\ i \in ToSet(free[p][Step(t).kind])
  BY TakenFrom DEF MapBadAlloc
<1>3. ASSUME NEW u \in Threads, NEW j \in DOMAIN wins[u]
      PROVE  /\ writer'[wins[u][j].index] = proc[u] =>
                  /\ writer[wins[u][j].index] = proc[u]
                  /\ regs'[wins[u][j].index] = regs[wins[u][j].index]
             /\ writer'[wins[u][j].index] \in {writer[wins[u][j].index], p}
  BY <1>1, <1>2, Reaimed
<1> HIDE DEF i
<1>4. ASSUME NEW u \in Threads, u \notin thrown'
      PROVE  /\ Len(wins'[u]) = Len(scopes[prog[u]][pc'[u]])
             /\ \A k \in DOMAIN wins'[u] :
                  LET w == wins'[u][k]
                      m == prog[u][scopes[prog[u]][pc'[u]][k]]
                  IN  /\ w.kind = m.kind /\ w.off = m.to.off
                      /\ w.size = Words(w.kind) - w.off
                      /\ writer'[w.index] = proc[u] =>
                           regs'[w.index] = Aim(m) /\ Aim(m) # None
  <2>1. u \notin thrown
    BY <1>1, <1>4
  <2>2. /\ Len(wins[u]) = Len(scopes[prog[u]][pc[u]])
        /\ \A k \in DOMAIN wins[u] :
             LET w == wins[u][k]
                 m == prog[u][scopes[prog[u]][pc[u]][k]]
             IN  /\ w.kind = m.kind /\ w.off = m.to.off
                 /\ w.size = Words(w.kind) - w.off
                 /\ writer[w.index] = proc[u] =>
                      regs[w.index] = Aim(m) /\ Aim(m) # None
    BY <1>0, <2>1, FramedSame
  <2> QED BY <1>1, <1>3, <2>2
<1>5. Framed(scopes)' /\ StillAimed(scopes)'
  BY <1>1, <1>4, FramedNext
<1>6. Written'
  <2>1. ASSUME NEW u \in Threads, NEW j \in DOMAIN wins[u]
        PROVE  \E v \in Threads : writer'[wins[u][j].index] = proc[v]
    <3>1. PICK v \in Threads : writer[wins[u][j].index] = proc[v]
      BY <1>0 DEF Written
    <3> QED BY <1>3, <3>1
  <2> QED BY <1>1, <2>1 DEF Written
<1>7. Delivered'
  <2>1. \A u \in Threads : pc[u] \in Nat /\ pc'[u] \in Nat /\ pc[u] <= pc'[u]
    BY <1>0, <1>1 DEF DeviceTypes
  <2>2. \A u \in Threads : \A k \in pc[u]..pc'[u]-1 : ~ Writes(prog[u][k])
    BY <1>1, <2>1
  <2> QED BY <1>0, <1>1, <2>1, <2>2, DeliveredSame
<1>8. SetupIs' /\ PcFits'
  BY <1>0, <1>1 DEF SetupIs, PcFits
<1> QED BY <1>5, <1>6, <1>7, <1>8 DEF AccessInv

\* map_tlb_*: the new window is the one the program counts as its newest.
LEMMA MapWindowStep ==
  ASSUME NEW CONSTANT scopes, AllWellWritten(scopes), HostInv, AccessInv(scopes),
         NEW t \in Threads, MapWindow(t)
  PROVE  AccessInv(scopes)'
<1> DEFINE p == proc[t]
           s == Step(t)
           i == Last(free[p][s.kind])
           o == [kind |-> s.kind, index |-> i, off |-> s.to.off,
                 size |-> ApparentSize(s.kind, s.to.off)]
           n == Len(wins[t]) + 1
<1>0. /\ SetupIs /\ PcFits /\ Framed(scopes) /\ StillAimed(scopes) /\ Written
      /\ Delivered /\ ProgramTypes /\ DeviceTypes /\ CardTypes /\ ListTypes
  BY DEF AccessInv, HostInv, TypeInv
<1>1. /\ regs' = [regs EXCEPT ![i] = Aim(s)] /\ writer' = [writer EXCEPT ![i] = p]
      /\ prog' = prog /\ proc' = proc /\ mem' = mem
      /\ wins' = [wins EXCEPT ![t] = Append(wins[t], o)]
      /\ pc' = [pc EXCEPT ![t] = @ + 1] /\ thrown' = thrown
      /\ AtStep(t, {"map"}) /\ free[p][s.kind] # <<>>
  BY DEF MapWindow, AimRegister, setup, Advance
<1>2. /\ p \in Procs /\ s.kind \in Kinds /\ i \in ToSet(free[p][s.kind])
      /\ i \in Indices
  BY <1>1, TakenFrom
<1>3. ASSUME NEW u \in Threads, NEW j \in DOMAIN wins[u]
      PROVE  /\ writer'[wins[u][j].index] = proc[u] =>
                  /\ writer[wins[u][j].index] = proc[u]
                  /\ regs'[wins[u][j].index] = regs[wins[u][j].index]
             /\ writer'[wins[u][j].index] \in {writer[wins[u][j].index], p}
  BY <1>1, <1>2, Reaimed
<1>4. /\ pc[t] \in 1..Len(prog[t]) /\ Len(prog[t]) \in Nat /\ t \notin thrown
      /\ s = prog[t][pc[t]] /\ prog[t][pc[t]].do = "map"
  BY <1>0, <1>1, AtStepIs
<1>5. Aim(s) # None /\ s.to.off \in 0..Words(s.kind)-1
  BY <1>0, <1>1, <1>4, StepIs, SetupsAssumption DEF SetupIs
<1>6. o \in WindowObjects
  <2>1. i \in UserIndices(s.kind)
    BY <1>0, <1>2 DEF ListTypes
  <2> QED BY <1>2, <1>5, <2>1 DEF WindowObjects, ApparentSize, Words
<1>7. /\ o.kind = s.kind /\ o.index = i /\ o.off = s.to.off
      /\ o.size = Words(s.kind) - s.to.off
  BY DEF ApparentSize
<1>8. regs'[i] = Aim(s) /\ writer'[i] = p
  BY <1>0, <1>1, <1>2 DEF CardTypes
<1>9. /\ pc'[t] = pc[t] + 1
      /\ \A u \in Threads : u # t => pc'[u] = pc[u]
      /\ \A u \in Threads : pc[u] \in Nat /\ pc'[u] \in Nat /\ pc[u] <= pc'[u]
  BY <1>0, <1>1 DEF DeviceTypes
<1> HIDE DEF i, o, s
<1>10. /\ \A u \in Threads \ {t} : wins'[u] = wins[u]
       /\ DOMAIN wins'[t] = DOMAIN wins[t] \cup {n}
       /\ n \notin DOMAIN wins[t]
       /\ \A j \in DOMAIN wins[t] : wins'[t][j] = wins[t][j]
       /\ wins'[t][n] = o /\ wins' \in [Threads -> Seq(WindowObjects)]
  BY <1>0, <1>1, <1>6, PushObject
<1>11. /\ wins[t] \in Seq(WindowObjects) /\ Len(wins'[t]) = n
       /\ DOMAIN wins[t] = 1..Len(wins[t])
  <2>1. wins'[t] = Append(wins[t], o) /\ wins[t] \in Seq(WindowObjects)
    BY <1>0, <1>1 DEF ListTypes
  <2> QED BY <1>6, <2>1
<1>12. /\ Len(scopes[prog[t]][pc'[t]]) = n
       /\ scopes[prog[t]][pc'[t]][n] = pc[t]
       /\ \A k \in DOMAIN wins[t] :
            scopes[prog[t]][pc'[t]][k] = scopes[prog[t]][pc[t]][k]
  <2>1. SetupIs
    BY <1>0
  <2>2. pc[t] \in 1..Len(prog[t])
    BY <1>4
  <2> DEFINE q == scopes[prog[t]][pc[t]]
             r == scopes[prog[t]][pc[t]+1]
  <2>3. prog[t][pc[t]].do = "map" => Opens(q, r, pc[t])
    BY <2>1, <2>2, ScopeSteps
  <2>4. Len(wins[t]) = Len(q)
    BY <1>0, <1>4 DEF Framed
  <2>5. r = scopes[prog[t]][pc'[t]]
    BY <1>9
  <2> QED BY <1>4, <1>11, <2>3, <2>4, <2>5 DEF Opens
<1> HIDE DEF n
<1>13. ASSUME NEW u \in Threads, u \notin thrown'
       PROVE  /\ Len(wins'[u]) = Len(scopes[prog[u]][pc'[u]])
              /\ \A k \in DOMAIN wins'[u] :
                   LET w == wins'[u][k]
                       m == prog[u][scopes[prog[u]][pc'[u]][k]]
                   IN  /\ w.kind = m.kind /\ w.off = m.to.off
                       /\ w.size = Words(w.kind) - w.off
                       /\ writer'[w.index] = proc[u] =>
                            regs'[w.index] = Aim(m) /\ Aim(m) # None
  <2>1. u \notin thrown
    BY <1>1, <1>13
  <2>2. /\ Len(wins[u]) = Len(scopes[prog[u]][pc[u]])
        /\ \A k \in DOMAIN wins[u] :
             LET w == wins[u][k]
                 m == prog[u][scopes[prog[u]][pc[u]][k]]
             IN  /\ w.kind = m.kind /\ w.off = m.to.off
                 /\ w.size = Words(w.kind) - w.off
                 /\ writer[w.index] = proc[u] =>
                      regs[w.index] = Aim(m) /\ Aim(m) # None
    BY <1>0, <2>1, FramedSame
  <2>3. CASE u # t
    <3>1. wins'[u] = wins[u] /\ pc'[u] = pc[u]
      BY <1>9, <1>10, <2>3
    <3> QED BY <1>3, <2>2, <3>1
  <2>4. CASE u = t
    <3>1. ASSUME NEW k \in DOMAIN wins[t]
          PROVE  LET w == wins'[t][k]
                     m == prog[t][scopes[prog[t]][pc'[t]][k]]
                 IN  /\ w.kind = m.kind /\ w.off = m.to.off
                     /\ w.size = Words(w.kind) - w.off
                     /\ writer'[w.index] = proc[t] =>
                          regs'[w.index] = Aim(m) /\ Aim(m) # None
      <4>1. wins'[t][k] = wins[t][k]
        BY <1>10
      <4>2. scopes[prog[t]][pc'[t]][k] = scopes[prog[t]][pc[t]][k]
        BY <1>12
      <4> QED BY <1>3, <2>2, <2>4, <4>1, <4>2
    <3>2. LET m == prog[t][scopes[prog[t]][pc'[t]][n]]
          IN  /\ o.kind = m.kind /\ o.off = m.to.off
              /\ o.size = Words(o.kind) - o.off
              /\ regs'[o.index] = Aim(m) /\ Aim(m) # None
      BY <1>4, <1>5, <1>7, <1>8, <1>12
    <3>3. ASSUME NEW k \in DOMAIN wins'[t]
          PROVE  LET w == wins'[t][k]
                     m == prog[t][scopes[prog[t]][pc'[t]][k]]
                 IN  /\ w.kind = m.kind /\ w.off = m.to.off
                     /\ w.size = Words(w.kind) - w.off
                     /\ writer'[w.index] = proc[t] =>
                          regs'[w.index] = Aim(m) /\ Aim(m) # None
      <4>1. CASE k = n
        BY <1>10, <3>2, <4>1
      <4>2. CASE k # n
        <5>1. k \in DOMAIN wins[t]
          BY <1>10, <4>2
        <5> QED BY <3>1, <5>1
      <4> QED BY <4>1, <4>2
    <3> QED BY <1>11, <1>12, <2>4, <3>3
  <2> QED BY <2>3, <2>4
<1>14. Framed(scopes)' /\ StillAimed(scopes)'
  BY <1>1, <1>13, FramedNext
<1>15. Written'
  <2>1. ASSUME NEW u \in Threads, NEW j \in DOMAIN wins'[u]
        PROVE  \E v \in Threads : writer'[wins'[u][j].index] = proc[v]
    <3>1. CASE u = t /\ j = n
      BY <1>7, <1>8, <1>10, <3>1
    <3>2. CASE ~ (u = t /\ j = n)
      <4>1. j \in DOMAIN wins[u] /\ wins'[u][j] = wins[u][j]
        BY <1>10, <3>2
      <4>2. PICK v \in Threads : writer[wins[u][j].index] = proc[v]
        BY <1>0, <4>1 DEF Written
      <4> QED BY <1>3, <4>1, <4>2
    <3> QED BY <3>1, <3>2
  <2> QED BY <1>1, <2>1 DEF Written
<1>16. Delivered'
  <2>1. ~ Writes(prog[t][pc[t]])
    BY <1>4 DEF Writes
  <2>2. \A u \in Threads : \A k \in pc[u]..pc'[u]-1 : ~ Writes(prog[u][k])
    BY <1>9, <2>1
  <2> QED BY <1>0, <1>1, <1>9, <2>2, DeliveredSame
<1>17. SetupIs' /\ PcFits'
  BY <1>0, <1>1, <1>4, <1>9 DEF SetupIs, PcFits
<1> QED BY <1>14, <1>15, <1>16, <1>17 DEF AccessInv


-----------------------------------------------------------------------------
(***************************************************************************)
(* Steps that give the newest window back.                                 *)
(***************************************************************************)
LEMMA PopWritten ==
  ASSUME HostInv, Written, NEW t \in Threads, Release(t),
         proc' = proc, writer' = writer
  PROVE  /\ Written'
         /\ \A u \in Threads \ {t} : wins'[u] = wins[u]
         /\ wins[t] \in Seq(WindowObjects) /\ Len(wins[t]) \in Nat
         /\ DOMAIN wins[t] = 1..Len(wins[t])
         /\ Len(wins'[t]) = Len(wins[t]) - 1
         /\ DOMAIN wins'[t] = 1..Len(wins[t])-1
         /\ \A j \in DOMAIN wins'[t] : wins'[t][j] = wins[t][j]
<1>1. ListTypes /\ wins[t] # <<>> /\ wins' = [wins EXCEPT ![t] = Front(wins[t])]
  BY DEF HostInv, TypeInv, Release
<1>2. /\ \A u \in Threads \ {t} : wins'[u] = wins[u]
      /\ DOMAIN wins'[t] = DOMAIN wins[t] \ {Len(wins[t])}
      /\ \A j \in DOMAIN wins'[t] : wins'[t][j] = wins[t][j]
  BY <1>1, PopObject
<1>3. wins \in [Threads -> Seq(WindowObjects)] /\ wins[t] \in Seq(WindowObjects)
  BY <1>1 DEF ListTypes
<1>4. /\ Front(wins[t]) \in Seq(WindowObjects) /\ Len(wins[t]) \in Nat \ {0}
      /\ Len(Front(wins[t])) = Len(wins[t]) - 1
  BY <1>1, <1>3, LastInSet
<1>5. wins'[t] = Front(wins[t])
  BY <1>1, <1>3
<1>6. /\ DOMAIN wins[t] = 1..Len(wins[t]) /\ DOMAIN wins'[t] = 1..Len(wins[t])-1
      /\ Len(wins'[t]) = Len(wins[t]) - 1
  BY <1>3, <1>4, <1>5
<1>7. ASSUME NEW u \in Threads, NEW j \in DOMAIN wins'[u]
      PROVE  \E v \in Threads : writer'[wins'[u][j].index] = proc[v]
  <2>1. j \in DOMAIN wins[u] /\ wins'[u][j] = wins[u][j]
    BY <1>2
  <2> QED BY <2>1 DEF Written
<1>8. Written'
  BY <1>7 DEF Written
<1> QED BY <1>2, <1>3, <1>4, <1>6, <1>8

\* A program destroys its newest window.
LEMMA FreeWindowStep ==
  ASSUME NEW CONSTANT scopes, AllWellWritten(scopes), HostInv, AccessInv(scopes),
         NEW t \in Threads, FreeWindow(t)
  PROVE  AccessInv(scopes)'
<1>0. /\ SetupIs /\ PcFits /\ Framed(scopes) /\ StillAimed(scopes) /\ Written
      /\ Delivered /\ ProgramTypes /\ DeviceTypes
  BY DEF AccessInv, HostInv, TypeInv
<1>1. /\ prog' = prog /\ proc' = proc /\ mem' = mem /\ regs' = regs /\ writer' = writer
      /\ Release(t) /\ AtStep(t, {"free"})
      /\ pc' = [pc EXCEPT ![t] = @ + 1] /\ thrown' = thrown
  BY DEF FreeWindow, setup, Advance
<1>2. /\ Written'
      /\ \A u \in Threads \ {t} : wins'[u] = wins[u]
      /\ wins[t] \in Seq(WindowObjects) /\ Len(wins[t]) \in Nat
      /\ DOMAIN wins[t] = 1..Len(wins[t])
      /\ Len(wins'[t]) = Len(wins[t]) - 1
      /\ DOMAIN wins'[t] = 1..Len(wins[t])-1
      /\ \A j \in DOMAIN wins'[t] : wins'[t][j] = wins[t][j]
  BY <1>0, <1>1, PopWritten
<1>3. /\ pc[t] \in 1..Len(prog[t]) /\ Len(prog[t]) \in Nat /\ t \notin thrown
      /\ prog[t][pc[t]].do = "free"
  BY <1>0, <1>1, AtStepIs
<1>4. /\ pc'[t] = pc[t] + 1
      /\ \A u \in Threads : u # t => pc'[u] = pc[u]
      /\ \A u \in Threads : pc[u] \in Nat /\ pc'[u] \in Nat /\ pc[u] <= pc'[u]
  BY <1>0, <1>1 DEF DeviceTypes
<1>5. /\ Len(scopes[prog[t]][pc'[t]]) = Len(wins[t]) - 1
      /\ \A k \in DOMAIN wins'[t] :
           scopes[prog[t]][pc'[t]][k] = scopes[prog[t]][pc[t]][k]
  <2> DEFINE q == scopes[prog[t]][pc[t]]
             r == scopes[prog[t]][pc[t]+1]
  <2>1. SetupIs
    BY <1>0
  <2>2. pc[t] \in 1..Len(prog[t])
    BY <1>3
  <2>3. prog[t][pc[t]].do = "free" => Closes(q, r)
    BY <2>1, <2>2, ScopeSteps
  <2>4. Len(wins[t]) = Len(q)
    BY <1>0, <1>3 DEF Framed
  <2>5. r = scopes[prog[t]][pc'[t]]
    BY <1>4
  <2> QED BY <1>2, <1>3, <2>3, <2>4, <2>5 DEF Closes
<1>6. ASSUME NEW u \in Threads, u \notin thrown'
      PROVE  /\ Len(wins'[u]) = Len(scopes[prog[u]][pc'[u]])
             /\ \A k \in DOMAIN wins'[u] :
                  LET w == wins'[u][k]
                      m == prog[u][scopes[prog[u]][pc'[u]][k]]
                  IN  /\ w.kind = m.kind /\ w.off = m.to.off
                      /\ w.size = Words(w.kind) - w.off
                      /\ writer'[w.index] = proc[u] =>
                           regs'[w.index] = Aim(m) /\ Aim(m) # None
  <2>1. u \notin thrown
    BY <1>1, <1>6
  <2>2. /\ Len(wins[u]) = Len(scopes[prog[u]][pc[u]])
        /\ \A k \in DOMAIN wins[u] :
             LET w == wins[u][k]
                 m == prog[u][scopes[prog[u]][pc[u]][k]]
             IN  /\ w.kind = m.kind /\ w.off = m.to.off
                 /\ w.size = Words(w.kind) - w.off
                 /\ writer[w.index] = proc[u] =>
                      regs[w.index] = Aim(m) /\ Aim(m) # None
    BY <1>0, <2>1, FramedSame
  <2>3. CASE u # t
    <3>1. wins'[u] = wins[u] /\ pc'[u] = pc[u]
      BY <1>2, <1>4, <2>3
    <3> QED BY <1>1, <2>2, <3>1
  <2>4. CASE u = t
    <3>1. ASSUME NEW k \in DOMAIN wins'[t]
          PROVE  LET w == wins'[t][k]
                     m == prog[t][scopes[prog[t]][pc'[t]][k]]
                 IN  /\ w.kind = m.kind /\ w.off = m.to.off
                     /\ w.size = Words(w.kind) - w.off
                     /\ writer'[w.index] = proc[t] =>
                          regs'[w.index] = Aim(m) /\ Aim(m) # None
      <4>1. k \in DOMAIN wins[t] /\ wins'[t][k] = wins[t][k]
        BY <1>2
      <4>2. scopes[prog[t]][pc'[t]][k] = scopes[prog[t]][pc[t]][k]
        BY <1>5
      <4> QED BY <1>1, <2>2, <2>4, <4>1, <4>2
    <3> QED BY <1>2, <1>5, <2>4, <3>1
  <2> QED BY <2>3, <2>4
<1>7. Framed(scopes)' /\ StillAimed(scopes)'
  BY <1>1, <1>6, FramedNext
<1>8. Delivered'
  <2>1. ~ Writes(prog[t][pc[t]])
    BY <1>3 DEF Writes
  <2>2. \A u \in Threads : \A k \in pc[u]..pc'[u]-1 : ~ Writes(prog[u][k])
    BY <1>4, <2>1
  <2> QED BY <1>0, <1>1, <1>4, <2>2, DeliveredSame
<1>9. SetupIs' /\ PcFits'
  BY <1>0, <1>1, <1>3, <1>4 DEF SetupIs, PcFits
<1> QED BY <1>2, <1>7, <1>8, <1>9 DEF AccessInv

\* An exception destroys one window of a program that runs no further.
LEMMA UnwindStep ==
  ASSUME NEW CONSTANT scopes, HostInv, AccessInv(scopes), NEW t \in Threads, Unwind(t)
  PROVE  AccessInv(scopes)'
<1>0. /\ SetupIs /\ PcFits /\ Framed(scopes) /\ StillAimed(scopes) /\ Written
      /\ Delivered /\ DeviceTypes
  BY DEF AccessInv, HostInv, TypeInv
<1>1. /\ prog' = prog /\ proc' = proc /\ mem' = mem /\ regs' = regs /\ writer' = writer
      /\ pc' = pc /\ thrown' = thrown /\ t \in thrown /\ Release(t)
  BY DEF Unwind, setup
<1>2. Written' /\ \A u \in Threads \ {t} : wins'[u] = wins[u]
  BY <1>0, <1>1, PopWritten
<1>3. ASSUME NEW u \in Threads, u \notin thrown'
      PROVE  /\ Len(wins'[u]) = Len(scopes[prog[u]][pc'[u]])
             /\ \A k \in DOMAIN wins'[u] :
                  LET w == wins'[u][k]
                      m == prog[u][scopes[prog[u]][pc'[u]][k]]
                  IN  /\ w.kind = m.kind /\ w.off = m.to.off
                      /\ w.size = Words(w.kind) - w.off
                      /\ writer'[w.index] = proc[u] =>
                           regs'[w.index] = Aim(m) /\ Aim(m) # None
  <2>1. u \notin thrown /\ wins'[u] = wins[u] /\ pc'[u] = pc[u]
    BY <1>1, <1>2, <1>3
  <2> QED BY <1>0, <1>1, <2>1, FramedSame
<1>4. Framed(scopes)' /\ StillAimed(scopes)'
  BY <1>1, <1>3, FramedNext
<1>5. Delivered'
  <2>1. \A u \in Threads : pc[u] \in Nat /\ pc'[u] \in Nat /\ pc[u] <= pc'[u]
    BY <1>0, <1>1 DEF DeviceTypes
  <2>2. \A u \in Threads : \A k \in pc[u]..pc'[u]-1 : ~ Writes(prog[u][k])
    BY <1>1, <2>1
  <2> QED BY <1>0, <1>1, <2>1, <2>2, DeliveredSame
<1>6. SetupIs' /\ PcFits'
  BY <1>0, <1>1 DEF SetupIs, PcFits
<1> QED BY <1>2, <1>4, <1>5, <1>6 DEF AccessInv


-----------------------------------------------------------------------------
LEMMA AccessInvInit ==
  ASSUME NEW CONSTANT scopes, AllWellWritten(scopes)
  PROVE  Init => AccessInv(scopes)
<1> SUFFICES ASSUME Init PROVE AccessInv(scopes)
  OBVIOUS
<1>1. SetupIs
  BY DEF Init, SetupIs
<1>2. \A t \in Threads : pc[t] = 1 /\ wins[t] = <<>>
  BY DEF Init
<1>3. PcFits
  BY <1>1, <1>2, Rules DEF PcFits
<1>4. Framed(scopes)
  <2>1. \A t \in Threads : scopes[prog[t]][1] = <<>>
    BY <1>1, ScopeStart
  <2> QED BY <1>2, <2>1 DEF Framed
<1>5. StillAimed(scopes) /\ Written
  BY <1>2 DEF StillAimed, Written
<1>6. Delivered
  BY <1>2 DEF Delivered
<1> QED BY <1>1, <1>3, <1>4, <1>5, <1>6 DEF AccessInv

LEMMA AccessInvStep ==
  ASSUME NEW CONSTANT scopes, AllWellWritten(scopes)
  PROVE  HostInv /\ AccessInv(scopes) /\ [Next]_vars => AccessInv(scopes)'
<1> SUFFICES ASSUME HostInv, AccessInv(scopes), [Next]_vars PROVE AccessInv(scopes)'
  OBVIOUS
<1>1. CASE \E p \in Procs :
             \/ OpenDevice(p) \/ CloseDevice(p)
             \/ \E m \in {{}, {"bar0"}, {"bar0", "bar2"}} : OpenFails(p, m)
  <2>1. /\ prog' = prog /\ proc' = proc /\ pc' = pc /\ thrown \subseteq thrown'
        /\ UNCHANGED <<wins, regs, writer, mem>>
    BY <1>1 DEF OpenDevice, CloseDevice, OpenFails, setup
  <2> QED BY <2>1, QuietStep
<1>2. CASE (\E t \in Threads : MapThrows(t) \/ AccessThrows(t)) \/ UNCHANGED vars
  <2>1. /\ prog' = prog /\ proc' = proc /\ pc' = pc /\ thrown \subseteq thrown'
        /\ UNCHANGED <<wins, regs, writer, mem>>
    BY <1>2 DEF MapThrows, AccessThrows, Throw, setup, vars
  <2> QED BY <2>1, QuietStep
<1>3. ASSUME NEW t \in Threads, MapWindow(t) PROVE AccessInv(scopes)'
  BY <1>3, MapWindowStep
<1>4. ASSUME NEW t \in Threads, MapBadAlloc(t) PROVE AccessInv(scopes)'
  BY <1>4, BadAllocStep
<1>5. ASSUME NEW t \in Threads, FreeWindow(t) PROVE AccessInv(scopes)'
  BY <1>5, FreeWindowStep
<1>6. ASSUME NEW t \in Threads, Unwind(t) PROVE AccessInv(scopes)'
  BY <1>6, UnwindStep
<1>7. ASSUME NEW t \in Threads, Access(t) PROVE AccessInv(scopes)'
  BY <1>7, AccessStep
<1>8. ASSUME NEW t \in Threads, PokeBar2(t) PROVE AccessInv(scopes)'
  BY <1>8, PokeStep
<1>9. ASSUME NEW t \in Threads, PinPages(t) PROVE AccessInv(scopes)'
  BY <1>9, PinStep
<1> QED
  BY <1>1, <1>2, <1>3, <1>4, <1>5, <1>6, <1>7, <1>8, <1>9 DEF Next

\* For any number of threads, processes and windows, and for programs that
\* access the windows they hold at the addresses they mapped them for: whatever
\* other threads map, free and throw, an access that TlbWindow lets through
\* reaches the tile and address it means, through the PCIe tile's entry too.
\* Only the word behind a window and windows of another process are excepted.
THEOREM AccessesReach ==
  ASSUME NEW CONSTANT scopes, AllWellWritten(scopes)
  PROVE  Spec => []AccessReaches
<1>1. HostInv /\ AccessInv(scopes) => AccessReaches
  <2> SUFFICES ASSUME HostInv, AccessInv(scopes),
                      NEW t \in Threads, AtStep(t, {"load", "store"}),
                      InBounds(wins[t][Step(t).at], Step(t)),
                      ~ (Step(t).n = 1 /\ Step(t).off = wins[t][Step(t).at].size),
                      writer[wins[t][Step(t).at].index] = proc[t],
                      ~ (Step(t).for.block = DBI /\ ~ OneProcess)
               PROVE  /\ Target(wins[t][Step(t).at], Step(t).off) = Step(t).for
                      /\ BarSlot(wins[t][Step(t).at],
                                 Step(t).off + Step(t).n - 1).index
                           = wins[t][Step(t).at].index
    BY DEF AccessReaches
  <2> QED BY Hits
<1> QED BY <1>1, HostInvInit, HostInvStep, AccessInvInit, AccessInvStep, PTL DEF Spec

\* For the same programs in one process: when a program has ended without an
\* exception, every register that nobody else stores to holds the value that the
\* program stored there last.
THEOREM StoresDelivered ==
  ASSUME NEW CONSTANT scopes, AllWellWritten(scopes)
  PROVE  Spec => []ProgramsDeliver
<1>1. HostInv /\ AccessInv(scopes) => ProgramsDeliver
  <2> SUFFICES ASSUME HostInv, AccessInv(scopes), OneProcess,
                      NEW t \in Threads, Finished(t), t \notin thrown,
                      NEW k \in DOMAIN prog[t], LastStore(t, k)
               PROVE  /\ prog[t][k].for \in DOMAIN mem
                      /\ mem[prog[t][k].for] = prog[t][k].val
    BY DEF ProgramsDeliver
  <2>0. ProgramTypes /\ DeviceTypes /\ PcFits /\ Delivered
    BY DEF HostInv, TypeInv, AccessInv
  <2>1. k \in 1..pc[t]-1
    BY <2>0 DEF Finished, ProgramTypes, DeviceTypes
  <2>2. Writes(prog[t][k])
    BY DEF LastStore, Writes
  <2>3. prog[t][k].for \in DOMAIN mem
    BY <2>0, <2>1, <2>2 DEF Delivered
  <2>4. PICK u \in Threads : \E j \in 1..pc[u]-1 :
               Overtakes(u, j, t, k) /\ mem[prog[t][k].for] = prog[u][j].val
    BY <2>0, <2>1, <2>2 DEF Delivered
  <2>5. PICK j \in 1..pc[u]-1 :
               Overtakes(u, j, t, k) /\ mem[prog[t][k].for] = prog[u][j].val
    BY <2>4
  <2>6. j \in DOMAIN prog[u]
    BY <2>0, <2>5 DEF PcFits, ProgramTypes
  <2>7. u = t /\ j <= k
    BY <2>5, <2>6 DEF LastStore, Overtakes, Writes
  <2>8. j = k
    BY <2>0, <2>1, <2>5, <2>7 DEF Overtakes
  <2> QED BY <2>3, <2>5, <2>7, <2>8
<1> QED BY <1>1, HostInvInit, HostInvStep, AccessInvInit, AccessInvStep, PTL DEF Spec
=============================================================================
