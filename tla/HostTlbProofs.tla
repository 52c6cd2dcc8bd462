---------------------------- MODULE HostTlbProofs ----------------------------
(***************************************************************************)
(* Proofs about the host's window allocator, for any number of threads,    *)
(* processes and windows and for all programs: types, and that no window   *)
(* index is handed out twice, strays to another list or disappears.        *)
(***************************************************************************)
EXTENDS HostTlb, TLAPS

-----------------------------------------------------------------------------
(***************************************************************************)
(* Lists without repetition: taking from the back and giving back.         *)
(***************************************************************************)
LEMMA LastInSet ==
  ASSUME NEW S, NEW s \in Seq(S), s # <<>>
  PROVE  /\ Last(s) \in ToSet(s) /\ Last(s) \in S /\ Front(s) \in Seq(S)
         /\ Len(s) \in Nat \ {0} /\ Len(Front(s)) = Len(s) - 1
         /\ \A i \in 1..Len(s)-1 : Front(s)[i] = s[i]
<1>1. Len(s) \in Nat \ {0} /\ DOMAIN s = 1..Len(s)
  OBVIOUS
<1>2. Last(s) \in S /\ Last(s) \in ToSet(s)
  BY <1>1 DEF Last, ToSet
<1> QED BY <1>1, <1>2 DEF Front

LEMMA TakeLast ==
  ASSUME NEW S, NEW s \in Seq(S), s # <<>>, IsInjective(s)
  PROVE  /\ ToSet(Front(s)) = ToSet(s) \ {Last(s)}
         /\ IsInjective(Front(s))
<1>1. /\ Len(s) \in Nat \ {0} /\ Front(s) \in Seq(S)
      /\ Len(Front(s)) = Len(s) - 1
      /\ \A i \in 1..Len(s)-1 : Front(s)[i] = s[i]
  BY LastInSet
<1>2. DOMAIN s = 1..Len(s) /\ DOMAIN Front(s) = 1..Len(s)-1
  BY <1>1
<1>3. \A i, j \in 1..Len(s) : s[i] = s[j] => i = j
  BY <1>2 DEF IsInjective
<1>4. IsInjective(Front(s))
  BY <1>1, <1>2, <1>3 DEF IsInjective
<1>5. ASSUME NEW x PROVE x \in ToSet(Front(s)) <=> x \in ToSet(s) \ {Last(s)}
  BY <1>1, <1>2, <1>3 DEF ToSet, Last
<1> QED BY <1>4, <1>5

LEMMA GiveBack ==
  ASSUME NEW S, NEW s \in Seq(S), NEW x \in S, x \notin ToSet(s), IsInjective(s)
  PROVE  /\ Append(s, x) \in Seq(S)
         /\ ToSet(Append(s, x)) = ToSet(s) \cup {x}
         /\ IsInjective(Append(s, x))
<1>1. /\ Append(s, x) \in Seq(S) /\ Len(Append(s, x)) = Len(s) + 1
      /\ \A i \in 1..Len(s) : Append(s, x)[i] = s[i]
      /\ Append(s, x)[Len(s) + 1] = x
      /\ Len(s) \in Nat
  OBVIOUS
<1>2. DOMAIN s = 1..Len(s) /\ DOMAIN Append(s, x) = 1..Len(s)+1
  BY <1>1
<1>3. /\ \A i, j \in 1..Len(s) : s[i] = s[j] => i = j
      /\ \A i \in 1..Len(s) : s[i] # x
  BY <1>2 DEF IsInjective, ToSet
<1>4. IsInjective(Append(s, x))
  BY <1>1, <1>2, <1>3 DEF IsInjective
<1>5. ASSUME NEW y PROVE y \in ToSet(Append(s, x)) <=> y \in ToSet(s) \cup {x}
  BY <1>1, <1>2 DEF ToSet
<1> QED BY <1>1, <1>4, <1>5


-----------------------------------------------------------------------------
(***************************************************************************)
(* The indices of each kind, less the kernel's.                            *)
(***************************************************************************)
UserIndices(k) == IndicesOf(k) \ {KernelIndex}

LEMMA KindsApart ==
  /\ KernelIndex \in Indices
  /\ \A k \in Kinds : UserIndices(k) \subseteq Indices \ {KernelIndex}
  /\ \A i \in Indices \ {KernelIndex} : \E k \in Kinds : i \in UserIndices(k)
  /\ \A k, l \in Kinds : \A i : i \in UserIndices(k) /\ i \in UserIndices(l) => k = l
BY CountAssumption
  DEF UserIndices, IndicesOf, Indices, KernelIndex, Kinds, UC_START, START_4G

LEMMA SetIs ==
  ASSUME NEW f, NEW D, NEW S, DOMAIN f = D,
         \A i \in D : f[i] \in S, \A x \in S : \E i \in D : f[i] = x
  PROVE  ToSet(f) = S
BY DEF ToSet

\* The constructor lists every index of each kind once, the kernel's excepted.
LEMMA InitialLists ==
  ASSUME NEW k \in Kinds
  PROVE  /\ InitialFree[k] \in Seq(Indices)
         /\ IsInjective(InitialFree[k])
         /\ ToSet(InitialFree[k]) = UserIndices(k)
<1> USE CountAssumption DEF Indices, KernelIndex, UC_START, START_4G
<1>1. CASE k = "WC"
  <2>1. InitialFree[k] = [i \in 1..NumWC |-> NumWC - i]
    BY <1>1 DEF InitialFree, Kinds
  <2>2. UserIndices(k) = 0..NumWC-1
    BY <1>1 DEF UserIndices, IndicesOf
  <2>3. \A x \in 0..NumWC-1 : NumWC - x \in 1..NumWC /\ x = NumWC - (NumWC - x)
    OBVIOUS
  <2>4. InitialFree[k] \in Seq(Indices)
    BY <2>1
  <2>5. IsInjective(InitialFree[k])
    BY <2>1 DEF IsInjective
  <2>6. DOMAIN InitialFree[k] = 1..NumWC
    BY <2>1
  <2>7. \A i \in 1..NumWC : InitialFree[k][i] \in UserIndices(k)
    BY <2>1, <2>2
  <2>8. ASSUME NEW x \in UserIndices(k)
        PROVE  \E i \in 1..NumWC : InitialFree[k][i] = x
    <3>1. PICK i \in 1..NumWC : x = NumWC - i
      BY <2>2, <2>3
    <3> QED BY <2>1, <3>1
  <2>9. ToSet(InitialFree[k]) = UserIndices(k)
    BY <2>6, <2>7, <2>8, SetIs
  <2> QED BY <2>4, <2>5, <2>9
<1>2. CASE k = "UC"
  <2>1. InitialFree[k] = [i \in 1..NumUC-1 |-> NumWC + i - 1]
    BY <1>2 DEF InitialFree, Kinds
  <2>2. UserIndices(k) = NumWC..NumWC+NumUC-2
    BY <1>2 DEF UserIndices, IndicesOf
  <2>3. \A x \in NumWC..NumWC+NumUC-2 :
          x - NumWC + 1 \in 1..NumUC-1 /\ x = NumWC + (x - NumWC + 1) - 1
    OBVIOUS
  <2>4. InitialFree[k] \in Seq(Indices)
    BY <2>1
  <2>5. IsInjective(InitialFree[k])
    BY <2>1 DEF IsInjective
  <2>6. DOMAIN InitialFree[k] = 1..NumUC-1
    BY <2>1
  <2>7. \A i \in 1..NumUC-1 : InitialFree[k][i] \in UserIndices(k)
    BY <2>1, <2>2
  <2>8. ASSUME NEW x \in UserIndices(k)
        PROVE  \E i \in 1..NumUC-1 : InitialFree[k][i] = x
    <3>1. PICK i \in 1..NumUC-1 : x = NumWC + i - 1
      BY <2>2, <2>3
    <3> QED BY <2>1, <3>1
  <2>9. ToSet(InitialFree[k]) = UserIndices(k)
    BY <2>6, <2>7, <2>8, SetIs
  <2> QED BY <2>4, <2>5, <2>9
<1>3. CASE k = "4G"
  <2>1. InitialFree[k] = [i \in 1..Num4G |-> NumWC + NumUC + i - 1]
    BY <1>3 DEF InitialFree, Kinds
  <2>2. UserIndices(k) = NumWC+NumUC..NumWC+NumUC+Num4G-1
    BY <1>3 DEF UserIndices, IndicesOf
  <2>3. \A x \in NumWC+NumUC..NumWC+NumUC+Num4G-1 :
          /\ x - (NumWC + NumUC) + 1 \in 1..Num4G
          /\ x = NumWC + NumUC + (x - (NumWC + NumUC) + 1) - 1
    OBVIOUS
  <2>4. InitialFree[k] \in Seq(Indices)
    BY <2>1
  <2>5. IsInjective(InitialFree[k])
    BY <2>1 DEF IsInjective
  <2>6. DOMAIN InitialFree[k] = 1..Num4G
    BY <2>1
  <2>7. \A i \in 1..Num4G : InitialFree[k][i] \in UserIndices(k)
    BY <2>1, <2>2
  <2>8. ASSUME NEW x \in UserIndices(k)
        PROVE  \E i \in 1..Num4G : InitialFree[k][i] = x
    <3>1. PICK i \in 1..Num4G : x = NumWC + NumUC + i - 1
      BY <2>2, <2>3
    <3> QED BY <2>1, <3>1
  <2>9. ToSet(InitialFree[k]) = UserIndices(k)
    BY <2>6, <2>7, <2>8, SetIs
  <2> QED BY <2>4, <2>5, <2>9
<1> QED BY <1>1, <1>2, <1>3 DEF Kinds


-----------------------------------------------------------------------------
(***************************************************************************)
(* Types.  A window object knows the kind whose list its index came from.  *)
(***************************************************************************)
WindowObjects ==
  {w \in [kind : Kinds, index : Indices, off : Nat, size : Nat \ {0}] :
     w.index \in UserIndices(w.kind) /\ w.off + w.size <= Words(w.kind)}

ProgramTypes ==
  /\ proc \in [Threads -> Procs]
  /\ \A t \in Threads :
       /\ Len(prog[t]) \in Nat /\ DOMAIN prog[t] = 1..Len(prog[t])
       /\ \A k \in DOMAIN prog[t] :
            prog[t][k].do = "map" =>
              /\ prog[t][k].kind \in Kinds
              /\ prog[t][k].to.off \in 0..Words(prog[t][k].kind)-1

DeviceTypes ==
  /\ thrown \subseteq Threads
  /\ pc \in [Threads -> Nat \ {0}]
  /\ dev \in [Procs -> {"none", "open", "failed", "closed"}]
  /\ bars \in [Procs -> SUBSET {"bar0", "bar2", "bar4"}]

CardTypes ==
  /\ DOMAIN regs = Indices
  /\ writer \in [Indices -> Procs \cup {None}]

\* The lists have no repetitions and hold indices of their own kind.
ListTypes ==
  /\ free \in [Procs -> [Kinds -> Seq(Indices)]]
  /\ lost \in [Procs -> SUBSET (Indices \ {KernelIndex})]
  /\ wins \in [Threads -> Seq(WindowObjects)]
  /\ \A p \in Procs, k \in Kinds : /\ IsInjective(free[p][k])
                                   /\ ToSet(free[p][k]) \subseteq UserIndices(k)

TypeInv == ProgramTypes /\ DeviceTypes /\ CardTypes /\ ListTypes

\* ListTypes after a step, from facts about the new values.
LEMMA ListTypesNext ==
  ASSUME free' \in [Procs -> [Kinds -> Seq(Indices)]],
         lost' \in [Procs -> SUBSET (Indices \ {KernelIndex})],
         wins' \in [Threads -> Seq(WindowObjects)],
         \A p \in Procs, k \in Kinds : /\ IsInjective(free'[p][k])
                                        /\ ToSet(free'[p][k]) \subseteq UserIndices(k)
  PROVE  ListTypes'
<1> USE DEF Indices, KernelIndex, START_4G, UC_START
<1>1. (free \in [Procs -> [Kinds -> Seq(Indices)]])'
  BY DEF Kinds
<1>2. (lost \in [Procs -> SUBSET (Indices \ {KernelIndex})])'
  OBVIOUS
<1>3. (wins \in [Threads -> Seq(WindowObjects)])'
  BY DEF WindowObjects, Kinds, UserIndices, IndicesOf, Words
<1>4. (\A p \in Procs, k \in Kinds : /\ IsInjective(free[p][k])
                                     /\ ToSet(free[p][k]) \subseteq UserIndices(k))'
  BY DEF Kinds, UserIndices, IndicesOf, IsInjective, ToSet
<1> QED BY <1>1, <1>2, <1>3, <1>4 DEF ListTypes

LEMMA EmptyList == IsInjective(<<>>) /\ ToSet(<<>>) = {}
BY DEF IsInjective, ToSet

LEMMA TypeInvInit == Init => TypeInv
<1> SUFFICES ASSUME Init PROVE TypeInv
  OBVIOUS
<1>1. ProgramTypes
  BY SetupsAssumption DEF Init, ProgramTypes
<1>2. DeviceTypes
  BY DEF Init, DeviceTypes
<1>3. CardTypes
  BY DEF Init, CardTypes
<1>4. ListTypes
  <2>1. /\ free \in [Procs -> [Kinds -> Seq(Indices)]]
        /\ lost \in [Procs -> SUBSET (Indices \ {KernelIndex})]
        /\ wins \in [Threads -> Seq(WindowObjects)]
    BY DEF Init
  <2>2. \A p \in Procs, k \in Kinds : free[p][k] = <<>>
    BY DEF Init
  <2> QED BY <2>1, <2>2, EmptyList DEF ListTypes
<1> QED BY <1>1, <1>2, <1>3, <1>4 DEF TypeInv

\* A step of a program is there, and says what it maps.
LEMMA StepIs ==
  ASSUME ProgramTypes, DeviceTypes, NEW t \in Threads, AtStep(t, {"map"})
  PROVE  /\ proc[t] \in Procs /\ Step(t).kind \in Kinds
         /\ Step(t).to.off \in 0..Words(Step(t).kind)-1
<1>1. pc[t] \in DOMAIN prog[t] /\ prog[t][pc[t]].do = "map"
  BY DEF AtStep, Finished, ProgramTypes, DeviceTypes
<1> QED BY <1>1 DEF ProgramTypes, Step


\* What taking the back of a list does to all lists.
LEMMA TakeEffect ==
  ASSUME ListTypes, NEW p \in Procs, NEW k \in Kinds, free[p][k] # <<>>,
         free' = [free EXCEPT ![p][k] = Front(free[p][k])]
  PROVE  /\ Last(free[p][k]) \in UserIndices(k)
         /\ Last(free[p][k]) \in Indices \ {KernelIndex}
         /\ Last(free[p][k]) \in ToSet(free[p][k])
         /\ free' \in [Procs -> [Kinds -> Seq(Indices)]]
         /\ \A q \in Procs, l \in Kinds :
              /\ IsInjective(free'[q][l])
              /\ ToSet(free'[q][l]) = IF q = p /\ l = k
                                        THEN ToSet(free[p][k]) \ {Last(free[p][k])}
                                        ELSE ToSet(free[q][l])
<1>1. /\ free \in [Procs -> [Kinds -> Seq(Indices)]]
      /\ \A q \in Procs, l \in Kinds : /\ IsInjective(free[q][l])
                                       /\ ToSet(free[q][l]) \subseteq UserIndices(l)
  BY DEF ListTypes
<1>2. free[p][k] \in Seq(Indices) /\ IsInjective(free[p][k])
  BY <1>1
<1>3. /\ Last(free[p][k]) \in ToSet(free[p][k]) /\ Front(free[p][k]) \in Seq(Indices)
      /\ ToSet(Front(free[p][k])) = ToSet(free[p][k]) \ {Last(free[p][k])}
      /\ IsInjective(Front(free[p][k]))
  BY <1>2, LastInSet, TakeLast
<1>4. /\ free' \in [Procs -> [Kinds -> Seq(Indices)]]
      /\ free'[p][k] = Front(free[p][k])
      /\ \A q \in Procs, l \in Kinds : ~ (q = p /\ l = k) => free'[q][l] = free[q][l]
  BY <1>1, <1>3
<1>5. /\ Last(free[p][k]) \in UserIndices(k)
      /\ Last(free[p][k]) \in Indices \ {KernelIndex}
  BY <1>1, <1>3, KindsApart
<1>6. ASSUME NEW q \in Procs, NEW l \in Kinds
      PROVE  /\ IsInjective(free'[q][l])
             /\ ToSet(free'[q][l]) = IF q = p /\ l = k
                                       THEN ToSet(free[p][k]) \ {Last(free[p][k])}
                                       ELSE ToSet(free[q][l])
  BY <1>1, <1>3, <1>4
<1> QED BY <1>3, <1>4, <1>5, <1>6

\* What giving an index back does to all lists.
LEMMA GiveEffect ==
  ASSUME ListTypes, NEW p \in Procs, NEW k \in Kinds, NEW i \in UserIndices(k),
         i \notin ToSet(free[p][k]),
         free' = [free EXCEPT ![p][k] = Append(free[p][k], i)]
  PROVE  /\ free' \in [Procs -> [Kinds -> Seq(Indices)]]
         /\ \A q \in Procs, l \in Kinds :
              /\ IsInjective(free'[q][l])
              /\ ToSet(free'[q][l]) = IF q = p /\ l = k
                                        THEN ToSet(free[p][k]) \cup {i}
                                        ELSE ToSet(free[q][l])
<1>1. /\ free \in [Procs -> [Kinds -> Seq(Indices)]]
      /\ \A q \in Procs, l \in Kinds : IsInjective(free[q][l])
  BY DEF ListTypes
<1>2. free[p][k] \in Seq(Indices) /\ IsInjective(free[p][k]) /\ i \in Indices
  BY <1>1, KindsApart
<1>3. /\ Append(free[p][k], i) \in Seq(Indices)
      /\ ToSet(Append(free[p][k], i)) = ToSet(free[p][k]) \cup {i}
      /\ IsInjective(Append(free[p][k], i))
  BY <1>2, GiveBack
<1>4. /\ free' \in [Procs -> [Kinds -> Seq(Indices)]]
      /\ free'[p][k] = Append(free[p][k], i)
      /\ \A q \in Procs, l \in Kinds : ~ (q = p /\ l = k) => free'[q][l] = free[q][l]
  BY <1>1, <1>3
<1>5. ASSUME NEW q \in Procs, NEW l \in Kinds
      PROVE  /\ IsInjective(free'[q][l])
             /\ ToSet(free'[q][l]) = IF q = p /\ l = k THEN ToSet(free[p][k]) \cup {i}
                                                       ELSE ToSet(free[q][l])
  BY <1>1, <1>3, <1>4
<1> QED BY <1>4, <1>5


-----------------------------------------------------------------------------
(***************************************************************************)
(* Where the indices of a process are.  IndicesConserved is not inductive  *)
(* by itself: a window object must be off its own kind's list for its      *)
(* release to keep the list free of repetitions, and a process whose       *)
(* constructor has not run must hold nothing.                              *)
(***************************************************************************)
HeldApart ==
  \A t \in Threads : \A j \in DOMAIN wins[t] :
    /\ wins[t][j].index \notin ToSet(free[proc[t]][wins[t][j].kind])
    /\ wins[t][j].index \notin lost[proc[t]]

ListedApart == \A p \in Procs, k \in Kinds : ToSet(free[p][k]) \cap lost[p] = {}

HeldOnce ==
  \A t, u \in Threads : proc[t] = proc[u] =>
    \A j \in DOMAIN wins[t], k \in DOMAIN wins[u] :
      wins[t][j].index = wins[u][k].index => t = u /\ j = k

AllPlaced ==
  \A p \in Procs : dev[p] \in {"open", "closed"} =>
    \A k \in Kinds : \A i \in UserIndices(k) :
      \/ i \in ToSet(free[p][k]) \/ i \in lost[p]
      \/ \E t \in Threads : /\ proc[t] = p
                            /\ \E j \in DOMAIN wins[t] : wins[t][j].index = i

NotYet ==
  \A p \in Procs : dev[p] \in {"none", "failed"} =>
    /\ lost[p] = {}
    /\ \A t \in Threads : proc[t] = p => wins[t] = <<>>

KernelsOwn == writer[KernelIndex] = None

Places == HeldApart /\ ListedApart /\ HeldOnce /\ AllPlaced /\ NotYet /\ KernelsOwn

HostInv == TypeInv /\ Places

\* Places after a step that leaves proc alone, from facts about the new values.
LEMMA PlacesNext ==
  ASSUME proc' = proc,
         \A t \in Threads : \A j \in DOMAIN wins'[t] :
           /\ wins'[t][j].index \notin ToSet(free'[proc[t]][wins'[t][j].kind])
           /\ wins'[t][j].index \notin lost'[proc[t]],
         \A p \in Procs, k \in Kinds : ToSet(free'[p][k]) \cap lost'[p] = {},
         \A t, u \in Threads : proc[t] = proc[u] =>
           \A j \in DOMAIN wins'[t], k \in DOMAIN wins'[u] :
             wins'[t][j].index = wins'[u][k].index => t = u /\ j = k,
         \A p \in Procs : dev'[p] \in {"open", "closed"} =>
           \A k \in Kinds : \A i \in UserIndices(k) :
             \/ i \in ToSet(free'[p][k]) \/ i \in lost'[p]
             \/ \E t \in Threads : /\ proc[t] = p
                                   /\ \E j \in DOMAIN wins'[t] : wins'[t][j].index = i,
         \A p \in Procs : dev'[p] \in {"none", "failed"} =>
           /\ lost'[p] = {}
           /\ \A t \in Threads : proc[t] = p => wins'[t] = <<>>,
         writer'[KernelIndex] = None
  PROVE  Places'
<1>1. HeldApart'
  <2> SUFFICES ASSUME NEW t \in Threads, NEW j \in DOMAIN wins'[t]
               PROVE  /\ (wins[t][j].index \notin ToSet(free[proc[t]][wins[t][j].kind]))'
                      /\ wins'[t][j].index \notin lost'[proc'[t]]
    BY DEF HeldApart
  <2>1. wins'[t][j].index \notin ToSet(free'[proc[t]][wins'[t][j].kind])
    OBVIOUS
  <2>2. (wins[t][j].index \notin ToSet(free[proc[t]][wins[t][j].kind]))'
    <3> DEFINE s == free'[proc[t]][wins'[t][j].kind]
    <3>1. \A i \in DOMAIN s : s[i] # wins'[t][j].index
      BY <2>1 DEF ToSet
    <3>2. s = free'[proc'[t]][wins'[t][j].kind]
      OBVIOUS
    <3> HIDE DEF s
    <3> QED BY <3>1, <3>2 DEF ToSet
  <2> QED BY <2>2
<1>2. ListedApart'
  BY DEF ListedApart, ToSet, Kinds
<1>3. HeldOnce'
  BY DEF HeldOnce
<1>4. AllPlaced'
  BY DEF AllPlaced, ToSet, Kinds, UserIndices, IndicesOf, KernelIndex, START_4G,
     UC_START
<1>5. NotYet'
  BY DEF NotYet
<1>6. KernelsOwn'
  BY DEF KernelsOwn, KernelIndex, START_4G
<1> QED BY <1>1, <1>2, <1>3, <1>4, <1>5, <1>6 DEF Places

LEMMA HostInvInit == Init => HostInv
<1> SUFFICES ASSUME Init PROVE HostInv
  OBVIOUS
<1>1. TypeInv
  BY TypeInvInit
<1>2. /\ \A t \in Threads : wins[t] = <<>>
      /\ \A p \in Procs : lost[p] = {} /\ dev[p] = "none"
      /\ KernelsOwn
  BY KindsApart DEF Init, KernelsOwn
<1>3. Places
  BY <1>2 DEF Places, HeldApart, ListedApart, HeldOnce, AllPlaced, NotYet
<1> QED BY <1>1, <1>3 DEF HostInv

\* The newest window object of a thread, and the ones below it.
LEMMA PushObject ==
  ASSUME ListTypes, NEW t \in Threads, NEW w \in WindowObjects,
         wins' = [wins EXCEPT ![t] = Append(wins[t], w)]
  PROVE  /\ wins' \in [Threads -> Seq(WindowObjects)]
         /\ \A u \in Threads \ {t} : wins'[u] = wins[u]
         /\ DOMAIN wins'[t] = DOMAIN wins[t] \cup {Len(wins[t]) + 1}
         /\ Len(wins[t]) + 1 \notin DOMAIN wins[t]
         /\ \A j \in DOMAIN wins[t] : wins'[t][j] = wins[t][j]
         /\ wins'[t][Len(wins[t]) + 1] = w
<1>1. wins \in [Threads -> Seq(WindowObjects)] /\ wins[t] \in Seq(WindowObjects)
  BY DEF ListTypes
<1>2. /\ Append(wins[t], w) \in Seq(WindowObjects)
      /\ DOMAIN wins[t] = 1..Len(wins[t]) /\ Len(wins[t]) \in Nat
      /\ DOMAIN Append(wins[t], w) = 1..Len(wins[t])+1
      /\ \A j \in 1..Len(wins[t]) : Append(wins[t], w)[j] = wins[t][j]
      /\ Append(wins[t], w)[Len(wins[t]) + 1] = w
  BY <1>1
<1>3. 1..Len(wins[t])+1 = 1..Len(wins[t]) \cup {Len(wins[t]) + 1}
  BY <1>2
<1>4. /\ wins' \in [Threads -> Seq(WindowObjects)]
      /\ \A u \in Threads \ {t} : wins'[u] = wins[u]
      /\ wins'[t] = Append(wins[t], w)
  BY <1>1, <1>2
<1> QED BY <1>2, <1>3, <1>4

LEMMA PopObject ==
  ASSUME ListTypes, NEW t \in Threads, wins[t] # <<>>,
         wins' = [wins EXCEPT ![t] = Front(wins[t])]
  PROVE  /\ wins' \in [Threads -> Seq(WindowObjects)]
         /\ \A u \in Threads \ {t} : wins'[u] = wins[u]
         /\ Last(wins[t]) = wins[t][Len(wins[t])]
         /\ Last(wins[t]) \in WindowObjects
         /\ Len(wins[t]) \in DOMAIN wins[t]
         /\ DOMAIN wins'[t] = DOMAIN wins[t] \ {Len(wins[t])}
         /\ \A j \in DOMAIN wins'[t] : wins'[t][j] = wins[t][j]
<1>1. wins \in [Threads -> Seq(WindowObjects)] /\ wins[t] \in Seq(WindowObjects)
  BY DEF ListTypes
<1>2. /\ Last(wins[t]) \in WindowObjects /\ Front(wins[t]) \in Seq(WindowObjects)
      /\ Len(wins[t]) \in Nat \ {0} /\ Len(Front(wins[t])) = Len(wins[t]) - 1
      /\ \A i \in 1..Len(wins[t])-1 : Front(wins[t])[i] = wins[t][i]
  BY <1>1, LastInSet
<1>3. /\ DOMAIN wins[t] = 1..Len(wins[t])
      /\ DOMAIN Front(wins[t]) = 1..Len(wins[t])-1
      /\ 1..Len(wins[t])-1 = 1..Len(wins[t]) \ {Len(wins[t])}
      /\ Len(wins[t]) \in 1..Len(wins[t])
  BY <1>1, <1>2
<1>4. /\ wins' \in [Threads -> Seq(WindowObjects)]
      /\ \A u \in Threads \ {t} : wins'[u] = wins[u]
      /\ wins'[t] = Front(wins[t])
  BY <1>1, <1>2
<1> QED BY <1>2, <1>3, <1>4 DEF Last


-----------------------------------------------------------------------------
(***************************************************************************)
(* The steps that move an index.  map_tlb_*: from the list to an object.   *)
(***************************************************************************)
LEMMA MapWindowInv ==
  ASSUME HostInv, NEW t \in Threads, MapWindow(t)
  PROVE  ListTypes' /\ Places'
<1> DEFINE p == proc[t]
           k == Step(t).kind
           i == Last(free[p][k])
           w == [kind |-> k, index |-> i, off |-> Step(t).to.off,
                 size |-> ApparentSize(k, Step(t).to.off)]
           n == Len(wins[t]) + 1
<1>0. /\ ProgramTypes /\ DeviceTypes /\ CardTypes /\ ListTypes
      /\ HeldApart /\ ListedApart /\ HeldOnce /\ AllPlaced /\ NotYet /\ KernelsOwn
  BY DEF HostInv, TypeInv, Places
<1>1. /\ p \in Procs /\ k \in Kinds /\ Step(t).to.off \in 0..Words(k)-1
      /\ dev[p] = "open"
  BY <1>0, StepIs DEF MapWindow, AtStep
<1>2. /\ free[p][k] # <<>>
      /\ free' = [free EXCEPT ![p][k] = Front(free[p][k])]
      /\ wins' = [wins EXCEPT ![t] = Append(wins[t], w)]
      /\ writer' = [writer EXCEPT ![i] = p]
      /\ lost' = lost /\ proc' = proc /\ dev' = dev
  BY DEF MapWindow, AimRegister, setup, device
<1> HIDE DEF p, k, i
<1>3. /\ i \in UserIndices(k) /\ i \in Indices \ {KernelIndex}
      /\ i \in ToSet(free[p][k])
      /\ free' \in [Procs -> [Kinds -> Seq(Indices)]]
      /\ \A q \in Procs, l \in Kinds :
           /\ IsInjective(free'[q][l])
           /\ ToSet(free'[q][l]) = IF q = p /\ l = k THEN ToSet(free[p][k]) \ {i}
                                                     ELSE ToSet(free[q][l])
  BY <1>0, <1>1, <1>2, TakeEffect DEF i
<1>4. w \in WindowObjects /\ w.index = i /\ w.kind = k
  BY <1>1, <1>3 DEF WindowObjects, ApparentSize, Words
<1> HIDE DEF w
<1>5. /\ wins' \in [Threads -> Seq(WindowObjects)]
      /\ \A u \in Threads \ {t} : wins'[u] = wins[u]
      /\ DOMAIN wins'[t] = DOMAIN wins[t] \cup {n}
      /\ n \notin DOMAIN wins[t]
      /\ \A j \in DOMAIN wins[t] : wins'[t][j] = wins[t][j]
      /\ wins'[t][n] = w
  BY <1>0, <1>2, <1>4, PushObject
<1> HIDE DEF n
<1>6. ListTypes'
  <2>1. \A q \in Procs, l \in Kinds : ToSet(free'[q][l]) \subseteq UserIndices(l)
    BY <1>0, <1>3 DEF ListTypes
  <2> QED BY <1>0, <1>2, <1>3, <1>5, <2>1, ListTypesNext DEF ListTypes
<1>7. \A u \in Threads : \A j \in DOMAIN wins'[u] :
        /\ wins'[u][j].index \notin ToSet(free'[proc[u]][wins'[u][j].kind])
        /\ wins'[u][j].index \notin lost'[proc[u]]
  <2> SUFFICES ASSUME NEW u \in Threads, NEW j \in DOMAIN wins'[u]
               PROVE  /\ wins'[u][j].index \notin ToSet(free'[proc[u]][wins'[u][j].kind])
                      /\ wins'[u][j].index \notin lost'[proc[u]]
    OBVIOUS
  <2>0. proc[u] \in Procs
    BY <1>0 DEF ProgramTypes
  <2>1. CASE u = t /\ j = n
    BY <1>0, <1>1, <1>2, <1>3, <1>4, <1>5, <2>1 DEF ListedApart, p
  <2>2. CASE ~ (u = t /\ j = n)
    <3>1. j \in DOMAIN wins[u] /\ wins'[u][j] = wins[u][j] /\ wins[u][j].kind \in Kinds
      <4>1. j \in DOMAIN wins[u] /\ wins'[u][j] = wins[u][j]
        BY <1>5, <2>2
      <4>2. wins[u][j] \in WindowObjects
        BY <1>0, <4>1 DEF ListTypes
      <4> QED BY <4>1, <4>2 DEF WindowObjects
    <3> QED BY <1>0, <1>2, <1>3, <2>0, <3>1 DEF HeldApart
  <2> QED BY <2>1, <2>2
<1>8. \A q \in Procs, l \in Kinds : ToSet(free'[q][l]) \cap lost'[q] = {}
  BY <1>0, <1>2, <1>3 DEF ListedApart
<1>9. \A u, v \in Threads : proc[u] = proc[v] =>
        \A j \in DOMAIN wins'[u], m \in DOMAIN wins'[v] :
          wins'[u][j].index = wins'[v][m].index => u = v /\ j = m
  <2> SUFFICES ASSUME NEW u \in Threads, NEW v \in Threads, proc[u] = proc[v],
                      NEW j \in DOMAIN wins'[u], NEW m \in DOMAIN wins'[v],
                      wins'[u][j].index = wins'[v][m].index
               PROVE  u = v /\ j = m
    OBVIOUS
  <2>1. ASSUME NEW x \in Threads, NEW y \in DOMAIN wins[x], proc[x] = p
        PROVE  wins[x][y].index # i
    <3>1. wins[x][y] \in WindowObjects
      BY <1>0 DEF ListTypes
    <3>2. wins[x][y].kind \in Kinds /\ wins[x][y].index \in UserIndices(wins[x][y].kind)
      BY <3>1 DEF WindowObjects
    <3>3. wins[x][y].index \notin ToSet(free[p][wins[x][y].kind])
      BY <1>0, <2>1 DEF HeldApart
    <3> QED BY <1>1, <1>3, <3>2, <3>3, KindsApart
  <2>2. CASE ~ (u = t /\ j = n) /\ ~ (v = t /\ m = n)
    <3>1. /\ j \in DOMAIN wins[u] /\ wins'[u][j] = wins[u][j]
          /\ m \in DOMAIN wins[v] /\ wins'[v][m] = wins[v][m]
      BY <1>5, <2>2
    <3> QED BY <1>0, <3>1 DEF HeldOnce
  <2>3. CASE u = t /\ j = n /\ ~ (v = t /\ m = n)
    <3>1. m \in DOMAIN wins[v] /\ wins'[v][m] = wins[v][m] /\ wins'[u][j].index = i
      BY <1>4, <1>5, <2>3
    <3> QED BY <2>1, <2>3, <3>1 DEF p
  <2>4. CASE v = t /\ m = n /\ ~ (u = t /\ j = n)
    <3>1. j \in DOMAIN wins[u] /\ wins'[u][j] = wins[u][j] /\ wins'[v][m].index = i
      BY <1>4, <1>5, <2>4
    <3> QED BY <2>1, <2>4, <3>1 DEF p
  <2> QED BY <2>2, <2>3, <2>4
<1>10. \A q \in Procs : dev'[q] \in {"open", "closed"} =>
         \A l \in Kinds : \A x \in UserIndices(l) :
           \/ x \in ToSet(free'[q][l]) \/ x \in lost'[q]
           \/ \E u \in Threads : /\ proc[u] = q
                                 /\ \E j \in DOMAIN wins'[u] : wins'[u][j].index = x
  <2> SUFFICES ASSUME NEW q \in Procs, dev'[q] \in {"open", "closed"},
                      NEW l \in Kinds, NEW x \in UserIndices(l)
               PROVE  \/ x \in ToSet(free'[q][l]) \/ x \in lost'[q]
                      \/ \E u \in Threads :
                           /\ proc[u] = q
                           /\ \E j \in DOMAIN wins'[u] : wins'[u][j].index = x
    OBVIOUS
  <2>1. CASE q = p /\ x = i
    BY <1>4, <1>5, <2>1 DEF p
  <2>2. CASE ~ (q = p /\ x = i)
    <3>1. CASE x \in ToSet(free[q][l]) \/ x \in lost[q]
      BY <1>2, <1>3, <2>2, <3>1
    <3>2. ASSUME NEW u \in Threads, proc[u] = q,
                 NEW j \in DOMAIN wins[u], wins[u][j].index = x
          PROVE  j \in DOMAIN wins'[u] /\ wins'[u][j].index = x
      BY <1>5, <3>2
    <3> QED BY <1>0, <1>2, <3>1, <3>2 DEF AllPlaced
  <2> QED BY <2>1, <2>2
<1>11. \A q \in Procs : dev'[q] \in {"none", "failed"} =>
         /\ lost'[q] = {}
         /\ \A u \in Threads : proc[u] = q => wins'[u] = <<>>
  BY <1>0, <1>1, <1>2, <1>5 DEF NotYet, p
<1>12. writer'[KernelIndex] = None
  BY <1>0, <1>2, <1>3, KindsApart DEF KernelsOwn, CardTypes
<1>13. Places'
  BY <1>2, <1>7, <1>8, <1>9, <1>10, <1>11, <1>12, PlacesNext
<1> QED BY <1>6, <1>13


\* make_unique throws: from the list to nowhere.
LEMMA MapBadAllocInv ==
  ASSUME HostInv, NEW t \in Threads, MapBadAlloc(t)
  PROVE  ListTypes' /\ Places'
<1> DEFINE p == proc[t]
           k == Step(t).kind
           i == Last(free[p][k])
<1>0. /\ ProgramTypes /\ DeviceTypes /\ CardTypes /\ ListTypes
      /\ HeldApart /\ ListedApart /\ HeldOnce /\ AllPlaced /\ NotYet /\ KernelsOwn
  BY DEF HostInv, TypeInv, Places
<1>1. p \in Procs /\ k \in Kinds /\ dev[p] = "open"
  BY <1>0, StepIs DEF MapBadAlloc, AtStep
<1>2. /\ free[p][k] # <<>>
      /\ free' = [free EXCEPT ![p][k] = Front(free[p][k])]
      /\ lost' = [lost EXCEPT ![p] = lost[p] \cup {i}]
      /\ writer' = [writer EXCEPT ![i] = p]
      /\ wins' = wins /\ proc' = proc /\ dev' = dev
  BY DEF MapBadAlloc, AimRegister, setup, device
<1> HIDE DEF p, k, i
<1>3. /\ i \in UserIndices(k) /\ i \in Indices \ {KernelIndex}
      /\ i \in ToSet(free[p][k])
      /\ free' \in [Procs -> [Kinds -> Seq(Indices)]]
      /\ \A q \in Procs, l \in Kinds :
           /\ IsInjective(free'[q][l])
           /\ ToSet(free'[q][l]) = IF q = p /\ l = k THEN ToSet(free[p][k]) \ {i}
                                                     ELSE ToSet(free[q][l])
  BY <1>0, <1>1, <1>2, TakeEffect DEF i
<1>4. /\ lost' \in [Procs -> SUBSET (Indices \ {KernelIndex})]
      /\ \A q \in Procs : lost'[q] = IF q = p THEN lost[p] \cup {i} ELSE lost[q]
  BY <1>0, <1>1, <1>2, <1>3 DEF ListTypes
<1>5. ASSUME NEW u \in Threads, NEW j \in DOMAIN wins[u]
      PROVE  /\ wins[u][j].kind \in Kinds /\ proc[u] \in Procs
             /\ wins[u][j].index \in UserIndices(wins[u][j].kind)
  <2>1. wins[u][j] \in WindowObjects
    BY <1>0 DEF ListTypes
  <2> QED BY <1>0, <2>1 DEF WindowObjects, ProgramTypes
<1>6. ListTypes'
  <2>1. \A q \in Procs, l \in Kinds : ToSet(free'[q][l]) \subseteq UserIndices(l)
    BY <1>0, <1>3 DEF ListTypes
  <2>2. wins' \in [Threads -> Seq(WindowObjects)]
    BY <1>0, <1>2 DEF ListTypes
  <2> QED BY <1>3, <1>4, <2>1, <2>2, ListTypesNext
<1>7. \A u \in Threads : \A j \in DOMAIN wins'[u] :
        /\ wins'[u][j].index \notin ToSet(free'[proc[u]][wins'[u][j].kind])
        /\ wins'[u][j].index \notin lost'[proc[u]]
  <2> SUFFICES ASSUME NEW u \in Threads, NEW j \in DOMAIN wins[u]
               PROVE  /\ wins[u][j].index \notin ToSet(free'[proc[u]][wins[u][j].kind])
                      /\ wins[u][j].index \notin lost'[proc[u]]
    BY <1>2
  <2>1. /\ wins[u][j].index \notin ToSet(free[proc[u]][wins[u][j].kind])
        /\ wins[u][j].index \notin lost[proc[u]]
    BY <1>0 DEF HeldApart
  <2>2. proc[u] = p => wins[u][j].index # i
    BY <1>1, <1>3, <1>5, <2>1, KindsApart
  <2> QED BY <1>3, <1>4, <1>5, <2>1, <2>2
<1>8. \A q \in Procs, l \in Kinds : ToSet(free'[q][l]) \cap lost'[q] = {}
  <2> SUFFICES ASSUME NEW q \in Procs, NEW l \in Kinds,
                      NEW x \in ToSet(free'[q][l]), x \in lost'[q]
               PROVE  FALSE
    OBVIOUS
  <2>1. x \in ToSet(free[q][l]) /\ x \in UserIndices(l) /\ x \notin lost[q]
    BY <1>0, <1>3 DEF ListedApart, ListTypes
  <2>2. q = p /\ x = i
    BY <1>4, <2>1
  <2>3. l = k
    BY <1>1, <1>3, <2>1, <2>2, KindsApart
  <2> QED BY <1>3, <2>2, <2>3
<1>9. \A u, v \in Threads : proc[u] = proc[v] =>
        \A j \in DOMAIN wins'[u], m \in DOMAIN wins'[v] :
          wins'[u][j].index = wins'[v][m].index => u = v /\ j = m
  BY <1>0, <1>2 DEF HeldOnce
<1>10. \A q \in Procs : dev'[q] \in {"open", "closed"} =>
         \A l \in Kinds : \A x \in UserIndices(l) :
           \/ x \in ToSet(free'[q][l]) \/ x \in lost'[q]
           \/ \E u \in Threads : /\ proc[u] = q
                                 /\ \E j \in DOMAIN wins'[u] : wins'[u][j].index = x
  BY <1>0, <1>2, <1>3, <1>4 DEF AllPlaced
<1>11. \A q \in Procs : dev'[q] \in {"none", "failed"} =>
         /\ lost'[q] = {}
         /\ \A u \in Threads : proc[u] = q => wins'[u] = <<>>
  BY <1>0, <1>1, <1>2, <1>4 DEF NotYet
<1>12. writer'[KernelIndex] = None
  BY <1>0, <1>2, <1>3, KindsApart DEF KernelsOwn, CardTypes
<1>13. Places'
  BY <1>2, <1>7, <1>8, <1>9, <1>10, <1>11, <1>12, PlacesNext
<1> QED BY <1>6, <1>13

\* A window's destructor: from the object back to the list it came from.
LEMMA ReleaseInv ==
  ASSUME HostInv, NEW t \in Threads, Release(t),
         UNCHANGED <<setup, device, lost, writer>>
  PROVE  ListTypes' /\ Places'
<1> DEFINE p == proc[t]
           w == Last(wins[t])
           k == w.kind
           i == w.index
           n == Len(wins[t])
<1>0. /\ ProgramTypes /\ DeviceTypes /\ CardTypes /\ ListTypes
      /\ HeldApart /\ ListedApart /\ HeldOnce /\ AllPlaced /\ NotYet /\ KernelsOwn
  BY DEF HostInv, TypeInv, Places
<1>1. /\ wins[t] # <<>>
      /\ free' = [free EXCEPT ![p][k] = Append(free[p][k], i)]
      /\ wins' = [wins EXCEPT ![t] = Front(wins[t])]
      /\ lost' = lost /\ proc' = proc /\ dev' = dev /\ writer' = writer
  BY DEF Release, setup, device
<1>2. /\ wins' \in [Threads -> Seq(WindowObjects)]
      /\ \A u \in Threads \ {t} : wins'[u] = wins[u]
      /\ w = wins[t][n] /\ w \in WindowObjects /\ n \in DOMAIN wins[t]
      /\ DOMAIN wins'[t] = DOMAIN wins[t] \ {n}
      /\ \A j \in DOMAIN wins'[t] : wins'[t][j] = wins[t][j]
  BY <1>0, <1>1, PopObject
<1> HIDE DEF n, w, p
<1>3. p \in Procs /\ k \in Kinds /\ i \in UserIndices(k)
  BY <1>0, <1>2 DEF WindowObjects, ProgramTypes, p
<1>4. i \notin ToSet(free[p][k]) /\ i \notin lost[p]
  BY <1>0, <1>2 DEF HeldApart, p
<1> HIDE DEF k, i
<1>5. /\ free' \in [Procs -> [Kinds -> Seq(Indices)]]
      /\ \A q \in Procs, l \in Kinds :
           /\ IsInjective(free'[q][l])
           /\ ToSet(free'[q][l]) = IF q = p /\ l = k THEN ToSet(free[p][k]) \cup {i}
                                                     ELSE ToSet(free[q][l])
  BY <1>0, <1>1, <1>3, <1>4, GiveEffect
<1>6. ListTypes'
  <2>1. \A q \in Procs, l \in Kinds : ToSet(free'[q][l]) \subseteq UserIndices(l)
    BY <1>0, <1>3, <1>5 DEF ListTypes
  <2>2. lost' \in [Procs -> SUBSET (Indices \ {KernelIndex})]
    BY <1>0, <1>1 DEF ListTypes
  <2> QED BY <1>2, <1>5, <2>1, <2>2, ListTypesNext
\* What is still held was held before, and is another index.
<1>7. ASSUME NEW u \in Threads, NEW j \in DOMAIN wins'[u]
      PROVE  /\ j \in DOMAIN wins[u] /\ wins'[u][j] = wins[u][j]
             /\ proc[u] \in Procs /\ wins[u][j].kind \in Kinds
             /\ proc[u] = p => wins[u][j].index # i
  <2>1. j \in DOMAIN wins[u] /\ wins'[u][j] = wins[u][j] /\ ~ (u = t /\ j = n)
    BY <1>2
  <2>2. wins[u][j] \in WindowObjects
    BY <1>0, <2>1 DEF ListTypes
  <2>3. proc[u] = p => wins[u][j].index # i
    BY <1>0, <1>2, <2>1 DEF HeldOnce, p, i
  <2> QED BY <1>0, <2>1, <2>2, <2>3 DEF WindowObjects, ProgramTypes
<1>8. \A u \in Threads : \A j \in DOMAIN wins'[u] :
        /\ wins'[u][j].index \notin ToSet(free'[proc[u]][wins'[u][j].kind])
        /\ wins'[u][j].index \notin lost'[proc[u]]
  BY <1>0, <1>1, <1>5, <1>7 DEF HeldApart
<1>9. \A q \in Procs, l \in Kinds : ToSet(free'[q][l]) \cap lost'[q] = {}
  BY <1>0, <1>1, <1>4, <1>5 DEF ListedApart
<1>10. \A u, v \in Threads : proc[u] = proc[v] =>
         \A j \in DOMAIN wins'[u], m \in DOMAIN wins'[v] :
           wins'[u][j].index = wins'[v][m].index => u = v /\ j = m
  BY <1>0, <1>7 DEF HeldOnce
<1>11. \A q \in Procs : dev'[q] \in {"open", "closed"} =>
         \A l \in Kinds : \A x \in UserIndices(l) :
           \/ x \in ToSet(free'[q][l]) \/ x \in lost'[q]
           \/ \E u \in Threads : /\ proc[u] = q
                                 /\ \E j \in DOMAIN wins'[u] : wins'[u][j].index = x
  <2> SUFFICES ASSUME NEW q \in Procs, dev'[q] \in {"open", "closed"},
                      NEW l \in Kinds, NEW x \in UserIndices(l)
               PROVE  \/ x \in ToSet(free'[q][l]) \/ x \in lost'[q]
                      \/ \E u \in Threads :
                           /\ proc[u] = q
                           /\ \E j \in DOMAIN wins'[u] : wins'[u][j].index = x
    OBVIOUS
  <2>1. CASE q = p /\ x = i
    <3>1. l = k
      BY <1>3, <2>1, KindsApart
    <3> QED BY <1>5, <2>1, <3>1
  <2>2. CASE ~ (q = p /\ x = i)
    <3>1. CASE x \in ToSet(free[q][l]) \/ x \in lost[q]
      BY <1>1, <1>5, <3>1
    <3>2. ASSUME NEW u \in Threads, proc[u] = q,
                 NEW j \in DOMAIN wins[u], wins[u][j].index = x
          PROVE  j \in DOMAIN wins'[u] /\ wins'[u][j].index = x
      BY <1>2, <2>2, <3>2 DEF p, i
    <3> QED BY <1>0, <1>1, <3>1, <3>2 DEF AllPlaced
  <2> QED BY <2>1, <2>2
<1>12. \A q \in Procs : dev'[q] \in {"none", "failed"} =>
         /\ lost'[q] = {}
         /\ \A u \in Threads : proc[u] = q => wins'[u] = <<>>
  BY <1>0, <1>1, <1>2 DEF NotYet
<1>13. Places'
  BY <1>0, <1>1, <1>8, <1>9, <1>10, <1>11, <1>12, PlacesNext DEF KernelsOwn
<1> QED BY <1>6, <1>13


\* The constructor fills the lists of a process that holds nothing yet.
LEMMA OpenDeviceInv ==
  ASSUME HostInv, NEW p \in Procs, OpenDevice(p)
  PROVE  ListTypes' /\ Places'
<1>0. /\ ProgramTypes /\ DeviceTypes /\ CardTypes /\ ListTypes
      /\ HeldApart /\ ListedApart /\ HeldOnce /\ AllPlaced /\ NotYet /\ KernelsOwn
  BY DEF HostInv, TypeInv, Places
<1>1. /\ dev[p] = "none" /\ dev' = [dev EXCEPT ![p] = "open"]
      /\ free' = [free EXCEPT ![p] = InitialFree]
      /\ wins' = wins /\ lost' = lost /\ proc' = proc /\ writer' = writer
  BY DEF OpenDevice, setup
<1>2. lost[p] = {} /\ \A u \in Threads : proc[u] = p => wins[u] = <<>>
  BY <1>0, <1>1 DEF NotYet
<1>3. InitialFree \in [Kinds -> Seq(Indices)]
  <2> DEFINE list(k) == CASE k = "WC" -> [i \in 1..NumWC |-> NumWC - i]
                         [] k = "UC" -> [i \in 1..NumUC-1 |-> UC_START + i - 1]
                         [] k = "4G" -> [i \in 1..Num4G |-> START_4G + i - 1]
  <2>1. InitialFree = [k \in Kinds |-> list(k)]
    BY DEF InitialFree
  <2> HIDE DEF list
  <2>2. \A k \in Kinds : InitialFree[k] = list(k)
    BY <2>1
  <2> QED BY <2>1, <2>2, InitialLists
<1>4. /\ free' \in [Procs -> [Kinds -> Seq(Indices)]]
      /\ free'[p] = InitialFree
      /\ \A q \in Procs \ {p} : free'[q] = free[q]
  BY <1>0, <1>1, <1>3 DEF ListTypes
<1>5. \A q \in Procs, l \in Kinds :
        /\ IsInjective(free'[q][l])
        /\ ToSet(free'[q][l]) = IF q = p THEN UserIndices(l) ELSE ToSet(free[q][l])
  BY <1>0, <1>4, InitialLists DEF ListTypes
<1>6. ListTypes'
  <2>1. \A q \in Procs, l \in Kinds : ToSet(free'[q][l]) \subseteq UserIndices(l)
    BY <1>0, <1>5 DEF ListTypes
  <2>2. /\ lost' \in [Procs -> SUBSET (Indices \ {KernelIndex})]
        /\ wins' \in [Threads -> Seq(WindowObjects)]
    BY <1>0, <1>1 DEF ListTypes
  <2> QED BY <1>4, <1>5, <2>1, <2>2, ListTypesNext
<1>7. \A u \in Threads : \A j \in DOMAIN wins'[u] :
        /\ wins'[u][j].index \notin ToSet(free'[proc[u]][wins'[u][j].kind])
        /\ wins'[u][j].index \notin lost'[proc[u]]
  <2> SUFFICES ASSUME NEW u \in Threads, NEW j \in DOMAIN wins[u]
               PROVE  /\ wins[u][j].index \notin ToSet(free'[proc[u]][wins[u][j].kind])
                      /\ wins[u][j].index \notin lost[proc[u]]
    BY <1>1
  <2>1. proc[u] # p /\ proc[u] \in Procs
    BY <1>0, <1>2 DEF ProgramTypes
  <2> QED BY <1>0, <1>4, <2>1 DEF HeldApart
<1>8. \A q \in Procs, l \in Kinds : ToSet(free'[q][l]) \cap lost'[q] = {}
  BY <1>0, <1>1, <1>2, <1>5 DEF ListedApart
<1>9. \A u, v \in Threads : proc[u] = proc[v] =>
        \A j \in DOMAIN wins'[u], m \in DOMAIN wins'[v] :
          wins'[u][j].index = wins'[v][m].index => u = v /\ j = m
  BY <1>0, <1>1 DEF HeldOnce
<1>10. \A q \in Procs : dev'[q] \in {"open", "closed"} =>
         \A l \in Kinds : \A x \in UserIndices(l) :
           \/ x \in ToSet(free'[q][l]) \/ x \in lost'[q]
           \/ \E u \in Threads : /\ proc[u] = q
                                 /\ \E j \in DOMAIN wins'[u] : wins'[u][j].index = x
  BY <1>0, <1>1, <1>5 DEF AllPlaced, DeviceTypes
<1>11. \A q \in Procs : dev'[q] \in {"none", "failed"} =>
         /\ lost'[q] = {}
         /\ \A u \in Threads : proc[u] = q => wins'[u] = <<>>
  BY <1>0, <1>1 DEF NotYet, DeviceTypes
<1>12. Places'
  BY <1>0, <1>1, <1>7, <1>8, <1>9, <1>10, <1>11, PlacesNext DEF KernelsOwn
<1> QED BY <1>6, <1>12

\* All other steps move no index; a destructor or a failed constructor only
\* changes the life cycle of a device.
LEMMA StillInv ==
  ASSUME HostInv, UNCHANGED <<setup, free, wins, lost, writer>>,
         \A q \in Procs : \/ dev'[q] = dev[q]
                          \/ dev[q] = "open" /\ dev'[q] = "closed"
                          \/ dev[q] = "none" /\ dev'[q] = "failed"
  PROVE  ListTypes' /\ Places'
<1>0. /\ ListTypes
      /\ HeldApart /\ ListedApart /\ HeldOnce /\ AllPlaced /\ NotYet /\ KernelsOwn
  BY DEF HostInv, TypeInv, Places
<1>1. free' = free /\ wins' = wins /\ lost' = lost /\ proc' = proc /\ writer' = writer
  BY DEF setup
<1>2. ListTypes'
  BY <1>0, <1>1, ListTypesNext DEF ListTypes
<1>3. \A q \in Procs : dev'[q] \in {"open", "closed"} =>
         \A l \in Kinds : \A x \in UserIndices(l) :
           \/ x \in ToSet(free'[q][l]) \/ x \in lost'[q]
           \/ \E u \in Threads : /\ proc[u] = q
                                 /\ \E j \in DOMAIN wins'[u] : wins'[u][j].index = x
  BY <1>0, <1>1 DEF AllPlaced
<1>4. \A q \in Procs : dev'[q] \in {"none", "failed"} =>
         /\ lost'[q] = {}
         /\ \A u \in Threads : proc[u] = q => wins'[u] = <<>>
  BY <1>0, <1>1 DEF NotYet
<1>5. /\ \A u \in Threads : \A j \in DOMAIN wins'[u] :
           /\ wins'[u][j].index \notin ToSet(free'[proc[u]][wins'[u][j].kind])
           /\ wins'[u][j].index \notin lost'[proc[u]]
      /\ \A q \in Procs, l \in Kinds : ToSet(free'[q][l]) \cap lost'[q] = {}
      /\ \A u, v \in Threads : proc[u] = proc[v] =>
           \A j \in DOMAIN wins'[u], m \in DOMAIN wins'[v] :
             wins'[u][j].index = wins'[v][m].index => u = v /\ j = m
      /\ writer'[KernelIndex] = None
  BY <1>0, <1>1 DEF HeldApart, ListedApart, HeldOnce, KernelsOwn
<1>6. Places'
  BY <1>1, <1>3, <1>4, <1>5, PlacesNext
<1> QED BY <1>2, <1>6


-----------------------------------------------------------------------------
\* The rest of the types.
LEMMA OtherTypesStep ==
  ASSUME HostInv, [Next]_vars
  PROVE  ProgramTypes' /\ DeviceTypes' /\ CardTypes'
<1>0. ProgramTypes /\ DeviceTypes /\ CardTypes /\ ListTypes
  BY DEF HostInv, TypeInv
<1>1. proc' = proc /\ prog' = prog
  BY DEF Next, OpenDevice, CloseDevice, OpenFails, MapWindow, MapBadAlloc, MapThrows,
     FreeWindow, Unwind, Access, AccessThrows, PokeBar2, PinPages, vars, setup
<1>2. ProgramTypes'
  BY <1>0, <1>1 DEF ProgramTypes, Kinds, Words
<1>3. DeviceTypes'
  <2> USE <1>0 DEF DeviceTypes
  <2>1. CASE \E p \in Procs : OpenDevice(p) \/ CloseDevice(p)
    BY <2>1 DEF OpenDevice, CloseDevice
  <2>2. ASSUME NEW p \in Procs, NEW m \in {{}, {"bar0"}, {"bar0", "bar2"}},
               OpenFails(p, m)
        PROVE  DeviceTypes'
    BY <2>2 DEF OpenFails, ThreadsOf
  <2>3. CASE \E t \in Threads : MapWindow(t) \/ FreeWindow(t) \/ Access(t) \/ PokeBar2(t)
    BY <2>3 DEF MapWindow, FreeWindow, Access, PokeBar2, Advance, device
  <2>4. CASE \E t \in Threads : \/ MapBadAlloc(t) \/ MapThrows(t)
                                \/ AccessThrows(t) \/ PinPages(t)
    BY <2>4 DEF MapBadAlloc, MapThrows, AccessThrows, PinPages, Advance, Throw, device
  <2>5. CASE (\E t \in Threads : Unwind(t)) \/ UNCHANGED vars
    BY <2>5 DEF Unwind, vars, device
  <2> QED BY <2>1, <2>2, <2>3, <2>4, <2>5 DEF Next
<1>4. CardTypes'
  <2>1. ASSUME NEW t \in Threads, MapWindow(t) \/ MapBadAlloc(t)
        PROVE  CardTypes'
    <3>1. AtStep(t, {"map"}) /\ free[proc[t]][Step(t).kind] # <<>>
      BY <2>1 DEF MapWindow, MapBadAlloc
    <3>2. proc[t] \in Procs /\ Step(t).kind \in Kinds
      BY <1>0, <3>1, StepIs
    <3>3. Last(free[proc[t]][Step(t).kind]) \in Indices
      <4>1. free[proc[t]][Step(t).kind] \in Seq(Indices)
        BY <1>0, <3>2 DEF ListTypes
      <4> QED BY <3>1, <4>1, LastInSet
    <3>4. \E i \in Indices : /\ regs' = [regs EXCEPT ![i] = Aim(Step(t))]
                             /\ writer' = [writer EXCEPT ![i] = proc[t]]
      BY <2>1, <3>3 DEF MapWindow, MapBadAlloc, AimRegister
    <3>5. DOMAIN regs' = Indices /\ writer' \in [Indices -> Procs \cup {None}]
      BY <1>0, <3>2, <3>4 DEF CardTypes
    <3> QED BY <3>5 DEF CardTypes, Indices, START_4G
  <2>2. ASSUME UNCHANGED <<regs, writer>> PROVE CardTypes'
    BY <1>0, <2>2 DEF CardTypes, Indices, START_4G
  <2>3. CASE \E p \in Procs : \/ OpenDevice(p) \/ CloseDevice(p)
                              \/ \E m \in {{}, {"bar0"}, {"bar0", "bar2"}} : OpenFails(p, m)
    BY <2>2, <2>3 DEF OpenDevice, CloseDevice, OpenFails
  <2>4. CASE \E t \in Threads : \/ MapThrows(t) \/ FreeWindow(t) \/ Unwind(t) \/ Access(t)
                                \/ AccessThrows(t) \/ PokeBar2(t) \/ PinPages(t)
    BY <2>2, <2>4 DEF MapThrows, FreeWindow, Unwind, Access, AccessThrows, PokeBar2,
       PinPages
  <2>5. CASE UNCHANGED vars
    BY <2>2, <2>5 DEF vars
  <2> QED BY <2>1, <2>3, <2>4, <2>5 DEF Next
<1> QED BY <1>2, <1>3, <1>4

LEMMA HostInvStep == HostInv /\ [Next]_vars => HostInv'
<1> SUFFICES ASSUME HostInv, [Next]_vars PROVE HostInv'
  OBVIOUS
<1> SUFFICES ListTypes' /\ Places'
  BY OtherTypesStep DEF HostInv, TypeInv
<1>1. ASSUME NEW p \in Procs, OpenDevice(p) PROVE ListTypes' /\ Places'
  BY <1>1, OpenDeviceInv
<1>2. ASSUME NEW t \in Threads, MapWindow(t) PROVE ListTypes' /\ Places'
  BY <1>2, MapWindowInv
<1>3. ASSUME NEW t \in Threads, MapBadAlloc(t) PROVE ListTypes' /\ Places'
  BY <1>3, MapBadAllocInv
<1>4. ASSUME NEW t \in Threads, FreeWindow(t) \/ Unwind(t) PROVE ListTypes' /\ Places'
  <2>1. Release(t) /\ UNCHANGED <<setup, device, lost, writer>>
    BY <1>4 DEF FreeWindow, Unwind
  <2> QED BY <2>1, ReleaseInv
<1>5. ASSUME NEW p \in Procs, NEW m \in {{}, {"bar0"}, {"bar0", "bar2"}},
             CloseDevice(p) \/ OpenFails(p, m)
      PROVE  ListTypes' /\ Places'
  <2>1. UNCHANGED <<setup, free, wins, lost, writer>>
    BY <1>5 DEF CloseDevice, OpenFails
  <2>2. \A q \in Procs : \/ dev'[q] = dev[q]
                         \/ dev[q] = "open" /\ dev'[q] = "closed"
                         \/ dev[q] = "none" /\ dev'[q] = "failed"
    BY <1>5 DEF CloseDevice, OpenFails, HostInv, TypeInv, DeviceTypes
  <2> QED BY <2>1, <2>2, StillInv
<1>6. ASSUME \/ \E t \in Threads : \/ MapThrows(t) \/ Access(t) \/ AccessThrows(t)
                                   \/ PokeBar2(t) \/ PinPages(t)
             \/ UNCHANGED vars
      PROVE  ListTypes' /\ Places'
  <2>1. UNCHANGED <<setup, free, wins, lost, writer>> /\ dev' = dev
    BY <1>6 DEF MapThrows, Access, AccessThrows, PokeBar2, PinPages, vars, device
  <2> QED BY <2>1, StillInv
<1> QED BY <1>1, <1>2, <1>3, <1>4, <1>5, <1>6 DEF Next

\* However programs map, access and release windows and exceptions unwind them,
\* the device's state is well typed: a window object never claims more than
\* what is left of its window behind its offset.
THEOREM HostTypes == Spec => []TypeOK
<1>1. HostInv => TypeOK
  <2> SUFFICES ASSUME HostInv PROVE TypeOK
    OBVIOUS
  <2>0. ProgramTypes /\ DeviceTypes /\ CardTypes /\ ListTypes
    BY DEF HostInv, TypeInv
  <2>1. \A p \in Procs, k \in Kinds : free[p][k] \in Seq(Indices)
    BY <2>0 DEF ListTypes
  <2>2. lost \in [Procs -> SUBSET Indices]
    BY <2>0 DEF ListTypes
  <2>3. ASSUME NEW t \in Threads, NEW k \in DOMAIN wins[t]
        PROVE  /\ wins[t][k].index \in Indices /\ wins[t][k].size >= 1
               /\ wins[t][k].off + wins[t][k].size <= Words(wins[t][k].kind)
    <3>1. wins[t][k] \in WindowObjects
      BY <2>0 DEF ListTypes
    <3> QED BY <3>1 DEF WindowObjects
  <2> QED BY <2>0, <2>1, <2>2, <2>3
    DEF TypeOK, ProgramTypes, DeviceTypes, CardTypes
<1> QED BY <1>1, HostInvInit, HostInvStep, PTL DEF Spec

\* For any number of threads, processes and windows and all programs: within a
\* process every index is in exactly one place (its own kind's free list, one
\* window object, lost to a bad_alloc), whatever the interleaving of map_tlb_*,
\* destructors and exceptions; the kernel's index is nowhere and its register
\* is never written.
THEOREM IndexPlaces == Spec => []IndicesConserved
<1>1. HostInv => IndicesConserved
  <2> SUFFICES ASSUME HostInv, NEW p \in Procs, dev[p] \in {"open", "closed"}
               PROVE  /\ \A k \in Kinds : /\ ToSet(free[p][k]) \subseteq IndicesOf(k)
                                          /\ IsInjective(free[p][k])
                      /\ \A t, u \in ThreadsOf(p) :
                           \A j \in DOMAIN wins[t], k \in DOMAIN wins[u] :
                             wins[t][j].index = wins[u][k].index => t = u /\ j = k
                      /\ LET listed == UNION {ToSet(free[p][k]) : k \in Kinds}
                         IN  /\ listed \cap Held(p) = {}
                             /\ (listed \cup Held(p)) \cap lost[p] = {}
                             /\ listed \cup Held(p) \cup lost[p]
                                  = Indices \ {KernelIndex}
                      /\ writer[KernelIndex] = None
    BY DEF IndicesConserved
  <2> DEFINE listed == UNION {ToSet(free[p][k]) : k \in Kinds}
  <2>0. /\ ProgramTypes /\ ListTypes
        /\ HeldApart /\ ListedApart /\ HeldOnce /\ AllPlaced /\ KernelsOwn
    BY DEF HostInv, TypeInv, Places
  <2>1. \A k \in Kinds : /\ ToSet(free[p][k]) \subseteq UserIndices(k)
                         /\ ToSet(free[p][k]) \subseteq IndicesOf(k)
                         /\ IsInjective(free[p][k])
    BY <2>0 DEF ListTypes, UserIndices
  <2>2. \A t, u \in ThreadsOf(p) :
          \A j \in DOMAIN wins[t], k \in DOMAIN wins[u] :
            wins[t][j].index = wins[u][k].index => t = u /\ j = k
    BY <2>0 DEF HeldOnce, ThreadsOf
  <2>3. ASSUME NEW x \in listed
        PROVE  \E k \in Kinds : x \in ToSet(free[p][k]) /\ x \in UserIndices(k)
    BY <2>1
  <2>4. ASSUME NEW x \in Held(p)
        PROVE  \E t \in Threads : /\ proc[t] = p
                                  /\ \E j \in DOMAIN wins[t] : x = wins[t][j].index
    BY DEF Held, ThreadsOf
  <2>5. ASSUME NEW t \in Threads, proc[t] = p, NEW j \in DOMAIN wins[t]
        PROVE  /\ wins[t][j].index \in Held(p)
               /\ wins[t][j].kind \in Kinds
               /\ wins[t][j].index \in UserIndices(wins[t][j].kind)
               /\ wins[t][j].index \notin ToSet(free[p][wins[t][j].kind])
               /\ wins[t][j].index \notin lost[p]
    <3>1. wins[t][j] \in WindowObjects
      BY <2>0 DEF ListTypes
    <3>2. wins[t][j].index \in Held(p)
      BY <2>5 DEF Held, ThreadsOf
    <3> QED BY <2>0, <2>5, <3>1, <3>2 DEF WindowObjects, HeldApart
  <2> HIDE DEF listed
  <2>6. listed \cap Held(p) = {}
    BY <2>3, <2>4, <2>5, KindsApart
  <2>7. (listed \cup Held(p)) \cap lost[p] = {}
    <3>1. ASSUME NEW x \in listed PROVE x \notin lost[p]
      BY <2>0, <2>3 DEF ListedApart
    <3>2. ASSUME NEW x \in Held(p) PROVE x \notin lost[p]
      BY <2>4, <2>5
    <3> QED BY <3>1, <3>2
  <2>8. ASSUME NEW x \in listed \cup Held(p) \cup lost[p]
        PROVE  x \in Indices \ {KernelIndex}
    <3>1. lost[p] \subseteq Indices \ {KernelIndex}
      BY <2>0 DEF ListTypes
    <3>2. CASE x \in listed
      BY <2>3, <3>2, KindsApart
    <3>3. CASE x \in Held(p)
      BY <2>4, <2>5, <3>3, KindsApart
    <3> QED BY <3>1, <3>2, <3>3
  <2>9. ASSUME NEW x \in Indices \ {KernelIndex}
        PROVE  x \in listed \cup Held(p) \cup lost[p]
    <3>1. PICK k \in Kinds : x \in UserIndices(k)
      BY KindsApart
    <3>2. ToSet(free[p][k]) \subseteq listed
      BY DEF listed
    <3> QED BY <2>0, <2>5, <3>1, <3>2 DEF AllPlaced
  <2>10. listed \cup Held(p) \cup lost[p] = Indices \ {KernelIndex}
    BY <2>8, <2>9
  <2> QED BY <2>0, <2>1, <2>2, <2>6, <2>7, <2>10 DEF KernelsOwn, listed
<1> QED BY <1>1, HostInvInit, HostInvStep, PTL DEF Spec
=============================================================================
