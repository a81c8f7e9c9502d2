-------------------------- MODULE BrowserPoolProofs --------------------------
(***************************************************************************)
(* Theorems about BrowserPool for any number of tasks: when a browser that *)
(* is asked for does start, and no job is cancelled, no task closes the    *)
(* browser under another, whatever pages or closes fail.                   *)
(***************************************************************************)
EXTENDS BrowserPool, FiniteSetTheorems, TLAPS

NoStartFaults == Faults \intersect {"start", "cancel"} = {}

(* The inductive invariant.  The lock is held while the count and the      *)
(* browser disagree: a task that starts it found no reference, one that    *)
(* closes it left no holder.                                               *)
PcInv ==
  /\ \A u \in Users : pc[u] # "bareRelease"
  /\ pc[viewer] \in {"idle", "acquire", "starting", "opening"}
  /\ pc[closer] \in {"idle", "closingPage", "release", "closing"}
  /\ pc[viewer] \in {"acquire", "starting"} => ~viewerRef

LockInv ==
  \A u \in Users :
    /\ pc[u] \in {"starting", "closing"} <=> lock = u
    /\ pc[u] = "starting" => refs = 0
    /\ pc[u] = "closing" => refs = 1 /\ Holders = {}

LostInv == lost \subseteq {viewer} /\ (viewer \in lost => pc[viewer] = "opening" /\ ~viewerRef)

PoolInv == TypeOK /\ PcInv /\ LockInv /\ LostInv /\ RefsCoverHolders

-----------------------------------------------------------------------------
(* The holders                                                             *)

HolderPcs == {"opening", "using", "closingPage", "release"}

(* Membership in Holders, before and after a step.                         *)
LEMMA HolderIff ==
  /\ \A x : x \in Holders <=> \/ x \in Jobs /\ pc[x] \in HolderPcs
                              \/ x = viewer /\ viewerRef
                              \/ x = closer /\ pc[closer] = "release"
  /\ \A x : x \in Holders' <=> \/ x \in Jobs /\ pc'[x] \in HolderPcs
                               \/ x = viewer /\ viewerRef'
                               \/ x = closer /\ pc'[closer] = "release"
  BY DEF Holders, HolderPcs

(* There are finitely many holders.                                        *)
LEMMA HoldersFinite ==
  /\ IsFiniteSet(Users)
  /\ Holders \subseteq Users /\ IsFiniteSet(Holders) /\ Cardinality(Holders) \in Nat
<1>1. IsFiniteSet(Jobs)
  BY UsersAssumption, FS_Union DEF Jobs
<1>2. IsFiniteSet(Jobs \union {viewer}) /\ IsFiniteSet((Jobs \union {viewer}) \union {closer})
  BY <1>1, FS_AddElement
<1>3. Users = (Jobs \union {viewer}) \union {closer}
  BY DEF Users
<1>4. IsFiniteSet(Users)
  BY <1>2, <1>3
<1>5. Holders \subseteq Users
  BY HolderIff DEF Users
<1> QED
  BY <1>4, <1>5, FS_Subset, FS_CardinalityType

(* Whoever acquires the browser joins the holders.                         *)
LEMMA AcquiredHolders ==
  ASSUME pc \in [Users -> Pcs], NEW u \in Users \ {closer}, Acquired(u)
  PROVE  Holders' = Holders \union {u}
<1> USE UsersAssumption
<1>1. /\ pc'[u] = "opening"
      /\ \A x \in Users : x # u => pc'[x] = pc[x]
      /\ Jobs \subseteq Users /\ viewer \in Users /\ closer \in Users
  BY DEF Acquired, Goto, Users
<1>2. CASE u = viewer
  <2>1. viewerRef' = TRUE
    BY <1>2 DEF Acquired
  <2> QED
    BY <1>1, <1>2, <2>1, HolderIff
<1>3. CASE u \in Jobs
  <2>1. pc'[u] \in HolderPcs /\ u # closer /\ u # viewer
    BY <1>1, <1>3 DEF HolderPcs
  <2>2. viewerRef' <=> viewerRef
    BY <2>1 DEF Acquired
  <2> QED
    BY <1>1, <1>3, <2>1, <2>2, HolderIff
<1> QED
  BY <1>2, <1>3 DEF Users

(* What a step does to the holders, the count and the browser.             *)
Keep     == Holders' = Holders /\ refs' = refs /\ (chrome' = chrome \/ chrome' = TRUE)
TakeBy(u) == /\ u \notin Holders /\ Holders' = Holders \union {u}
             /\ refs' = refs + 1 /\ (chrome' = chrome \/ chrome' = TRUE)
DropBy(u) == /\ u \in Holders /\ Holders' = Holders \ {u}
             /\ refs' = refs \/ refs' = refs - 1
             /\ chrome' = chrome
Pass     == /\ viewer \in Holders /\ closer \notin Holders
            /\ Holders' = (Holders \ {viewer}) \union {closer}
            /\ refs' = refs /\ chrome' = chrome
StopAll  == Holders = {} /\ Holders' = {} /\ (refs' = refs \/ refs' = 0) /\ chrome' = FALSE

StepEffect == Keep \/ (\E u \in Users : TakeBy(u) \/ DropBy(u)) \/ Pass \/ StopAll

(* What a step of one task does to the holders and the count.              *)
LEMMA UserEffect ==
  ASSUME PoolInv, NoStartFaults, NEW u \in Users, UserStep(u)
  PROVE  StepEffect
<1> USE UsersAssumption
<1>0. /\ TypeOK /\ PcInv /\ LockInv
      /\ pc \in [Users -> Pcs] /\ refs \in Nat /\ chrome \in BOOLEAN
      /\ Jobs \subseteq Users /\ viewer \in Users /\ closer \in Users
  BY DEF PoolInv, TypeOK, Users
<1>1. CASE Begin(u)
  BY <1>0, <1>1, HolderIff DEF Begin, Goto, StepEffect, Keep, HolderPcs
<1>2. CASE Acquire(u)
  <2>1. CASE refs > 0
    <3>1. u # closer /\ (u = viewer => ~viewerRef)
      BY <1>0, <1>2 DEF Acquire, PcInv
    <3>2. u \notin Holders
      BY <1>0, <1>2, <3>1, HolderIff DEF Acquire, HolderPcs
    <3>3. Holders' = Holders \union {u}
      BY <1>0, <1>2, <2>1, <3>1, AcquiredHolders DEF Acquire
    <3> QED
      BY <1>2, <2>1, <3>2, <3>3 DEF Acquire, StepEffect, TakeBy
  <2>2. CASE refs = 0
    BY <1>0, <1>2, <2>2, HolderIff DEF Acquire, Goto, StepEffect, Keep, HolderPcs
  <2> QED
    BY <1>0, <2>1, <2>2
<1>3. CASE StartDone(u)
  <2>1. u # closer /\ (u = viewer => ~viewerRef) /\ refs = 0
    BY <1>0, <1>3 DEF StartDone, PcInv, LockInv
  <2>2. u \notin Holders
    BY <1>0, <1>3, <2>1, HolderIff DEF StartDone, HolderPcs
  <2>3. Holders' = Holders \union {u}
    BY <1>0, <1>3, <2>1, AcquiredHolders DEF StartDone
  <2> QED
    BY <1>3, <2>1, <2>2, <2>3 DEF StartDone, StepEffect, TakeBy
<1>4. CASE StartFail(u) \/ Cancel(u)
  BY <1>4 DEF StartFail, Cancel, NoStartFaults
<1>5. CASE OpenPage(u)
  BY <1>0, <1>5, HolderIff DEF OpenPage, Goto, StepEffect, Keep, HolderPcs
<1>6. CASE OpenFail(u)
  <2>1. CASE u \in Messengers
    <3>1. u \in Jobs /\ u \in Holders
      BY <1>0, <1>6, <2>1, HolderIff DEF OpenFail, HolderPcs, Jobs
    <3>2. Holders' = Holders \ {u}
      BY <1>0, <1>6, <2>1, <3>1, HolderIff DEF OpenFail, Goto, HolderPcs
    <3> QED
      BY <1>6, <3>1, <3>2 DEF OpenFail, StepEffect, DropBy
  <2>2. CASE u \in Fetchers
    BY <1>0, <1>6, <2>2, HolderIff DEF OpenFail, Goto, StepEffect, Keep, HolderPcs, Jobs
  <2>3. CASE u \in {viewer, closer}
    BY <1>0, <1>6, <2>3, HolderIff DEF OpenFail, Goto, StepEffect, Keep, HolderPcs, Jobs, PcInv
  <2> QED
    BY <2>1, <2>2, <2>3 DEF Users, Jobs
<1>7. CASE Finish(u)
  BY <1>0, <1>7, HolderIff DEF Finish, Goto, StepEffect, Keep, HolderPcs, PcInv
<1>8. CASE PageClosed(u)
  <2>1. CASE u = closer /\ viewerRef
    <3>1. viewer \in Holders /\ closer \notin Holders
      BY <1>0, <1>8, <2>1, HolderIff DEF PageClosed
    <3>2. Holders' = (Holders \ {viewer}) \union {closer}
      BY <1>0, <1>8, <2>1, <3>1, HolderIff DEF PageClosed, Goto, HolderPcs
    <3> QED
      BY <1>8, <3>1, <3>2 DEF PageClosed, StepEffect, Pass
  <2>2. CASE u = closer /\ ~viewerRef
    BY <1>0, <1>8, <2>2, HolderIff DEF PageClosed, Goto, StepEffect, Keep, HolderPcs
  <2>3. CASE u # closer
    BY <1>0, <1>8, <2>3, HolderIff DEF PageClosed, Goto, StepEffect, Keep, HolderPcs
  <2> QED
    BY <2>1, <2>2, <2>3
<1>9. CASE PageCloseFail(u)
  <2>1. u \in Jobs /\ u \in Holders
    BY <1>0, <1>9, HolderIff DEF PageCloseFail, HolderPcs, Jobs
  <2>2. Holders' = Holders \ {u}
    BY <1>0, <1>9, <2>1, HolderIff DEF PageCloseFail, Goto, HolderPcs
  <2> QED
    BY <1>9, <2>1, <2>2 DEF PageCloseFail, StepEffect, DropBy
<1>10. CASE Release(u)
  <2>1. u # viewer /\ pc[u] = "release" /\ u \in Holders
    BY <1>0, <1>10, HolderIff DEF Release, PcInv, HolderPcs, Users
  <2>2. Holders' = Holders \ {u}
    BY <1>0, <1>10, <2>1, HolderIff DEF Release, Goto, HolderPcs
  <2> QED
    BY <1>0, <1>10, <2>1, <2>2 DEF Release, StepEffect, DropBy
<1>11. CASE CloseDone(u) \/ CloseFail(u)
  <2>1. pc[u] = "closing" /\ Goto(u, "idle") /\ viewerRef' = viewerRef
    BY <1>11 DEF CloseDone, CloseFail
  <2>2. Holders = {} /\ refs = 1
    BY <1>0, <2>1 DEF LockInv
  <2>3. Holders' = Holders
    BY <1>0, <2>1, HolderIff DEF Goto, HolderPcs
  <2> QED
    BY <1>11, <2>2, <2>3 DEF CloseDone, CloseFail, ChromeGone, StepEffect, StopAll, Keep
<1> QED
  BY <1>1, <1>2, <1>3, <1>4, <1>5, <1>6, <1>7, <1>8, <1>9, <1>10, <1>11 DEF UserStep, Resume

(* What any step does to the holders and the count.                        *)
LEMMA NextEffect ==
  ASSUME PoolInv, NoStartFaults, [Next]_vars
  PROVE  StepEffect
<1> USE UsersAssumption
<1>0. /\ PcInv /\ pc \in [Users -> Pcs] /\ Jobs \subseteq Users /\ viewer \in Users /\ closer \in Users
  BY DEF PoolInv, TypeOK, Users
<1>1. CASE ViewerOpen
  BY <1>0, <1>1, HolderIff DEF ViewerOpen, Goto, StepEffect, Keep, HolderPcs
<1>2. CASE ViewerClose
  <2>1. CASE viewerPage
    BY <1>0, <1>2, <2>1, HolderIff DEF ViewerClose, Goto, StepEffect, Keep, HolderPcs
  <2>2. CASE ~viewerPage
    <3>1. viewer \in Holders /\ closer \notin Holders
      BY <1>0, <1>2, <2>2, HolderIff DEF ViewerClose
    <3>2. Holders' = (Holders \ {viewer}) \union {closer}
      BY <1>0, <1>2, <2>2, <3>1, HolderIff DEF ViewerClose, Goto, HolderPcs
    <3> QED
      BY <1>2, <3>1, <3>2 DEF ViewerClose, StepEffect, Pass
  <2> QED
    BY <2>1, <2>2
<1>3. CASE UNCHANGED vars
  BY <1>3 DEF vars, Holders, StepEffect, Keep
<1> QED
  BY <1>1, <1>2, <1>3, UserEffect DEF Next

-----------------------------------------------------------------------------
(* The inductive invariant                                                 *)

(* The pool is empty at first.                                             *)
LEMMA InitPool == Init => PoolInv /\ lost = {} /\ Holders = {}
<1> SUFFICES ASSUME Init PROVE PoolInv /\ lost = {} /\ Holders = {}
  OBVIOUS
<1> USE UsersAssumption DEF Init
<1>1. viewer \in Users /\ closer \in Users /\ Jobs \subseteq Users
  BY DEF Users
<1>2. Holders = {}
  BY <1>1, HolderIff DEF HolderPcs
<1>3. TypeOK /\ PcInv /\ LockInv /\ LostInv
  BY <1>1 DEF TypeOK, PcInv, LockInv, LostInv, Pcs
<1>4. RefsCoverHolders
  BY <1>2, FS_EmptySet DEF RefsCoverHolders
<1> QED
  BY <1>2, <1>3, <1>4 DEF PoolInv

(* Counting: every step keeps at least one reference per holder.           *)
LEMMA RefsStep ==
  ASSUME PoolInv, StepEffect
  PROVE  RefsCoverHolders'
<1> DEFINE H == Holders
<1>1. IsFiniteSet(H) /\ Cardinality(H) \in Nat /\ refs \in Nat /\ refs >= Cardinality(H)
  BY HoldersFinite DEF PoolInv, TypeOK, RefsCoverHolders
<1>2. CASE Keep
  BY <1>1, <1>2 DEF Keep, RefsCoverHolders
<1>3. ASSUME NEW u \in Users, TakeBy(u) PROVE RefsCoverHolders'
  <2>1. Cardinality(H \union {u}) = Cardinality(H) + 1
    BY <1>1, <1>3, FS_AddElement DEF TakeBy
  <2> QED
    BY <1>1, <1>3, <2>1 DEF TakeBy, RefsCoverHolders
<1>4. ASSUME NEW u \in Users, DropBy(u) PROVE RefsCoverHolders'
  <2>1. Cardinality(H \ {u}) = Cardinality(H) - 1
    BY <1>1, <1>4, FS_RemoveElement DEF DropBy
  <2> QED
    BY <1>1, <1>4, <2>1 DEF DropBy, RefsCoverHolders
<1>5. CASE Pass
  <2> DEFINE G == H \ {viewer}
  <2>1. IsFiniteSet(G) /\ Cardinality(G) = Cardinality(H) - 1
    BY <1>1, <1>5, FS_RemoveElement DEF Pass
  <2>2. closer \notin G /\ Holders' = G \union {closer} /\ refs' = refs
    BY <1>5 DEF Pass
  <2>3. Cardinality(G \union {closer}) = Cardinality(H)
    <3> HIDE DEF G
    <3>1. Cardinality(G \union {closer}) = Cardinality(G) + 1
      BY <2>1, <2>2, FS_AddElement
    <3> HIDE DEF H
    <3> QED
      BY <1>1, <2>1, <3>1
  <2> QED
    BY <1>1, <2>2, <2>3 DEF RefsCoverHolders
<1>6. CASE StopAll
  BY <1>1, <1>6, FS_EmptySet DEF StopAll, RefsCoverHolders
<1> QED
  BY <1>2, <1>3, <1>4, <1>5, <1>6 DEF StepEffect

(* A step of a task keeps the types, the awaits and the lock in order.     *)
LEMMA UserStepInv ==
  ASSUME PoolInv, NoStartFaults, NEW u \in Users, UserStep(u), RefsCoverHolders'
  PROVE  PoolInv'
<1> USE UsersAssumption
<1>0. /\ TypeOK /\ PcInv /\ LockInv /\ LostInv
      /\ pc \in [Users -> Pcs] /\ refs \in Nat
      /\ Jobs \subseteq Users /\ viewer \in Users /\ closer \in Users
  BY DEF PoolInv, TypeOK, Users
<1>1. CASE Begin(u)
  <2>1. TypeOK'
    BY <1>0, <1>1 DEF Begin, Goto, TypeOK, Pcs
  <2>2. PcInv'
    BY <1>0, <1>1 DEF Begin, Goto, PcInv, Users, Jobs
  <2>3. LockInv'
    BY <1>0, <1>1, HolderIff DEF Begin, Goto, LockInv, HolderPcs, PcInv, Users
  <2>4. LostInv'
    BY <1>0, <1>1, HolderIff DEF Begin, Goto, LostInv, LockInv, HolderPcs, PcInv, Users
  <2> QED
    BY <2>1, <2>2, <2>3, <2>4 DEF PoolInv
<1>2. CASE Acquire(u)
  <2>1. u # closer /\ pc[u] = "acquire" /\ lock = nobody
    BY <1>0, <1>2 DEF Acquire, PcInv
  <2>2. ASSUME refs > 0 PROVE TypeOK' /\ PcInv' /\ LostInv'
    <3>1. /\ pc' = [pc EXCEPT ![u] = "opening"]
          /\ refs' = refs + 1 /\ lock' = lock
          /\ viewerRef' = (viewerRef \/ u = viewer)
          /\ UNCHANGED <<chrome, viewerPage, lost>>
      BY <1>0, <1>2, <2>2 DEF Acquire, Acquired, Goto
    <3>2. TypeOK'
      BY <1>0, <2>1, <3>1 DEF TypeOK, Pcs
    <3>3. PcInv'
      BY <1>0, <2>1, <3>1 DEF PcInv
    <3>4. LostInv'
      BY <1>0, <2>1, <3>1 DEF LostInv
    <3> QED
      BY <3>2, <3>3, <3>4
  <2>3. ASSUME refs = 0 PROVE TypeOK' /\ PcInv' /\ LostInv'
    <3>1. /\ pc' = [pc EXCEPT ![u] = "starting"]
          /\ lock' = u
          /\ UNCHANGED <<refs, viewerRef, chrome, viewerPage, lost>>
      BY <1>0, <1>2, <2>3 DEF Acquire, Goto
    <3>2. TypeOK'
      BY <1>0, <2>1, <3>1 DEF TypeOK, Pcs
    <3>3. PcInv'
      BY <1>0, <2>1, <3>1 DEF PcInv
    <3>4. LostInv'
      BY <1>0, <2>1, <3>1 DEF LostInv
    <3> QED
      BY <3>2, <3>3, <3>4
  <2>4. TypeOK' /\ PcInv' /\ LostInv'
    BY <1>0, <2>2, <2>3
  <2>5. LockInv'
    BY <1>0, <1>2, HolderIff DEF Acquire, Acquired, Goto, LockInv, HolderPcs, PcInv, Users
  <2> QED
    BY <2>4, <2>5 DEF PoolInv
<1>3. CASE StartDone(u)
  <2>1. TypeOK'
    BY <1>0, <1>3 DEF StartDone, Acquired, Goto, TypeOK, Pcs
  <2>2. PcInv'
    BY <1>0, <1>3 DEF StartDone, Acquired, Goto, PcInv, Users, Jobs
  <2>3. LockInv'
    BY <1>0, <1>3, HolderIff DEF StartDone, Acquired, Goto, LockInv, HolderPcs, PcInv, Users
  <2>4. LostInv'
    BY <1>0, <1>3, HolderIff DEF StartDone, Acquired, Goto, LostInv, LockInv, HolderPcs, PcInv, Users
  <2> QED
    BY <2>1, <2>2, <2>3, <2>4 DEF PoolInv
<1>4. CASE OpenPage(u)
  <2>1. TypeOK'
    BY <1>0, <1>4 DEF OpenPage, Goto, TypeOK, Pcs
  <2>2. PcInv'
    BY <1>0, <1>4 DEF OpenPage, Goto, PcInv, Users, Jobs
  <2>3. LockInv'
    BY <1>0, <1>4, HolderIff DEF OpenPage, Goto, LockInv, HolderPcs, PcInv, Users
  <2>4. LostInv'
    BY <1>0, <1>4, HolderIff DEF OpenPage, Goto, LostInv, LockInv, HolderPcs, PcInv, Users
  <2> QED
    BY <2>1, <2>2, <2>3, <2>4 DEF PoolInv
<1>5. CASE OpenFail(u)
  <2>1. TypeOK'
    BY <1>0, <1>5 DEF OpenFail, Goto, TypeOK, Pcs
  <2>2. PcInv'
    BY <1>0, <1>5 DEF OpenFail, Goto, PcInv, Users, Jobs
  <2>3. LockInv'
    BY <1>0, <1>5, HolderIff DEF OpenFail, Goto, LockInv, HolderPcs, PcInv, Users
  <2>4. LostInv'
    BY <1>0, <1>5, HolderIff DEF OpenFail, Goto, LostInv, LockInv, HolderPcs, PcInv, Users
  <2> QED
    BY <2>1, <2>2, <2>3, <2>4 DEF PoolInv
<1>6. CASE Finish(u)
  <2>1. TypeOK'
    BY <1>0, <1>6 DEF Finish, Goto, TypeOK, Pcs
  <2>2. PcInv'
    BY <1>0, <1>6 DEF Finish, Goto, PcInv, Users, Jobs
  <2>3. LockInv'
    BY <1>0, <1>6, HolderIff DEF Finish, Goto, LockInv, HolderPcs, PcInv, Users
  <2>4. LostInv'
    BY <1>0, <1>6, HolderIff DEF Finish, Goto, LostInv, LockInv, HolderPcs, PcInv, Users
  <2> QED
    BY <2>1, <2>2, <2>3, <2>4 DEF PoolInv
<1>7. CASE PageClosed(u)
  <2>1. TypeOK'
    BY <1>0, <1>7 DEF PageClosed, Goto, TypeOK, Pcs
  <2>2. PcInv'
    BY <1>0, <1>7 DEF PageClosed, Goto, PcInv, Users, Jobs
  <2>3. LockInv'
    BY <1>0, <1>7, HolderIff DEF PageClosed, Goto, LockInv, HolderPcs, PcInv, Users
  <2>4. LostInv'
    BY <1>0, <1>7, HolderIff DEF PageClosed, Goto, LostInv, LockInv, HolderPcs, PcInv, Users
  <2> QED
    BY <2>1, <2>2, <2>3, <2>4 DEF PoolInv
<1>8. CASE PageCloseFail(u)
  <2>1. TypeOK'
    BY <1>0, <1>8 DEF PageCloseFail, Goto, TypeOK, Pcs
  <2>2. PcInv'
    BY <1>0, <1>8 DEF PageCloseFail, Goto, PcInv, Users, Jobs
  <2>3. LockInv'
    BY <1>0, <1>8, HolderIff DEF PageCloseFail, Goto, LockInv, HolderPcs, PcInv, Users
  <2>4. LostInv'
    BY <1>0, <1>8, HolderIff DEF PageCloseFail, Goto, LostInv, LockInv, HolderPcs, PcInv, Users
  <2> QED
    BY <2>1, <2>2, <2>3, <2>4 DEF PoolInv
<1>9. CASE Release(u)
  <2>1. TypeOK'
    BY <1>0, <1>9 DEF Release, Goto, TypeOK, Pcs
  <2>2. PcInv'
    BY <1>0, <1>9 DEF Release, Goto, PcInv, Users, Jobs
  <2>3. LockInv'
    <3>1. pc[u] = "release" /\ u \in Holders /\ lock = nobody
      BY <1>0, <1>9, HolderIff DEF Release, PcInv, HolderPcs, Users
    <3>2. Holders' = Holders \ {u}
      BY <1>0, <1>9, <3>1, HolderIff DEF Release, Goto, HolderPcs, PcInv
    <3>3. /\ IsFiniteSet(Holders \ {u})
          /\ Cardinality(Holders \ {u}) = Cardinality(Holders) - 1
          /\ Cardinality(Holders) \in Nat /\ refs >= Cardinality(Holders)
      BY <3>1, HoldersFinite, FS_RemoveElement DEF PoolInv, RefsCoverHolders
    <3>4. refs = 1 => Holders' = {}
      BY <3>2, <3>3, FS_EmptySet, FS_CardinalityType
    <3> QED
      BY <1>0, <1>9, <3>1, <3>4 DEF Release, Goto, LockInv
  <2>4. LostInv'
    BY <1>0, <1>9, HolderIff DEF Release, Goto, LostInv, LockInv, HolderPcs, PcInv, Users
  <2> QED
    BY <2>1, <2>2, <2>3, <2>4 DEF PoolInv
<1>10. CASE CloseDone(u)
  <2>1. TypeOK'
    BY <1>0, <1>10, HoldersFinite DEF CloseDone, ChromeGone, Goto, TypeOK, Pcs
  <2>2. PcInv'
    BY <1>0, <1>10 DEF CloseDone, Goto, PcInv, Users, Jobs
  <2>3. LockInv'
    BY <1>0, <1>10, HolderIff DEF CloseDone, Goto, LockInv, HolderPcs, PcInv, Users
  <2>4. LostInv'
    BY <1>0, <1>10, HolderIff DEF CloseDone, ChromeGone, Goto, LostInv, LockInv, HolderPcs, PcInv, Users
  <2> QED
    BY <2>1, <2>2, <2>3, <2>4 DEF PoolInv
<1>11. CASE CloseFail(u)
  <2>1. TypeOK'
    BY <1>0, <1>11, HoldersFinite DEF CloseFail, ChromeGone, Goto, TypeOK, Pcs
  <2>2. PcInv'
    BY <1>0, <1>11 DEF CloseFail, Goto, PcInv, Users, Jobs
  <2>3. LockInv'
    BY <1>0, <1>11, HolderIff DEF CloseFail, Goto, LockInv, HolderPcs, PcInv, Users
  <2>4. LostInv'
    BY <1>0, <1>11, HolderIff DEF CloseFail, ChromeGone, Goto, LostInv, LockInv, HolderPcs, PcInv, Users
  <2> QED
    BY <2>1, <2>2, <2>3, <2>4 DEF PoolInv
<1>12. CASE StartFail(u) \/ Cancel(u)
  BY <1>12 DEF StartFail, Cancel, NoStartFaults
<1> QED
  BY <1>1, <1>2, <1>3, <1>4, <1>5, <1>6, <1>7, <1>8, <1>9, <1>10, <1>11, <1>12 DEF UserStep, Resume

(* So does a step of the viewer, and every step of the pool.               *)
LEMMA NextInv ==
  ASSUME PoolInv, NoStartFaults, [Next]_vars
  PROVE  PoolInv'
<1> USE UsersAssumption
<1>0. /\ TypeOK /\ PcInv /\ LockInv /\ LostInv
      /\ pc \in [Users -> Pcs] /\ refs \in Nat
      /\ Jobs \subseteq Users /\ viewer \in Users /\ closer \in Users
  BY DEF PoolInv, TypeOK, Users
<1>1. RefsCoverHolders'
  BY NextEffect, RefsStep
<1>2. CASE ViewerOpen
  <2>1. TypeOK'
    BY <1>0, <1>2 DEF ViewerOpen, Goto, TypeOK, Pcs
  <2>2. PcInv'
    BY <1>0, <1>2 DEF ViewerOpen, Goto, PcInv
  <2>3. LockInv'
    BY <1>0, <1>2, HolderIff DEF ViewerOpen, Goto, LockInv, HolderPcs
  <2>4. LostInv'
    BY <1>0, <1>2 DEF ViewerOpen, Goto, LostInv
  <2> QED
    BY <1>1, <2>1, <2>2, <2>3, <2>4 DEF PoolInv
<1>3. CASE ViewerClose
  <2>1. TypeOK'
    BY <1>0, <1>3 DEF ViewerClose, Goto, TypeOK, Pcs
  <2>2. PcInv'
    BY <1>0, <1>3 DEF ViewerClose, Goto, PcInv
  <2>3. LockInv'
    BY <1>0, <1>3, HolderIff DEF ViewerClose, Goto, LockInv, HolderPcs
  <2>4. LostInv'
    BY <1>0, <1>3 DEF ViewerClose, Goto, LostInv
  <2> QED
    BY <1>1, <2>1, <2>2, <2>3, <2>4 DEF PoolInv
<1>4. CASE UNCHANGED vars
  BY <1>4 DEF vars, PoolInv, TypeOK, PcInv, LockInv, LostInv, RefsCoverHolders, Holders
<1> QED
  BY <1>1, <1>2, <1>3, <1>4, UserStepInv DEF Next

-----------------------------------------------------------------------------
(* Theorems                                                                *)

(* PoolInv is an invariant.                                                *)
LEMMA PoolInvariant ==
  ASSUME NoStartFaults
  PROVE  Spec => []PoolInv
<1>1. Init => PoolInv
  BY InitPool
<1>2. PoolInv /\ [Next]_vars => PoolInv'
  BY NextInv
<1> QED
  BY <1>1, <1>2, PTL DEF Spec

(* The pool's variables keep their types.                                  *)
THEOREM PoolTypeCorrect ==
  ASSUME NoStartFaults
  PROVE  Spec => []TypeOK
<1>1. PoolInv => TypeOK
  BY DEF PoolInv
<1> QED
  BY <1>1, PoolInvariant, PTL

(* The count of _pool never falls below the number of tasks that rely on   *)
(* the browser.                                                            *)
THEOREM CountAlwaysCovers ==
  ASSUME NoStartFaults
  PROVE  Spec => []RefsCoverHolders
<1>1. PoolInv => RefsCoverHolders
  BY DEF PoolInv
<1> QED
  BY <1>1, PoolInvariant, PTL

(* release_browser never closes the browser under a task that holds it.    *)
THEOREM NobodyLosesTheBrowser ==
  ASSUME NoStartFaults
  PROVE  Spec => []NeverClosedInUse
<1>1. PoolInv => NeverClosedInUse
  <2> SUFFICES ASSUME PoolInv PROVE NeverClosedInUse
    OBVIOUS
  <2>1. lost \subseteq {viewer} /\ (viewer \in lost => ~viewerRef)
    BY DEF PoolInv, LostInv
  <2>2. viewer \in Holders => viewerRef
    BY HolderIff, UsersAssumption
  <2> QED
    BY <2>1, <2>2 DEF NeverClosedInUse
<1> QED
  BY <1>1, PoolInvariant, PTL

(* The pool implements SharedBrowser.                                      *)
THEOREM PoolSharesBrowser ==
  ASSUME NoStartFaults
  PROVE  Spec => SharesBrowser
<1>1. Init => Shared!Init
  BY InitPool DEF Init, Shared!Init
<1>2. PoolInv /\ [Next]_vars => [Shared!Next]_(Shared!vars)
  <2> SUFFICES ASSUME PoolInv, [Next]_vars
               PROVE  Shared!Next \/ UNCHANGED Shared!vars
    OBVIOUS
  <2>0. StepEffect /\ viewer \in Users /\ closer \in Users
    BY NextEffect DEF Users
  <2>1. CASE Keep
    BY <2>1 DEF Keep, Shared!Next, Shared!Start, Shared!vars
  <2>2. ASSUME NEW u \in Users, TakeBy(u) PROVE Shared!Next
    BY <2>2 DEF TakeBy, Shared!Next, Shared!Take
  <2>3. ASSUME NEW u \in Users, DropBy(u) PROVE Shared!Next
    BY <2>3 DEF DropBy, Shared!Next, Shared!Drop
  <2>4. CASE Pass
    BY <2>0, <2>4 DEF Pass, Shared!Next, Shared!HandOver
  <2>5. CASE StopAll
    BY <2>5 DEF StopAll, Shared!Next, Shared!Stop
  <2> QED
    BY <2>0, <2>1, <2>2, <2>3, <2>4, <2>5 DEF StepEffect
<1> QED
  BY <1>1, <1>2, PoolInvariant, PTL DEF Spec, SharesBrowser, Shared!Spec
=============================================================================
