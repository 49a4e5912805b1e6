----------------------------- MODULE ProxyProof -----------------------------
(***************************************************************************)
(* Theorems about the threads of the proxy (module Proxy), for every set   *)
(* of threads: the lock around the cache excludes, and it implements the   *)
(* abstract lock of module ReadersWriter.                                  *)
(***************************************************************************)
EXTENDS Proxy, FiniteSetTheorems, TLAPS

(* What a thread's move does to the set of threads at some places.         *)
LEMMA MoveSets ==
    ASSUME TypeOK, NEW t \in Threads, NEW from \in Places, NEW to \in Places,
           Moves(t, from, to)
    PROVE  /\ at' \in [Threads -> Places]
           /\ up' = up
           /\ \A u \in Threads : at'[u] = IF u = t THEN to ELSE at[u]
           /\ at[t] = from
  BY DEF TypeOK, Moves

(* Joining and leaving the readers that readcnt counts.                    *)
LEMMA CountJoins ==
    ASSUME CountsReaders, NEW t \in Threads \ Counted, Counted' = Counted \cup {t},
           readcnt' = readcnt + 1
    PROVE  CountsReaders'
  BY FS_AddElement DEF CountsReaders

(* One reader leaves: readcnt goes down with the set it counts.            *)
LEMMA CountLeaves ==
    ASSUME CountsReaders, NEW t \in Counted, Counted' = Counted \ {t},
           readcnt' = readcnt - 1
    PROVE  CountsReaders'
  BY FS_RemoveElement DEF CountsReaders

(* Nobody joins or leaves the readers that readcnt counts.                 *)
LEMMA CountStays ==
    ASSUME CountsReaders, Counted' = Counted, readcnt' = readcnt
    PROVE  CountsReaders'
  BY DEF CountsReaders

(* What the tests of readcnt tell a thread that holds mutex.               *)
LEMMA CountTells ==
    ASSUME CountsReaders
    PROVE  /\ readcnt \in Nat
           /\ readcnt = 0 <=> Counted = {}
           /\ \A t \in Counted : readcnt > 0 /\ (readcnt = 1 => Counted = {t})
<1>1. readcnt \in Nat /\ (readcnt = 0 <=> Counted = {})
  BY FS_CardinalityType, FS_EmptySet DEF CountsReaders
<1>2. ASSUME NEW t \in Counted PROVE readcnt > 0 /\ (readcnt = 1 => Counted = {t})
  <2>1. readcnt > 0
    BY <1>1
  <2>2. ASSUME readcnt = 1 PROVE Counted = {t}
    <3>0. /\ IsFiniteSet(Counted \ {t})
          /\ Cardinality(Counted \ {t}) = Cardinality(Counted) - 1
      BY FS_RemoveElement DEF CountsReaders
    <3>1. IsFiniteSet(Counted \ {t}) /\ Cardinality(Counted \ {t}) = 0
      BY <3>0, <2>2 DEF CountsReaders
    <3>2. Counted \ {t} = {}
      BY <3>1, FS_EmptySet
    <3> QED BY <3>2, <1>2
  <2> QED BY <2>1, <2>2
<1> QED BY <1>1, <1>2

(* At the start no thread is in the cache and nothing is held.             *)
LEMMA InitInv == Init => IndInv
<1> SUFFICES ASSUME Init PROVE IndInv
  OBVIOUS
<1>1. Counted = {} /\ InMutex = {} /\ SharesW = {} /\ Writers = {}
  BY DEF Init, Counted, InMutex, SharesW, Writers
<1>2. CountsReaders
  BY <1>1, FS_EmptySet DEF Init, CountsReaders
<1> QED BY <1>1, <1>2 DEF Init, IndInv, TypeOK, Places, MutexHeld, WHeld, FirstAndLast

(* A move between two places at which a thread holds and shares the same.  *)
LEMMA QuietMove ==
    ASSUME IndInv, NEW t \in Threads, NEW from \in Places, NEW to \in Places,
           Moves(t, from, to), UNCHANGED <<mutex, w, readcnt>>,
           from \notin {"first", "admitted", "last", "departed", "insert"},
           to \notin {"first", "admitted", "last", "departed", "insert"},
           from \in {"lookup", "depart"} <=> to \in {"lookup", "depart"}
    PROVE  IndInv'
<1> USE MoveSets DEF IndInv
<1>1. Counted' = Counted /\ InMutex' = InMutex /\ SharesW' = SharesW /\ Writers' = Writers
  BY DEF Counted, InMutex, SharesW, Writers
<1>2. TypeOK'
  BY DEF TypeOK
<1>3. CountsReaders'
  BY <1>1, CountStays
<1> QED BY <1>1, <1>2, <1>3 DEF MutexHeld, WHeld, FirstAndLast

(* readcnt++ under mutex.                                                  *)
LEMMA EnterStep ==
    ASSUME IndInv, NEW t \in Threads, EnterReader(t) PROVE IndInv'
<1> USE DEF IndInv
<1> DEFINE to == IF readcnt = 0 THEN "first" ELSE "admitted"
<1>1. /\ at' \in [Threads -> Places] /\ up' = up
      /\ \A u \in Threads : at'[u] = IF u = t THEN to ELSE at[u]
      /\ at[t] = "enter"
  BY MoveSets, CountTells DEF EnterReader, Places
<1>2. mutex = 1 /\ mutex' = 0 /\ w' = w /\ readcnt' = readcnt + 1
  BY DEF EnterReader, P, TypeOK
<1>3. InMutex = {} /\ InMutex' = {t}
  BY <1>1, <1>2 DEF InMutex, MutexHeld
<1>4. Counted' = Counted \cup {t} /\ t \notin Counted
  BY <1>1 DEF Counted
<1>5. Writers' = Writers
  BY <1>1 DEF Writers
<1>6. ASSUME readcnt # 0 PROVE SharesW # {} /\ SharesW' = SharesW \cup {t}
  <2>1. PICK u \in Counted : TRUE
    BY <1>6, CountTells
  <2>2. u \in SharesW
    BY <1>3, <2>1 DEF Counted, SharesW, InMutex
  <2> QED BY <1>1, <1>6, <2>2 DEF SharesW
<1>7. ASSUME readcnt = 0 PROVE SharesW' = SharesW /\ Counted' = {t}
  BY <1>1, <1>4, <1>7, CountTells DEF SharesW
<1>8. TypeOK'
  BY <1>1, <1>2 DEF TypeOK
<1>9. MutexHeld'
  BY <1>2, <1>3 DEF MutexHeld
<1>10. WHeld'
  BY <1>2, <1>5, <1>6, <1>7 DEF WHeld
<1>11. FirstAndLast'
  BY <1>1, <1>3, <1>7 DEF FirstAndLast, InMutex
<1>12. CountsReaders'
  BY <1>2, <1>4, CountJoins
<1> QED BY <1>8, <1>9, <1>10, <1>11, <1>12

(* The first reader takes w for all readers.                               *)
LEMMA FirstStep ==
    ASSUME IndInv, NEW t \in Threads, FirstReader(t) PROVE IndInv'
<1> USE DEF IndInv
<1>1. /\ at' \in [Threads -> Places] /\ up' = up
      /\ \A u \in Threads : at'[u] = IF u = t THEN "admitted" ELSE at[u]
      /\ at[t] = "first"
  BY MoveSets DEF FirstReader, Places
<1>2. w = 1 /\ w' = 0 /\ mutex' = mutex /\ readcnt' = readcnt
  BY DEF FirstReader, P, TypeOK
<1>3. SharesW = {} /\ Writers = {} /\ SharesW' = {t} /\ Writers' = {}
  BY <1>1, <1>2 DEF SharesW, Writers, WHeld
<1>4. InMutex' = InMutex /\ Counted' = Counted
  BY <1>1 DEF InMutex, Counted
<1>5. TypeOK'
  BY <1>1, <1>2 DEF TypeOK
<1>6. MutexHeld' /\ WHeld'
  BY <1>2, <1>3, <1>4 DEF MutexHeld, WHeld
<1>7. FirstAndLast'
  BY <1>1, <1>4 DEF FirstAndLast
<1>8. CountsReaders'
  BY <1>2, <1>4, CountStays
<1> QED BY <1>5, <1>6, <1>7, <1>8

(* The reader gives mutex back and looks into the cache.                   *)
LEMMA AdmitStep ==
    ASSUME IndInv, NEW t \in Threads, AdmitReader(t) PROVE IndInv'
<1> USE DEF IndInv
<1>1. /\ at' \in [Threads -> Places] /\ up' = up
      /\ \A u \in Threads : at'[u] = IF u = t THEN "lookup" ELSE at[u]
      /\ at[t] = "admitted"
  BY MoveSets DEF AdmitReader, Places
<1>2. mutex = 0 /\ InMutex = {t}
  BY <1>1 DEF InMutex, MutexHeld
<1>3. mutex' = 1 /\ w' = w /\ readcnt' = readcnt
  BY <1>2 DEF AdmitReader, V
<1>4. InMutex' = {} /\ SharesW' = SharesW /\ Writers' = Writers /\ Counted' = Counted
  BY <1>1, <1>2 DEF InMutex, SharesW, Writers, Counted
<1>5. TypeOK'
  BY <1>1, <1>3 DEF TypeOK
<1>6. MutexHeld' /\ WHeld' /\ FirstAndLast'
  BY <1>1, <1>3, <1>4 DEF MutexHeld, WHeld, FirstAndLast
<1>7. CountsReaders'
  BY <1>3, <1>4, CountStays
<1> QED BY <1>5, <1>6, <1>7

(* readcnt-- under mutex.                                                  *)
LEMMA DepartStep ==
    ASSUME IndInv, NEW t \in Threads, DepartReader(t) PROVE IndInv'
<1> USE DEF IndInv
<1> DEFINE to == IF readcnt = 1 THEN "last" ELSE "departed"
<1>0. t \in Counted
  BY DEF DepartReader, Moves, Counted
<1>1. /\ at' \in [Threads -> Places] /\ up' = up
      /\ \A u \in Threads : at'[u] = IF u = t THEN to ELSE at[u]
      /\ at[t] = "depart"
  BY <1>0, MoveSets, CountTells DEF DepartReader, Places
<1>2. mutex = 1 /\ mutex' = 0 /\ w' = w /\ readcnt' = readcnt - 1
  BY DEF DepartReader, P, TypeOK
<1>3. InMutex = {} /\ InMutex' = {t} /\ Writers' = Writers
  BY <1>1, <1>2 DEF InMutex, MutexHeld, Writers
<1>4. Counted' = Counted \ {t}
  BY <1>1 DEF Counted
<1>5. SharesW # {} /\ (SharesW' = SharesW \/ SharesW' = SharesW \ {t})
  BY <1>1 DEF SharesW
<1>6. readcnt = 1 => Counted' = {}
  BY <1>0, <1>4, CountTells
<1>7. TypeOK'
  BY <1>0, <1>1, <1>2, CountTells DEF TypeOK
<1>8. MutexHeld'
  BY <1>2, <1>3 DEF MutexHeld
<1>9. WHeld'
  BY <1>2, <1>3, <1>5 DEF WHeld
<1>10. FirstAndLast'
  BY <1>1, <1>3, <1>6 DEF FirstAndLast, InMutex
<1>11. CountsReaders'
  BY <1>0, <1>2, <1>4, CountLeaves
<1> QED BY <1>7, <1>8, <1>9, <1>10, <1>11

(* The last reader gives w back.                                           *)
LEMMA LastStep ==
    ASSUME IndInv, NEW t \in Threads, LastReader(t) PROVE IndInv'
<1> USE DEF IndInv
<1>1. /\ at' \in [Threads -> Places] /\ up' = up
      /\ \A u \in Threads : at'[u] = IF u = t THEN "departed" ELSE at[u]
      /\ at[t] = "last"
  BY MoveSets DEF LastReader, Places
<1>2. InMutex = {t} /\ Counted = {}
  BY <1>1 DEF InMutex, MutexHeld, FirstAndLast
<1>3. SharesW = {t} /\ SharesW' = {}
  BY <1>1, <1>2 DEF SharesW, InMutex, Counted
<1>4. w = 0 /\ w' = 1 /\ mutex' = mutex /\ readcnt' = readcnt
  BY <1>3 DEF LastReader, V, WHeld
<1>5. Writers = {} /\ Writers' = {}
  BY <1>1, <1>3 DEF WHeld, Writers
<1>6. InMutex' = InMutex /\ Counted' = Counted
  BY <1>1 DEF InMutex, Counted
<1>7. TypeOK'
  BY <1>1, <1>4 DEF TypeOK
<1>8. MutexHeld' /\ WHeld' /\ FirstAndLast'
  BY <1>1, <1>2, <1>3, <1>4, <1>5, <1>6 DEF MutexHeld, WHeld, FirstAndLast
<1>9. CountsReaders'
  BY <1>4, <1>6, CountStays
<1> QED BY <1>7, <1>8, <1>9

(* The reader gives mutex back and goes on with its request.               *)
LEMMA ReturnStep ==
    ASSUME IndInv, NEW t \in Threads, ReturnFromCache(t) PROVE IndInv'
<1> USE DEF IndInv
<1>0. PICK to \in {"finish", "fetch"} : Moves(t, "departed", to)
  BY DEF ReturnFromCache
<1>1. /\ at' \in [Threads -> Places] /\ up' = up
      /\ \A u \in Threads : at'[u] = IF u = t THEN to ELSE at[u]
      /\ at[t] = "departed"
  BY <1>0, MoveSets DEF Places
<1>2. mutex = 0 /\ InMutex = {t}
  BY <1>1 DEF InMutex, MutexHeld
<1>3. mutex' = 1 /\ w' = w /\ readcnt' = readcnt
  BY <1>2 DEF ReturnFromCache, V
<1>4. InMutex' = {} /\ SharesW' = SharesW /\ Writers' = Writers /\ Counted' = Counted
  BY <1>1, <1>2 DEF InMutex, SharesW, Writers, Counted
<1>5. TypeOK'
  BY <1>1, <1>3 DEF TypeOK
<1>6. MutexHeld' /\ WHeld' /\ FirstAndLast'
  BY <1>1, <1>3, <1>4 DEF MutexHeld, WHeld, FirstAndLast
<1>7. CountsReaders'
  BY <1>3, <1>4, CountStays
<1> QED BY <1>5, <1>6, <1>7

(* A thread with an object to insert takes w.                              *)
LEMMA ClaimStep ==
    ASSUME IndInv, NEW t \in Threads, ClaimCache(t) PROVE IndInv'
<1> USE DEF IndInv
<1>1. /\ at' \in [Threads -> Places] /\ up' = up
      /\ \A u \in Threads : at'[u] = IF u = t THEN "insert" ELSE at[u]
      /\ at[t] = "claim"
  BY MoveSets DEF ClaimCache, Places
<1>2. w = 1 /\ w' = 0 /\ mutex' = mutex /\ readcnt' = readcnt
  BY DEF ClaimCache, P, TypeOK
<1>3. SharesW = {} /\ Writers = {}
  BY <1>2 DEF WHeld
<1>4. SharesW' = SharesW /\ Writers' = {t} /\ InMutex' = InMutex /\ Counted' = Counted
  BY <1>1, <1>3 DEF SharesW, Writers, InMutex, Counted
<1>5. TypeOK'
  BY <1>1, <1>2 DEF TypeOK
<1>6. MutexHeld' /\ WHeld' /\ FirstAndLast'
  BY <1>1, <1>2, <1>3, <1>4 DEF MutexHeld, WHeld, FirstAndLast
<1>7. CountsReaders'
  BY <1>2, <1>4, CountStays
<1> QED BY <1>5, <1>6, <1>7

(* insert_cache done: w is given back.                                     *)
LEMMA InsertStep ==
    ASSUME IndInv, NEW t \in Threads, InsertObject(t) PROVE IndInv'
<1> USE DEF IndInv
<1>1. /\ at' \in [Threads -> Places] /\ up' = up
      /\ \A u \in Threads : at'[u] = IF u = t THEN "finish" ELSE at[u]
      /\ at[t] = "insert"
  BY MoveSets DEF InsertObject, Places
<1>2. Writers = {t} /\ SharesW = {} /\ w = 0
  BY <1>1 DEF Writers, WHeld
<1>3. w' = 1 /\ mutex' = mutex /\ readcnt' = readcnt
  BY <1>2 DEF InsertObject, V
<1>4. SharesW' = {} /\ Writers' = {} /\ InMutex' = InMutex /\ Counted' = Counted
  BY <1>1, <1>2 DEF SharesW, Writers, InMutex, Counted
<1>5. TypeOK'
  BY <1>1, <1>3 DEF TypeOK
<1>6. MutexHeld' /\ WHeld' /\ FirstAndLast'
  BY <1>1, <1>3, <1>4 DEF MutexHeld, WHeld, FirstAndLast
<1>7. CountsReaders'
  BY <1>3, <1>4, CountStays
<1> QED BY <1>5, <1>6, <1>7

(* Every step of every thread keeps the invariant.                         *)
LEMMA NextInv == IndInv /\ [Next]_vars => IndInv'
<1> SUFFICES ASSUME IndInv, [Next]_vars PROVE IndInv'
  OBVIOUS
<1>1. ASSUME UNCHANGED <<at, mutex, w, readcnt>>, up' \in BOOLEAN PROVE IndInv'
  <2>1. Counted' = Counted /\ InMutex' = InMutex /\ SharesW' = SharesW /\ Writers' = Writers
    BY <1>1 DEF Counted, InMutex, SharesW, Writers
  <2> QED BY <1>1, <2>1 DEF IndInv, TypeOK, MutexHeld, WHeld, FirstAndLast, CountsReaders
<1>2. CASE UNCHANGED vars
  BY <1>1, <1>2 DEF vars, IndInv, TypeOK
<1>3. CASE WrapperFails
  BY <1>1, <1>3 DEF WrapperFails
<1>4. ASSUME NEW t \in Threads, AcceptConnection(t) \/ Own(t) \/ WithPeer(t) PROVE IndInv'
  <2>1. CASE AcceptConnection(t)
    BY <2>1, QuietMove DEF AcceptConnection, Places
  <2>2. CASE RefuseRequest(t)
    BY <2>2, QuietMove DEF RefuseRequest, Places
  <2>3. CASE ReadRequest(t)
    BY <2>3, QuietMove DEF ReadRequest, Places
  <2>4. CASE Lookup(t)
    BY <2>4, QuietMove DEF Lookup, Places
  <2>5. CASE FetchObject(t)
    BY <2>5, QuietMove DEF FetchObject, Places
  <2>6. CASE CloseConnection(t)
    BY <2>6, QuietMove DEF CloseConnection, Places
  <2> QED BY <1>4, <2>1, <2>2, <2>3, <2>4, <2>5, <2>6, EnterStep, FirstStep, AdmitStep,
             DepartStep, LastStep, ReturnStep, ClaimStep, InsertStep DEF Own, WithPeer
<1> QED BY <1>2, <1>3, <1>4 DEF Next

(* In every reachable state the semaphores and readcnt say who is where.   *)
THEOREM LockInvariant == Spec => []IndInv
  BY InitInv, NextInv, PTL DEF Spec

(* Types, for every set of threads: the semaphores stay binary.            *)
THEOREM TypeCorrect == Spec => []TypeOK
  BY LockInvariant, PTL DEF IndInv

(* readcnt counts the readers in every reachable state.                    *)
THEOREM CountCorrect == Spec => []CountsReaders
  BY LockInvariant, PTL DEF IndInv

(* Whoever inserts holds w, which readers share and nobody else has.       *)
LEMMA HeldExcludes == IndInv => CacheExclusion
  BY DEF IndInv, WHeld, CacheExclusion, Readers, Writers, SharesW

(* Nobody is in the cache beside a thread that inserts.                    *)
THEOREM Exclusion == Spec => []CacheExclusion
  BY LockInvariant, HeldExcludes, PTL

-----------------------------------------------------------------------------
(* The refinement.                                                         *)

(* A move that neither enters nor leaves lookup or insert.                 *)
LEMMA Outside ==
    ASSUME TypeOK, NEW t \in Threads, NEW from \in Places, NEW to \in Places,
           Moves(t, from, to),
           from \notin {"lookup", "insert"}, to \notin {"lookup", "insert"}
    PROVE  UNCHANGED <<Readers, Writers>>
  BY MoveSets DEF Readers, Writers

(* Each step enters or leaves the lock as the abstract one allows.         *)
LEMMA StepRefines ==
    ASSUME IndInv, [Next]_vars PROVE [RW!Next]_(RW!vars)
<1> USE DEF IndInv
<1> SUFFICES UNCHANGED <<Readers, Writers>> \/ RW!Next
  BY DEF RW!vars
<1>1. CASE UNCHANGED at
  BY <1>1 DEF Readers, Writers
<1>2. ASSUME NEW t \in Threads, AcceptConnection(t) \/ Own(t) \/ WithPeer(t)
      PROVE  UNCHANGED <<Readers, Writers>> \/ RW!Next
  <2>1. CASE AdmitReader(t)
    <3>1. Writers = {}
      BY <2>1 DEF AdmitReader, Moves, WHeld, SharesW
    <3>2. Readers' = Readers \cup {t} /\ Writers' = Writers
      BY <2>1, MoveSets DEF AdmitReader, Places, Readers, Writers
    <3> QED BY <3>1, <3>2 DEF RW!Next, RW!BeginRead
  <2>2. CASE Lookup(t)
    <3>1. Readers' = Readers \ {t} /\ Writers' = Writers
      BY <2>2, MoveSets DEF Lookup, Places, Readers, Writers
    <3> QED BY <3>1 DEF RW!Next, RW!EndRead
  <2>3. CASE ClaimCache(t)
    <3>1. w = 1
      BY <2>3 DEF ClaimCache, P, TypeOK
    <3>2. Readers = {} /\ Writers = {}
      BY <3>1 DEF WHeld, SharesW, Readers
    <3>3. Readers' = Readers /\ Writers' = {t}
      BY <2>3, <3>2, MoveSets DEF ClaimCache, Places, Readers, Writers
    <3> QED BY <3>2, <3>3 DEF RW!Next, RW!BeginWrite
  <2>4. CASE InsertObject(t)
    <3>1. Readers' = Readers /\ Writers' = Writers \ {t}
      BY <2>4, MoveSets DEF InsertObject, Places, Readers, Writers
    <3> QED BY <3>1 DEF RW!Next, RW!EndWrite
  <2>5. CASE AcceptConnection(t) \/ RefuseRequest(t) \/ ReadRequest(t)
    BY <2>5, Outside DEF AcceptConnection, RefuseRequest, ReadRequest, Places
  <2>6. CASE EnterReader(t) \/ FirstReader(t) \/ DepartReader(t) \/ LastReader(t)
    <3>1. PICK p \in {"first", "admitted", "last", "departed"} : Moves(t, at[t], p)
      BY <2>6 DEF EnterReader, FirstReader, DepartReader, LastReader, Moves
    <3>2. at[t] \in Places \ {"lookup", "insert"}
      BY <2>6 DEF EnterReader, FirstReader, DepartReader, LastReader, Moves, Places
    <3> QED BY <3>1, <3>2, Outside DEF Places
  <2>7. CASE ReturnFromCache(t)
    <3>1. PICK p \in {"finish", "fetch"} : Moves(t, "departed", p)
      BY <2>7 DEF ReturnFromCache
    <3> QED BY <3>1, Outside DEF Places
  <2>8. CASE FetchObject(t) \/ CloseConnection(t)
    BY <2>8, Outside DEF FetchObject, CloseConnection, Places
  <2> QED BY <1>2, <2>1, <2>2, <2>3, <2>4, <2>5, <2>6, <2>7, <2>8 DEF Own, WithPeer
<1> QED BY <1>1, <1>2 DEF Next, vars, WrapperFails

(* Nobody is in the lock at the start.                                     *)
LEMMA InitRefines == Init => RW!Init
  BY DEF Init, RW!Init, Readers, Writers

(* The semaphores implement the readers-writer lock, for every set of      *)
(* threads.                                                                *)
THEOREM LockRefinement == Spec => RefinesReadersWriter
<1>1. IndInv /\ [Next]_vars => [RW!Next]_(RW!vars)
  BY StepRefines
<1> QED BY LockInvariant, InitRefines, <1>1, PTL DEF Spec, RefinesReadersWriter, RW!Spec
=============================================================================
