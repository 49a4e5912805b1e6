------------------------------- MODULE Proxy -------------------------------
(***************************************************************************)
(* The threads of the caching proxy, src/proxylab/proxylab/proxy.c: main   *)
(* accepts connections and starts a thread for each; a thread reads its    *)
(* request, looks in the cache as a reader (get_from_cache) and, if the    *)
(* object is not there, fetches it and inserts it as a writer              *)
(* (get_from_server).  The cache is guarded by the semaphores mutex and w  *)
(* and the counter readcnt of cache.c; what it holds is left open here: a  *)
(* lookup may find the object or not (module CacheList has the list).      *)
(*                                                                         *)
(* A step is the code from one semaphore operation to the next, or an I/O  *)
(* call that waits for a peer.  Every wrapper of csapp.c that fails ends   *)
(* the whole process.                                                      *)
(***************************************************************************)
EXTENDS Naturals, FiniteSets

CONSTANT Threads     \* identities for connection threads, used again

VARIABLES up,        \* the process runs
          at,        \* where each thread is
          mutex, w,  \* semaphores: mutex guards readcnt, w the cache
          readcnt    \* number of readers in the cache

vars == <<up, at, mutex, w, readcnt>>

(* The places of a thread:                                                 *)
(*   none      no such thread                                              *)
(*   request   started; it reads the request line                          *)
(*   enter     at P(mutex), to become a reader                             *)
(*   first     holds mutex, is the first reader; at P(w)                   *)
(*   admitted  holds mutex, counted; at V(mutex)                           *)
(*   lookup    in the cache, as a reader; writes the object to its client  *)
(*   depart    at P(mutex), to stop being a reader                         *)
(*   last      holds mutex, was the last reader; at V(w)                   *)
(*   departed  holds mutex, not counted any more; at V(mutex)              *)
(*   fetch     talks to the server and forwards what it gets               *)
(*   claim     at P(w), with an object for the cache                       *)
(*   insert    in the cache, as the writer; at V(w)                        *)
(*   finish    closes its sockets and frees its request                    *)
Places == {"none", "request", "enter", "first", "admitted", "lookup", "depart",
           "last", "departed", "fetch", "claim", "insert", "finish"}

TypeOK ==
    /\ up \in BOOLEAN
    /\ at \in [Threads -> Places]
    /\ mutex \in {0, 1}
    /\ w \in {0, 1}
    /\ readcnt \in Nat

Init ==
    /\ up = TRUE
    /\ at = [t \in Threads |-> "none"]
    /\ mutex = 1
    /\ w = 1
    /\ readcnt = 0

-----------------------------------------------------------------------------
Moves(t, from, to) ==
    /\ up
    /\ at[t] = from
    /\ at' = [at EXCEPT ![t] = to]
    /\ UNCHANGED up

P(sem) == sem > 0 /\ sem' = sem - 1
V(sem) == sem' = sem + 1

(* main: Accept and Pthread_create.                                        *)
AcceptConnection(t) == Moves(t, "none", "request") /\ UNCHANGED <<mutex, w, readcnt>>

(* A request that is not GET is refused, and the thread returns.           *)
RefuseRequest(t) == Moves(t, "request", "none") /\ UNCHANGED <<mutex, w, readcnt>>

ReadRequest(t) == Moves(t, "request", "enter") /\ UNCHANGED <<mutex, w, readcnt>>

-----------------------------------------------------------------------------
(* get_from_cache.                                                         *)

(* Mutant: no reader takes w.                                              *)
EnterReader_NoW(t) ==
    /\ Moves(t, "enter", "admitted")
    /\ P(mutex)
    /\ readcnt' = readcnt + 1
    /\ UNCHANGED w

EnterReader(t) ==
    /\ Moves(t, "enter", IF readcnt + 1 = 1 THEN "first" ELSE "admitted")
    /\ P(mutex)
    /\ readcnt' = readcnt + 1
    /\ UNCHANGED w

FirstReader(t) ==
    /\ Moves(t, "first", "admitted")
    /\ P(w)
    /\ UNCHANGED <<mutex, readcnt>>

AdmitReader(t) ==
    /\ Moves(t, "admitted", "lookup")
    /\ V(mutex)
    /\ UNCHANGED <<w, readcnt>>

(* find_cache and, for a hit, Rio_writen of the object.                    *)
Lookup(t) == Moves(t, "lookup", "depart") /\ UNCHANGED <<mutex, w, readcnt>>

(* Mutant: every reader that leaves gives w back.                          *)
DepartReader_AlwaysLast(t) ==
    /\ Moves(t, "depart", "last")
    /\ P(mutex)
    /\ readcnt' = readcnt - 1
    /\ UNCHANGED w

DepartReader(t) ==
    /\ Moves(t, "depart", IF readcnt - 1 = 0 THEN "last" ELSE "departed")
    /\ P(mutex)
    /\ readcnt' = readcnt - 1
    /\ UNCHANGED w

LastReader(t) ==
    /\ Moves(t, "last", "departed")
    /\ V(w)
    /\ UNCHANGED <<mutex, readcnt>>

(* get_from_cache returns whether it found the object.                     *)
ReturnFromCache(t) ==
    /\ \E to \in {"finish", "fetch"} : Moves(t, "departed", to)
    /\ V(mutex)
    /\ UNCHANGED <<w, readcnt>>

-----------------------------------------------------------------------------
(* get_from_server, and the end of handle_client.  Open_clientfd returns a  *)
(* connection or ends the process, so the early return is never taken.     *)

FetchObject(t) == Moves(t, "fetch", "claim") /\ UNCHANGED <<mutex, w, readcnt>>

(* Mutant: the writer does not wait for w.                                 *)
ClaimCache_NoWait(t) == Moves(t, "claim", "insert") /\ w' = 0 /\ UNCHANGED <<mutex, readcnt>>

ClaimCache(t) ==
    /\ Moves(t, "claim", "insert")
    /\ P(w)
    /\ UNCHANGED <<mutex, readcnt>>

(* Mutant: the writer keeps w.                                             *)
InsertObject_KeepsW(t) == Moves(t, "insert", "finish") /\ UNCHANGED <<mutex, w, readcnt>>

InsertObject(t) ==
    /\ Moves(t, "insert", "finish")
    /\ V(w)
    /\ UNCHANGED <<mutex, readcnt>>

CloseConnection(t) == Moves(t, "finish", "none") /\ UNCHANGED <<mutex, w, readcnt>>

(* A wrapper of csapp.c fails: Accept and Pthread_create in main, reading, *)
(* writing, connecting and closing in a thread.                            *)
WrapperFails ==
    /\ up
    /\ up' = FALSE
    /\ UNCHANGED <<at, mutex, w, readcnt>>

-----------------------------------------------------------------------------
(* The steps that wait for semaphores or for nobody, and those that wait   *)
(* for a peer.                                                             *)

Own(t) ==
    \/ EnterReader(t) \/ FirstReader(t) \/ AdmitReader(t)
    \/ DepartReader(t) \/ LastReader(t) \/ ReturnFromCache(t)
    \/ ClaimCache(t) \/ InsertObject(t) \/ CloseConnection(t)

WithPeer(t) == RefuseRequest(t) \/ ReadRequest(t) \/ Lookup(t) \/ FetchObject(t)

Next == WrapperFails \/ \E t \in Threads : AcceptConnection(t) \/ Own(t) \/ WithPeer(t)

Spec == Init /\ [][Next]_vars

(* Every thread is scheduled.  Semaphores are weakly fair only: sem_wait   *)
(* promises no order among waiters.                                        *)
Scheduled == \A t \in Threads : WF_vars(Own(t))

(* Not the code's doing: clients and servers answer in the end.            *)
PeersAnswer == \A t \in Threads : WF_vars(WithPeer(t))

FairSpec == Spec /\ Scheduled /\ PeersAnswer

-----------------------------------------------------------------------------
(* Properties.                                                             *)

Readers == {t \in Threads : at[t] = "lookup"}
Writers == {t \in Threads : at[t] = "insert"}

(* Nobody is in the cache beside a thread that inserts (P and V of w in    *)
(* get_from_cache and get_from_server).                                    *)
CacheExclusion == \A t, u \in Threads : t \in Writers /\ u \in Readers \cup Writers => t = u

Counted == {t \in Threads : at[t] \in {"first", "admitted", "lookup", "depart"}}

(* readcnt is the number of threads between their readcnt++ and their      *)
(* readcnt--, whatever the order in which readers come and go.             *)
CountsReaders == IsFiniteSet(Counted) /\ readcnt = Cardinality(Counted)

(* The semaphores and the counter implement a readers-writer lock.         *)
RW == INSTANCE ReadersWriter WITH reading <- Readers, writing <- Writers

RefinesReadersWriter == RW!Spec

(* What makes these properties inductive (module ProxyProof).  A thread    *)
(* that is past P(mutex) holds mutex, alone.                               *)
InMutex == {t \in Threads : at[t] \in {"first", "admitted", "last", "departed"}}

MutexHeld == \A t \in InMutex : mutex = 0 /\ \A u \in InMutex : u = t

(* The readers hold w together, from the first one's P to the last one's V. *)
SharesW == {t \in Threads : at[t] \in {"admitted", "lookup", "depart", "last"}}

WHeld ==
    /\ SharesW # {} \/ Writers # {} => w = 0
    /\ \A t \in Writers : SharesW = {} /\ \A u \in Writers : u = t

(* The first reader is the only one counted, and after the last there is   *)
(* none.                                                                   *)
FirstAndLast ==
    \A t \in Threads : /\ at[t] = "first" => Counted = {t}
                       /\ at[t] = "last" => Counted = {}

IndInv == TypeOK /\ MutexHeld /\ WHeld /\ FirstAndLast /\ CountsReaders

(* When connections stop coming, every thread ends: no order of arrivals   *)
(* leaves a semaphore taken or a thread waiting at one for ever.           *)
ThreadsEnd ==
    \A t \in Threads :
        <>[](\A u \in Threads : at[u] # "request") => <>[](~ up \/ at[t] = "none")

=============================================================================
