--------------------------- MODULE ReadersWriter ---------------------------
(***************************************************************************)
(* What the lock around the proxy's cache promises: threads read together, *)
(* and a thread writes alone.  Module Proxy implements this specification  *)
(* (Proxy!RefinesReadersWriter).                                           *)
(***************************************************************************)
CONSTANT Threads

VARIABLES reading, writing     \* the threads that read, and that write

vars == <<reading, writing>>

TypeOK == reading \subseteq Threads /\ writing \subseteq Threads

Init == reading = {} /\ writing = {}

BeginRead(t) ==
    /\ writing = {}
    /\ reading' = reading \cup {t}
    /\ UNCHANGED writing

EndRead(t) ==
    /\ reading' = reading \ {t}
    /\ UNCHANGED writing

BeginWrite(t) ==
    /\ reading = {} /\ writing = {}
    /\ writing' = {t}
    /\ UNCHANGED reading

EndWrite(t) ==
    /\ writing' = writing \ {t}
    /\ UNCHANGED reading

Next == \E t \in Threads : BeginRead(t) \/ EndRead(t) \/ BeginWrite(t) \/ EndWrite(t)

Spec == Init /\ [][Next]_vars
=============================================================================
