------------------------------- MODULE PTree --------------------------------
(***************************************************************************)
(* The kernel module ptree of kernellab: a pid written to the debugfs file *)
(* input, and the processes from init to that pid read from the file       *)
(* ptree.  There are two versions, dbfs_ptree.c with a list of nodes that  *)
(* a read empties, and .dbfs_ptree_2.c with one string.  Calls come one    *)
(* after the other here; neither version has a lock, and two calls at once *)
(* are outside of the model.                                               *)
(*                                                                         *)
(* A line of output is the sequence of its characters <<pid, k>>; the byte *)
(* behind the text is Nul, and a byte behind the array is Stray.           *)
(***************************************************************************)
EXTENDS Integers, Sequences, SequencesExt

CONSTANTS Pids,          \* the processes, 1 is init
          Parent,        \* the parent of each, 0 for init
          Length,        \* the length of each one's line
          Files,         \* open descriptors of the file ptree
          Counts,        \* the counts readers pass
          LENGTH_MAX,    \* size of the string of the second version
          MaxLen         \* bound: how far the total may grow

(* The processes are a tree: there is no set of them in which every parent *)
(* is.  A line has a name of at most 15 characters, and a pid.             *)
ASSUME PTreeAssumption == /\ 1 \in Pids /\ 0 \notin Pids /\ Parent[1] = 0
                          /\ Parent \in [Pids -> Pids \cup {0}]
                          /\ \A S \in SUBSET Pids : S # {} => \E p \in S : Parent[p] \notin S
                          /\ LENGTH_MAX \in Nat \ {0}
                          /\ Length \in [Pids -> 1 .. LENGTH_MAX - 1]
                          /\ Counts \subseteq Nat

VARIABLES version,       \* "list" or "string"
          message_list,  \* pids of the nodes, head first
          out_str,       \* the string of the second version
          total_len,     \* total_len, length_total
          position,      \* of each descriptor
          got,           \* what the last call, if it was a read, returned
          written,       \* the pid written last, 0 if that write did not end
          unread,        \* no read since then
          status

vars == <<version, message_list, out_str, total_len, position, got, written, unread, status>>

Nul == <<0, 0>>
Stray == <<0, 1>>

Init == /\ version \in {"list", "string"}
        /\ message_list = <<>> /\ out_str = <<>> /\ total_len = 0
        /\ position = [f \in Files |-> 0] /\ got = <<>>
        /\ written = 0 /\ unread = TRUE /\ status = "loaded"

\* The processes from init down to each, and the text about them.
branchOf[p \in Pids \cup {0}] == IF p = 0 THEN <<>> ELSE Append(branchOf[Parent[p]], p)

Line(p) == [k \in 1 .. Length[p] |-> <<p, k>>]
Text(pids) == FlattenSeq([k \in DOMAIN pids |-> Line(pids[k])])

Wrote(p) == written' = p /\ unread' = TRUE

\* A node for each process on the way up to init, each before the one listed
\* last; the walk ends early when kmalloc fails.
WalkToList_Tail(p, stop) ==
  LET walked == Reverse(SubSeq(branchOf[p], stop + 1, Len(branchOf[p])))
  IN /\ message_list' = message_list \o walked
     /\ total_len' = total_len + Len(Text(walked))

WalkToList(p, stop) ==
  LET walked == SubSeq(branchOf[p], stop + 1, Len(branchOf[p]))
  IN /\ message_list' = walked \o message_list
     /\ total_len' = total_len + Len(Text(walked))

WriteList(p) ==
  /\ version = "list" /\ status = "loaded"
  /\ total_len + Len(Text(branchOf[p])) <= MaxLen
  /\ \E stop \in 0 .. Len(branchOf[p]) :
       WalkToList(p, stop) /\ Wrote(IF stop = 0 THEN p ELSE 0)
  /\ got' = <<>> /\ UNCHANGED <<version, out_str, position, status>>

\* pid_task finds no such process: curr is NULL, and is followed.
WriteUnknownToList ==
  /\ version = "list" /\ status = "loaded" /\ status' = "oops"
  /\ UNCHANGED <<version, message_list, out_str, total_len, position, got, written, unread>>

\* snprintf puts each line before the string so far and cuts the end off, with
\* room left for the Nul; the total is that of the whole lines.
Cut(text) == SubSeq(text, 1, IF Len(text) < LENGTH_MAX THEN Len(text) ELSE LENGTH_MAX - 1)

WriteString_Total(p) ==
  LET text == Text(branchOf[p])
  IN /\ version = "string" /\ status = "loaded" /\ total_len + Len(text) <= MaxLen
     /\ out_str' = Cut(text) /\ total_len' = total_len + Len(text)
     /\ Wrote(p)
     /\ got' = <<>> /\ UNCHANGED <<version, message_list, position, status>>

WriteString(p) ==
  LET text == Text(branchOf[p])
  IN /\ version = "string" /\ status = "loaded"
     /\ out_str' = Cut(text) /\ total_len' = Len(text)
     /\ Wrote(p)
     /\ got' = <<>> /\ UNCHANGED <<version, message_list, position, status>>

WriteUnknownToString ==
  /\ version = "string" /\ status = "loaded"
  /\ out_str' = <<>> /\ total_len' = 0
  /\ Wrote(0)
  /\ got' = <<>> /\ UNCHANGED <<version, message_list, position, status>>
-----------------------------------------------------------------------------
Open(f) == /\ status = "loaded"
           /\ position' = [position EXCEPT ![f] = 0]
           /\ got' = <<>>
           /\ UNCHANGED <<version, message_list, out_str, total_len, written, unread, status>>

\* simple_read_from_buffer: at most count bytes of the first total_len, from
\* the position on, of an array of size bytes with text in it.
simple_read_from_buffer(f, count, text, size) ==
  LET buffer == [k \in 1 .. total_len |-> IF k <= Len(text) THEN text[k]
                                         ELSE IF k <= size THEN Nul ELSE Stray]
      piece  == SubSeq(buffer, position[f] + 1, position[f] + count)
      wanted == IF position[f] >= total_len THEN <<>>
                ELSE IF position[f] + count <= total_len THEN piece
                ELSE SubSeq(buffer, position[f] + 1, total_len)
  IN /\ position' = [position EXCEPT ![f] = @ + Len(wanted)]
     /\ got' = wanted

\* All nodes are freed, whether or not their text was copied.  The buffer, of
\* total_len + 1 bytes, is on the kernel stack: a total that is too large for
\* that is not modelled.
ReadList(f, count) ==
  /\ version = "list" /\ status = "loaded"
  /\ simple_read_from_buffer(f, count, Text(message_list), total_len + 1)
  /\ message_list' = <<>> /\ unread' = FALSE
  /\ UNCHANGED <<version, out_str, total_len, written, status>>

ReadString(f, count) ==
  /\ version = "string" /\ status = "loaded"
  /\ simple_read_from_buffer(f, count, out_str, LENGTH_MAX)
  /\ unread' = FALSE
  /\ UNCHANGED <<version, message_list, out_str, total_len, written, status>>

Unload == /\ status = "loaded" /\ status' = "removed"
          /\ UNCHANGED <<version, message_list, out_str, total_len, position, got, written, unread>>

Next == \/ \E p \in Pids : WriteList(p) \/ WriteString(p)
        \/ WriteUnknownToList \/ WriteUnknownToString
        \/ \E f \in Files : \/ Open(f)
                            \/ \E n \in Counts : ReadList(f, n) \/ ReadString(f, n)
        \/ Unload

Spec == Init /\ [][Next]_vars
-----------------------------------------------------------------------------
\* Every variable has its type, and the total covers the text: the buffer
\* temp[total_len + 1] holds all messages of the list, and out_str has as many
\* of the total as there is room for.
TypeOK ==
  /\ version \in {"list", "string"} /\ status \in {"loaded", "oops", "removed"}
  /\ message_list \in Seq(Pids) /\ Len(Text(message_list)) <= total_len
  /\ Len(out_str) < LENGTH_MAX
  /\ version = "string" => Len(out_str) = total_len \/ Len(out_str) = LENGTH_MAX - 1
  /\ position \in [Files -> Nat]
  /\ written \in Pids \cup {0} /\ unread \in BOOLEAN

\* What a reader is to see of the branch from init to the pid written last.
Shown == IF version = "list" THEN Text(branchOf[written]) ELSE Cut(Text(branchOf[written]))

\* A read from the start, the first after a write that ended, returns as much
\* as was asked for of that branch, whatever was written, read or left unread
\* before.  The string version returns the same at every position and in every
\* later read, up to where out_str ends.
ReadsBranch ==
  [][\A f \in Files, n \in Counts :
       LET from  == position[f]
           asked == IF from + n <= Len(Shown) THEN n ELSE Len(Shown) - from
       IN /\ written # 0 /\ from <= Len(Shown)
          /\ (ReadList(f, n) /\ unread /\ from = 0) \/ ReadString(f, n)
          => IsPrefix(SubSeq(Shown, from + 1, from + asked), got')]_vars
=============================================================================
