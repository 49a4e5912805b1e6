------------------------------- MODULE Relay --------------------------------
(***************************************************************************)
(* What a thread of the proxy does with bytes: the robust I/O of           *)
(* src/proxylab/proxylab/csapp.c under handle_client, parse_header and     *)
(* get_from_server of proxy.c and create_CI of cache.c.  One connection is *)
(* served after the other; the threads beside it are module Proxy's, and   *)
(* here only show as the count of readers that get_from_server consults.   *)
(*                                                                         *)
(* A step is one read or write, which moves as many bytes as it pleases,   *)
(* or one byte handed over by rio_read.  An interrupted call (EINTR) is    *)
(* repeated and changes nothing.  The bytes of a request are               *)
(*    "G"  the word GET          "H"  a text with Host in it               *)
(*    "r"  carriage return       "U"  a text with a name parse_header      *)
(*    "n"  newline                    drops (User-Agent, Accept, ...)      *)
(*    "x"  anything else                                                   *)
(* and those of an answer are numbers, 0 for NUL.  All requests are for    *)
(* one object, and Answer is what its server sends.                        *)
(***************************************************************************)
EXTENDS Naturals, Sequences, SequencesExt

CONSTANTS MAXLINE, RIO_BUFSIZE, MAX_OBJECT_SIZE,
          Requests,     \* what a client may send before it stops
          Answers,      \* what the server may send for the object
          MaxReaders,   \* readers in the cache at once
          MaxOpen       \* descriptors the process may have

Letters == {"G", "H", "r", "n", "x", "U"}
Numbers == 0 .. 255

(* A line has room for its end.  There are never so many readers that the  *)
(* test of get_from_server leaves out a piece it has room for: an answer   *)
(* comes in pieces of MAXLINE bytes, and with the sizes of csapp.h and     *)
(* cache.h that takes more than 4096 readers, each with an open socket.    *)
ASSUME RelayAssumption ==
    /\ {MAXLINE, RIO_BUFSIZE, MAX_OBJECT_SIZE, MaxOpen} \subseteq Nat \ {0}
    /\ MAXLINE > 2
    /\ Requests \subseteq Seq(Letters) /\ Answers \subseteq Seq(Numbers)
    /\ MaxReaders \in Nat
    /\ \A k \in 0 .. MAX_OBJECT_SIZE :
          k * MAXLINE < MAX_OBJECT_SIZE => k * MAXLINE + MaxReaders <= MAX_OBJECT_SIZE

VARIABLES
    at,               \* where the thread is, or why there is none
    sent, fromClient, \* the client's request, and what is not read of it
    rio_buf,          \* unread bytes of the internal buffer (rio_cnt, rio_bufptr)
    line,             \* what rio_readlineb has put at usrbuf
    buf,              \* the last line parse_header got
    header, isHost,   \* the header for the server
    answer, fromServer, \* the server's answer, and what is not read of it
    piece,            \* what rio_readn has put into buf
    data,             \* the answer collected for the cache: data[0 .. cnt - 1]
    out,              \* what rio_writen has still to write
    toServer, toClient, \* what the peers have been sent
    hit,              \* the object was in the cache
    stored,           \* the object in the cache; empty for none
    open, refused     \* open descriptors; connections refused so far

client == <<sent, fromClient, rio_buf, line>>
request == <<buf, header, isHost>>
reply == <<answer, fromServer, piece, data>>
written == <<out, toServer, toClient>>
cache == <<hit, stored>>
process == <<open, refused>>
vars == <<at, client, request, reply, written, cache, process>>

(* The places of the thread:                                               *)
(*   idle      no connection: main is at Accept                            *)
(*   request   rio_readlineb for the request line                          *)
(*   header    rio_readlineb for a line of the header                      *)
(*   refuse    rio_writen of the error message                             *)
(*   serve     rio_writen of the cached object                             *)
(*   connect   Open_clientfd                                               *)
(*   ask, tell rio_writen of the request line, and of the header           *)
(*   read      rio_readn of a piece of the answer                          *)
(*   forward   rio_writen of the piece                                     *)
(*   store     create_CI and insert_cache                                  *)
(*   done      served, every socket closed                                 *)
(*   exit      a wrapper failed, and with it the process                   *)
(*   overrun   a text went over the end of an array                        *)
Reading == {"request", "header"}
Writing == {"refuse", "serve", "ask", "tell", "forward"}
Places == Reading \cup Writing \cup {"idle", "connect", "read", "store", "done", "exit", "overrun"}

CRLF == <<"r", "n">>
FixedHeader == <<"U">>
HostLine == <<"H">> \o CRLF
RequestLine == <<"G", "n">>
Refusal == <<"x", "n">>

Least(m, n) == IF m < n THEN m ELSE n
FirstBytes(s, k) == SubSeq(s, 1, k)
AfterBytes(s, k) == SubSeq(s, k + 1, Len(s))

(* The C string that an array starting with s holds.                       *)
Text(s) == IF Contains(s, 0) THEN FirstBytes(s, SelectInSeq(s, LAMBDA b : b = 0) - 1) ELSE s

TypeOK ==
    /\ at \in Places
    /\ Len(rio_buf) \in 0 .. RIO_BUFSIZE
    /\ Len(line) < MAXLINE /\ Len(buf) < MAXLINE
    /\ Len(header) < MAXLINE \/ at = "overrun"
    /\ Len(piece) <= MAXLINE
    /\ Len(data) <= MAX_OBJECT_SIZE
    /\ Len(stored) <= MAX_OBJECT_SIZE
    /\ IsSuffix(fromClient, sent) /\ IsSuffix(fromServer, answer)
    /\ {isHost, hit} \subseteq BOOLEAN
    /\ open \in 0 .. MaxOpen
    /\ refused \in 0 .. open

Init ==
    /\ at = "idle"
    /\ sent = <<>> /\ fromClient = <<>> /\ rio_buf = <<>> /\ line = <<>>
    /\ buf = <<>> /\ header = <<>> /\ isHost = FALSE
    /\ answer \in Answers /\ fromServer = answer /\ piece = <<>> /\ data = <<>>
    /\ out = <<>> /\ toServer = <<>> /\ toClient = <<>>
    /\ hit = FALSE /\ stored = <<>>
    /\ open = 0 /\ refused = 0

-----------------------------------------------------------------------------
(* main: Accept gives a connection, whose thread starts at handle_client   *)
(* with an empty buffer (rio_readinitb); without a descriptor it fails and *)
(* ends the process.                                                       *)
rio_readinitb == rio_buf' = <<>>

AcceptConnection(s) ==
    /\ at \in {"idle", "done"}
    /\ open < MaxOpen
    /\ at' = "request"
    /\ open' = open + 1
    /\ sent' = s /\ fromClient' = s /\ line' = <<>>
    /\ rio_readinitb
    /\ buf' = <<>> /\ header' = FixedHeader /\ isHost' = FALSE
    /\ fromServer' = answer /\ piece' = <<>> /\ data' = <<>>
    /\ out' = <<>> /\ toServer' = <<>> /\ toClient' = <<>>
    /\ hit' = FALSE
    /\ UNCHANGED <<answer, stored, refused>>

AcceptFails ==
    /\ at \in {"idle", "done"}
    /\ open = MaxOpen
    /\ at' = "exit"
    /\ UNCHANGED <<client, request, reply, written, cache, process>>

-----------------------------------------------------------------------------
(* What is done with a line: handle_client and parse_header.               *)

Has(text, b) == Contains(text, b)

(* parse_request: a line without a word leaves the method as malloc gave   *)
(* it, which may be anything.                                              *)
Blank(text) == ToSet(text) \subseteq {"r", "n"}
parse_request(text) == IF Blank(text) THEN BOOLEAN ELSE {Head(text) = "G"}

(* The thread starts to write s with rio_writen.                           *)
Write(place, s) == at' = place /\ out' = s

(* handle_client after the request line, and get_from_cache: the object    *)
(* may be there or evicted.                                                *)
ParseRequest(text) ==
    /\ \/ /\ FALSE \in parse_request(text)
          /\ Write("refuse", Refusal)
          /\ UNCHANGED hit
       \/ /\ TRUE \in parse_request(text)
          /\ stored # <<>>
          /\ Write("serve", stored)
          /\ hit' = TRUE
       \/ /\ TRUE \in parse_request(text)
          /\ at' = "header"
          /\ UNCHANGED <<out, hit>>
    /\ UNCHANGED request

(* strcat and sprintf write s and its NUL into header.                     *)
PutHeader(s, next) ==
    /\ header' = s
    /\ at' = IF Len(s) + 1 > MAXLINE THEN "overrun" ELSE next

Dropped(text) == Has(text, "U")

EndOfHeader ==
    /\ PutHeader(header \o (IF isHost THEN <<>> ELSE HostLine) \o CRLF, "connect")
    /\ UNCHANGED isHost

ParseHeaderLine(text) ==
    /\ buf' = text
    /\ \/ text = CRLF /\ EndOfHeader
       \/ text # CRLF /\ Dropped(text) /\ UNCHANGED <<at, header, isHost>>
       \/ /\ text # CRLF /\ ~ Dropped(text)
          /\ PutHeader(header \o text, "header")
          /\ isHost' = (isHost \/ Has(text, "H"))
    /\ UNCHANGED <<out, hit>>

Parse(text) ==
    \/ at = "request" /\ ParseRequest(text)
    \/ at = "header" /\ ParseHeaderLine(text)

-----------------------------------------------------------------------------
(* rio_read and rio_readlineb.                                             *)

(* Mutant: rio_cnt <= 1, so that a refill drops a byte.                    *)
Refill_Skips ==
    /\ at \in Reading
    /\ Len(rio_buf) <= 1
    /\ \E k \in 1 .. Least(RIO_BUFSIZE, Len(fromClient)) :
          /\ rio_buf' = FirstBytes(fromClient, k)
          /\ fromClient' = AfterBytes(fromClient, k)
    /\ UNCHANGED <<at, sent, line, request, reply, written, cache, process>>

(* rio_read with an empty buffer: read as much as there is, up to the      *)
(* size of the buffer.                                                     *)
Refill ==
    /\ at \in Reading
    /\ rio_buf = <<>>
    /\ \E k \in 1 .. Least(RIO_BUFSIZE, Len(fromClient)) :
          /\ rio_buf' = FirstBytes(fromClient, k)
          /\ fromClient' = AfterBytes(fromClient, k)
    /\ UNCHANGED <<at, sent, line, request, reply, written, cache, process>>

(* Mutant: n <= maxlen.                                                    *)
LineEnds_Late(text) == Last(text) = "n" \/ Len(text) = MAXLINE

LineEnds(text) == Last(text) = "n" \/ Len(text) = MAXLINE - 1

(* The loop of rio_readlineb: one byte from rio_read.                      *)
TakeByte ==
    /\ at \in Reading
    /\ rio_buf # <<>>
    /\ rio_buf' = Tail(rio_buf)
    /\ LET text == Append(line, Head(rio_buf)) IN
          IF LineEnds(text)
             THEN line' = <<>> /\ Parse(text)
             ELSE line' = text /\ UNCHANGED <<at, request, out, hit>>
    /\ UNCHANGED <<sent, fromClient, reply, toServer, toClient, stored, process>>

(* What an array of the stack may hold before anything is written to it.   *)
Leftovers == {<<>>, CRLF, <<"x", "n">>, <<"G", "n">>}

(* rio_read returns 0, at the end of what the client sends.  With some     *)
(* data rio_readlineb returns it as the line.  Without, it returns 0 and   *)
(* leaves usrbuf alone, and the callers, who do not look at the result,    *)
(* take the line before for the new one.                                   *)
EndOfFile ==
    /\ at \in Reading
    /\ rio_buf = <<>> /\ fromClient = <<>>
    /\ line' = <<>>
    /\ \/ line # <<>> /\ Parse(line)
       \/ line = <<>> /\ at = "header" /\ buf # <<>> /\ Parse(buf)
       \/ line = <<>> /\ (at = "header" => buf = <<>>) /\ \E text \in Leftovers : Parse(text)
    /\ UNCHANGED <<sent, fromClient, rio_buf, reply, toServer, toClient, stored, process>>

-----------------------------------------------------------------------------
(* rio_writen: write takes some of the bytes; the last of them ends it.    *)

(* handle_client returns from a refusal without closing the connection.    *)
Refuse == Write("done", <<>>) /\ refused' = refused + 1 /\ UNCHANGED <<open, piece>>

(* The end of handle_client.                                               *)
CloseClient == Write("done", <<>>) /\ open' = open - 1 /\ UNCHANGED <<refused, piece>>

NextRead == Write("read", <<>>) /\ piece' = <<>> /\ UNCHANGED process

Written ==
    \/ at = "refuse" /\ Refuse
    \/ at = "serve" /\ CloseClient
    \/ at = "ask" /\ Write("tell", header) /\ UNCHANGED <<process, piece>>
    \/ at \in {"tell", "forward"} /\ NextRead

(* Mutant: rio_writen gives up after a short count.                        *)
Remaining_Dropped(k) == <<>>

Remaining(k) == AfterBytes(out, k)

rio_writen ==
    /\ at \in Writing
    /\ \E k \in 1 .. Len(out) :
          /\ IF at \in {"ask", "tell"}
                THEN toServer' = toServer \o FirstBytes(out, k) /\ UNCHANGED toClient
                ELSE toClient' = toClient \o FirstBytes(out, k) /\ UNCHANGED toServer
          /\ IF Remaining(k) = <<>>
                THEN Written
                ELSE out' = Remaining(k) /\ UNCHANGED <<at, process, piece>>
    /\ UNCHANGED <<client, request, answer, fromServer, data, cache>>

-----------------------------------------------------------------------------
(* get_from_server.                                                        *)

(* open_clientfd walks the addresses of the host; without a descriptor no  *)
(* socket can be had.  Whether it ends with a connection:                  *)
open_clientfd == IF open < MaxOpen THEN BOOLEAN ELSE {FALSE}

Open_clientfd ==
    /\ at = "connect"
    /\ \/ /\ TRUE \in open_clientfd
          /\ Write("ask", RequestLine)
          /\ open' = open + 1
       \/ /\ FALSE \in open_clientfd
          /\ at' = "exit"
          /\ UNCHANGED <<out, open>>
    /\ UNCHANGED <<client, request, reply, toServer, toClient, cache, refused>>

(* The loop of rio_readn.                                                  *)
ReadPiece ==
    /\ at = "read"
    /\ \E k \in 1 .. Least(MAXLINE - Len(piece), Len(fromServer)) :
          /\ piece' = piece \o FirstBytes(fromServer, k)
          /\ fromServer' = AfterBytes(fromServer, k)
    /\ UNCHANGED <<at, client, request, answer, data, written, cache, process>>

(* The limit is tested with the number of readers in the cache, not with   *)
(* the length of the piece.                                                *)
Collected(readcnt) == IF Len(data) + readcnt <= MAX_OBJECT_SIZE THEN data \o piece ELSE data

(* rio_readn returns a piece, which is collected and forwarded.            *)
TakePiece ==
    /\ at = "read"
    /\ piece # <<>>
    /\ Len(piece) = MAXLINE \/ fromServer = <<>>
    /\ \E readcnt \in 0 .. MaxReaders :
          IF Len(Collected(readcnt)) > MAX_OBJECT_SIZE
             THEN at' = "overrun" /\ UNCHANGED <<data, out>>
             ELSE data' = Collected(readcnt) /\ Write("forward", piece)
    /\ UNCHANGED <<client, request, answer, fromServer, piece, toServer, toClient, cache, process>>

(* rio_readn returns 0.                                                    *)
EndOfAnswer ==
    /\ at = "read"
    /\ piece = <<>> /\ fromServer = <<>>
    /\ at' = "store"
    /\ UNCHANGED <<client, request, reply, written, cache, process>>

(* create_CI takes data for a string although nothing ends it: what the    *)
(* stack holds behind it comes along, up to a NUL.  An object longer than  *)
(* MAX_OBJECT_SIZE with its NUL is not inserted.                           *)
create_CI(behind) == Append(Text(data \o behind), 0)

insert_cache(item) == IF Len(item) > MAX_OBJECT_SIZE THEN stored ELSE item

(* Mutant: the server's socket is not closed.                              *)
StoreObject_OneClosed ==
    /\ at = "store"
    /\ \E behind \in {<<>>, <<255>>} : stored' = insert_cache(create_CI(behind))
    /\ at' = "done"
    /\ open' = open - 1
    /\ UNCHANGED <<client, request, reply, written, hit, refused>>

(* Then both sockets are closed, the server's in get_from_server and the   *)
(* client's in handle_client.                                              *)
StoreObject ==
    /\ at = "store"
    /\ \E behind \in {<<>>, <<255>>} : stored' = insert_cache(create_CI(behind))
    /\ at' = "done"
    /\ open' = open - 2
    /\ UNCHANGED <<client, request, reply, written, hit, refused>>

-----------------------------------------------------------------------------
(* A read or write fails, as it does when the peer resets the connection,  *)
(* and unix_error ends the process.                                        *)
WrapperFails ==
    /\ at \in Reading \cup Writing \cup {"read"}
    /\ at' = "exit"
    /\ UNCHANGED <<client, request, reply, written, cache, process>>

Serve ==
    \/ Refill \/ TakeByte \/ rio_writen
    \/ Open_clientfd \/ ReadPiece \/ TakePiece \/ EndOfAnswer \/ StoreObject

Next ==
    \/ \E s \in Requests : AcceptConnection(s)
    \/ AcceptFails
    \/ Serve
    \/ EndOfFile
    \/ WrapperFails

Spec == Init /\ [][Next]_vars

(* The thread is scheduled, and its peers send and take what they have to. *)
(* A client need not close its side, so EndOfFile is not fair.             *)
FairSpec == Spec /\ WF_vars(Serve)

-----------------------------------------------------------------------------
(* Properties.                                                             *)

(* The lines of a request, each at the newline that ends it.               *)
Newlines(s) == {i \in DOMAIN s : s[i] = "n"}
Before(s, i) == {j \in Newlines(s) : j < i}
LineAt(s, i) == SubSeq(s, 1 + Max({0} \cup Before(s, i)), i)

(* The empty line ends the header, which starts behind the request line.   *)
EndsHeader(s, i) == Before(s, i) # {} /\ LineAt(s, i) = CRLF
InHeader(s, i) == Before(s, i) # {} /\ \A j \in Before(s, i) \cup {i} : ~ EndsHeader(s, j)

(* What the server is to get: the proxy's own lines, the client's except   *)
(* those it replaces, one Host line at least, and an empty line.           *)
Passing(s, i) ==
    IF i \in Newlines(s) /\ InHeader(s, i) /\ ~ Contains(LineAt(s, i), "U") THEN LineAt(s, i) ELSE <<>>

Passed(s) == FlattenSeq([i \in DOMAIN s |-> Passing(s, i)])

ExpectedHeader(s) ==
    FixedHeader \o Passed(s) \o (IF Contains(Passed(s), "H") THEN <<>> ELSE HostLine) \o CRLF

(* A request the proxy has room for: GET, every line and the whole header  *)
(* shorter than MAXLINE, and an empty line at the end of the header.       *)
Fits(s) ==
    /\ s # <<>> /\ Head(s) = "G"
    /\ \E i \in Newlines(s) : EndsHeader(s, i)
    /\ \A i \in Newlines(s) : Len(LineAt(s, i)) < MAXLINE
    /\ Len(ExpectedHeader(s)) < MAXLINE

(* However read splits the client's bytes and write the proxy's, the       *)
(* server is sent the request line and then exactly the expected header,   *)
(* no line lost, split, doubled or out of order (rio_readlineb,            *)
(* parse_header, rio_writen).                                              *)
HeaderForwarded ==
    Fits(sent) =>
        /\ at \in {"ask", "tell"} => IsPrefix(toServer, RequestLine \o ExpectedHeader(sent))
        /\ at \in {"read", "forward", "store"} => toServer = RequestLine \o ExpectedHeader(sent)

(* A client is sent the server's bytes in order, all of them by the time   *)
(* its connection is closed; the cache holds, and a hit sends, the text of *)
(* that answer first (get_from_server, create_CI, get_from_cache).         *)
AnswerRelayed ==
    /\ at \in {"read", "forward", "store"} =>
          IsPrefix(toClient \o out, answer)
    /\ at = "store" => toClient = answer
    /\ stored # <<>> => IsPrefix(Text(answer), stored)
    /\ at = "done" /\ hit => IsPrefix(Text(answer), toClient)

(* A request the proxy has room for, for an object it has room for, is     *)
(* answered and all its sockets are closed, unless a failing call ends the *)
(* process: short counts, full buffers and the limit of the collected data *)
(* neither stop the thread nor overrun an array, and what stays open is    *)
(* only what refused connections left.                                     *)
RequestServed ==
    at = "request" /\ Fits(sent) /\ Len(answer) <= MAX_OBJECT_SIZE
        ~> at = "exit" \/ (at = "done" /\ open = refused)

=============================================================================
